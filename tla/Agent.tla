------------------------------- MODULE Agent -------------------------------
(***************************************************************************)
(* The agent: Agent.Handle with the session file, the memory store and the *)
(* request budget, next to the callers of the tool registry.               *)
(*                                                                         *)
(* The gateway hands messages to Handle one at a time, and again after an  *)
(* error, a failed CompleteWithOutbox or a restart, up to MaxAttempts      *)
(* times (see Gateway; a retry waits, so that later messages may overtake  *)
(* it).  Every transaction and every file operation of Handle is a step.   *)
(***************************************************************************)
EXTENDS Tools

CONSTANTS Scenarios,        \* what happens in one behaviour: the texts the owner may
                            \* write, how many messages he writes, whether
                            \* tools are called, how many faults and restarts there are
          Answers,          \* lengths of the model's answers, in characters
          Owner,            \* owner_telegram_id
          Limits,           \* BudgetLimits of a request
          InputPrice, OutputPrice,
          Window,           \* messages that Recent returns, 20 in Handle
          MaxLine,          \* longest line the scanner of Recent takes
          MaxAttempts       \* Gateway.MaxAttempts

ASSUME LimitsAssumption ==
    Limits \in [Meters -> Int] /\ ValidLimits(Limits) /\ Window \in Nat \ {0}

\* A text is [kind, arg]; arg is the length of a chat message, the token of a
\* decision, whether something to remember looks like a secret (1), the id to
\* forget.  "query" stands for the commands that only read, and for malformed ones.
Kinds == {"chat", "approve", "deny", "remember", "forget", "stop", "query"}

ASSUME TextsAssumption ==
    /\ \A s \in Scenarios : \A x \in s.texts : x.kind \in Kinds /\ x.arg \in Nat
    /\ \A s \in Scenarios : s.faults \in Nat /\ s.messages \in Nat
    /\ Answers \subseteq Nat /\ InputPrice \in Nat /\ OutputPrice \in Nat

VARIABLES
    scenario,       \* the one of this behaviour
    text,           \* the messages written so far
    status,         \* what the inbox says of each
    attempts,       \* how often each was claimed
    pc, cur,        \* where Handle is, and with which message
    spent,          \* the request's budget
    answer,         \* length of the model's answer
    cancel,         \* the message whose request a.cancel cancels, 0 for nil
    history,        \* lines of the session file
    appends,        \* lines that should be there
    candidates,     \* memory_candidates
    items,          \* memory_items: id -> candidate
    nextItem,       \* AUTOINCREMENT of memory_items
    fts,            \* rows of the search index: <<id, candidate whose words it has>>
    restarts        \* bound: deaths of the process that may still happen

inboxVars  == <<text, status, attempts>>
handleVars == <<pc, cur, spent, answer, cancel>>
session    == <<history, appends>>
memory     == <<candidates, items, nextItem, fts>>
vars       == <<scenario, now, approvals, registry, inboxVars, handleVars, session, memory,
                faults, restarts>>

Init ==
    /\ scenario \in Scenarios
    /\ ApprovalInit /\ ToolsInit
    /\ text = <<>> /\ status = <<>> /\ attempts = <<>>
    /\ pc = "idle" /\ cur = 0 /\ spent = NothingUsed /\ answer = 0 /\ cancel = 0
    /\ history = <<>> /\ appends = 0
    /\ candidates = <<>> /\ items = <<>> /\ nextItem = 1 /\ fts = {}
    /\ faults = scenario.faults /\ restarts = scenario.restarts

----------------------------------------------------------------------------
(***************************************************************************)
(* The inbox, as far as Handle sees it.                                    *)
(***************************************************************************)
Write(x) ==
    /\ Len(text) < scenario.messages
    /\ text' = Append(text, x)
    /\ status' = Append(status, "pending") /\ attempts' = Append(attempts, 0)
    /\ UNCHANGED <<now, approvals, registry, handleVars, session, memory, faults, restarts>>

Claim(m) ==
    /\ pc = "idle" /\ status[m] = "pending"
    /\ status' = [status EXCEPT ![m] = "running"]
    /\ attempts' = [attempts EXCEPT ![m] = @ + 1]
    /\ pc' = text[m].kind /\ cur' = m /\ spent' = NothingUsed
    /\ UNCHANGED <<now, text, answer, cancel, approvals, registry, session, memory, faults, restarts>>

\* Handle returns an error, or its result cannot be stored.
Retried == [status EXCEPT ![cur] = IF attempts[cur] >= MaxAttempts THEN "dead" ELSE "pending"]

\* Handle returns; a budget that is exceeded is a reply too.
Settle ==
    /\ \/ pc = "replied" /\ NoFault /\ status' = [status EXCEPT ![cur] = "completed"]
       \/ pc = "replied" /\ Fault   /\ status' = Retried
       \/ pc = "failed"  /\ NoFault /\ status' = Retried
    /\ pc' = "idle"
    /\ UNCHANGED <<now, text, attempts, cur, spent, answer, cancel, approvals, registry,
                   session, memory, restarts>>

\* A step of Handle that goes on at label; Quiet if it is not about the request.
Step(label) ==
    /\ pc' = label
    /\ UNCHANGED <<now, inboxVars, cur, registry, restarts>>

Quiet == UNCHANGED <<spent, answer, cancel>>

----------------------------------------------------------------------------
(***************************************************************************)
(* Commands.                                                               *)
(***************************************************************************)
\* The commands that read may fail; "/forget x" always does.
Query(label) ==
    /\ pc = "query" /\ Step(label)
    /\ UNCHANGED <<approvals, session, memory, faults>> /\ Quiet

\* /approve and /deny: an error of ResolveToken is part of the reply.
Resolve(lost) ==
    /\ pc \in {"approve", "deny"} /\ Step("replied")
    /\ ResolveToken(text[cur].arg, Owner,
                    IF pc = "approve" THEN "approved" ELSE "denied", lost)
    /\ MayLose(lost)
    /\ UNCHANGED <<session, memory>> /\ Quiet

\* /stop cancels the active request, if it finds one.
Stop ==
    /\ pc = "stop" /\ Step("replied")
    /\ cancel' = 0
    /\ UNCHANGED <<approvals, spent, answer, session, memory, faults>>

\* /remember: Candidate inserts the text, Approve moves it in a transaction of
\* its own; a text that looks like a secret is an error.
Candidate ==
    /\ pc = "remember"
    /\ \/ /\ text[cur].arg = 0 /\ NoFault /\ Step("approving")
          /\ candidates' = Append(candidates, [of |-> cur, state |-> "pending"])
       \/ /\ text[cur].arg = 1 /\ NoFault /\ Step("failed")
          /\ UNCHANGED candidates
       \/ /\ Fault /\ Step("failed")
          /\ UNCHANGED candidates
    /\ UNCHANGED <<approvals, session, items, nextItem, fts>> /\ Quiet

BadApprove ==
    /\ pc = "approving" /\ NoFault /\ Step("replied")
    /\ candidates' = [candidates EXCEPT ![Len(candidates)].state = "approved"]
    /\ \E id \in 1 .. nextItem :          \* an INTEGER PRIMARY KEY: the largest id, plus one
          /\ (id = 1 \/ id - 1 \in DOMAIN items) /\ \A i \in DOMAIN items : i < id
          /\ items' = [i \in DOMAIN items \cup {id} |->
                          IF i = id THEN Len(candidates) ELSE items[i]]
          /\ fts' = fts \cup {<<id, Len(candidates)>>}
    /\ nextItem' = nextItem + 1
    /\ UNCHANGED <<approvals, session>> /\ Quiet

Approve ==
    /\ pc = "approving"
    /\ \/ /\ NoFault /\ Step("replied")
          /\ candidates' = [candidates EXCEPT ![Len(candidates)].state = "approved"]
          /\ items' = [i \in DOMAIN items \cup {nextItem} |->
                          IF i = nextItem THEN Len(candidates) ELSE items[i]]
          /\ fts' = fts \cup {<<nextItem, Len(candidates)>>}
          /\ nextItem' = nextItem + 1
       \/ /\ Fault /\ Step("failed")
          /\ UNCHANGED memory
    /\ UNCHANGED <<approvals, session>> /\ Quiet

\* /forget: an id that does not exist is no error; the error of the search
\* index is ignored.  The row of the index is found by way of memory_items, so
\* that one which was left there stays for good.
Without(id) == items' = [i \in DOMAIN items \ {id} |-> items[i]]
Unindexed(id) == fts' = fts \ {<<i, items[i]>> : i \in DOMAIN items \cap {id}}

Forget ==
    /\ pc = "forget"
    /\ \/ NoFault /\ Step("replied") /\ Without(text[cur].arg) /\ Unindexed(text[cur].arg)
       \/ Fault   /\ Step("replied") /\ Without(text[cur].arg) /\ UNCHANGED fts
       \/ Fault   /\ Step("failed")  /\ UNCHANGED <<items, fts>>
    /\ UNCHANGED <<approvals, session, candidates, nextItem>> /\ Quiet

----------------------------------------------------------------------------
(***************************************************************************)
(* The session file.  A write that fails may leave the beginning of a      *)
(* line; the next line is then glued to it and neither can be read.        *)
(***************************************************************************)
Line(role, size) == [role |-> role, of |-> cur, size |-> size, state |-> "ok"]

Torn(h) == h # <<>> /\ h[Len(h)].state = "torn"

WithLine(h, line) ==
    IF Torn(h) THEN [h EXCEPT ![Len(h)].state = "glued", ![Len(h)].size = @ + line.size]
               ELSE Append(h, line)

TornBy(h, line) == IF Torn(h) THEN h ELSE Append(h, [line EXCEPT !.size = 1, !.state = "torn"])

\* Append; both callers ignore its error.
AppendLine(line) ==
    /\ appends' = appends + 1
    /\ \/ NoFault /\ history' = WithLine(history, line)
       \/ Fault   /\ history' \in {history, TornBy(history, line)}

Readable(h) ==
    LET read[n \in 0 .. Len(h)] == IF n = 0 THEN <<>>
                                   ELSE IF h[n].state = "ok" THEN Append(read[n - 1], h[n])
                                   ELSE read[n - 1]
    IN  read[Len(h)]

LastOf(h, n) == IF Len(h) > n THEN SubSeq(h, Len(h) - n + 1, Len(h)) ELSE h

\* Recent: a line too long for the scanner is an error for good.
TooLong == \E n \in DOMAIN history : history[n].size > MaxLine
Recent  == LastOf(Readable(history), Window)

Characters(h) ==
    LET sum[n \in 0 .. Len(h)] == IF n = 0 THEN 0 ELSE sum[n - 1] + h[n].size
    IN  sum[Len(h)]

----------------------------------------------------------------------------
(***************************************************************************)
(* A chat message.                                                         *)
(***************************************************************************)
BadChat ==
    /\ pc = "chat" /\ Step("asking")
    /\ UNCHANGED <<history, appends, faults>>
    /\ UNCHANGED <<approvals, memory>> /\ Quiet

Chat ==
    /\ pc = "chat" /\ Step("asking")
    /\ AppendLine(Line("user", text[cur].arg))
    /\ UNCHANGED <<approvals, memory>> /\ Quiet

\* The budget pays for one step of the model and for the history; a request that
\* is still registered would be cancelled.
Ask ==
    /\ pc = "asking"
    /\ LET use == Plus(Using("ModelSteps", 1), TextUse(Characters(Recent), InputPrice))
       IN  \/ TooLong /\ Step("failed") /\ UNCHANGED <<spent, cancel>>
           \/ /\ ~TooLong /\ Affordable(Limits, spent, use) /\ Step("model")
              /\ spent' = Plus(spent, use) /\ cancel' = cur
           \/ /\ ~TooLong /\ ~Affordable(Limits, spent, use) /\ Step("replied")
              /\ UNCHANGED <<spent, cancel>>
    /\ UNCHANGED <<approvals, answer, session, memory, faults>>

BadAnswer(size) ==
    /\ pc = "model"
    /\ cancel' = 0
    /\ LET use == TextUse(size, OutputPrice)
       IN  IF Affordable(Limits, NothingUsed, use)
           THEN Step("storing") /\ spent' = Plus(spent, use)
           ELSE Step("replied") /\ UNCHANGED spent
    /\ answer' = size
    /\ UNCHANGED <<approvals, session, memory, faults>>

\* Model.Complete returns an answer or an error.
Answer(size) ==
    /\ pc = "model"
    /\ cancel' = 0
    /\ LET use == TextUse(size, OutputPrice)
       IN  \/ Affordable(Limits, spent, use) /\ Step("storing") /\ spent' = Plus(spent, use)
           \/ ~Affordable(Limits, spent, use) /\ Step("replied") /\ UNCHANGED spent
           \/ Step("failed") /\ UNCHANGED spent
    /\ answer' = size
    /\ UNCHANGED <<approvals, session, memory, faults>>

Store ==
    /\ pc = "storing" /\ Step("replied")
    /\ AppendLine(Line("assistant", answer))
    /\ UNCHANGED <<approvals, memory>> /\ Quiet

Handle == \/ \E label \in {"replied", "failed"} : Query(label)
          \/ Stop \/ Candidate \/ Approve \/ Forget \/ Chat \/ Ask \/ Store
          \/ \E lost \in BOOLEAN : Resolve(lost)
          \/ \E size \in Answers : Answer(size)

----------------------------------------------------------------------------
\* The process dies and is started again: Open puts the running message back,
\* whatever was in memory is gone.
Restart ==
    /\ restarts > 0 /\ restarts' = restarts - 1
    /\ status' = [m \in DOMAIN status |-> IF status[m] = "running" THEN "pending" ELSE status[m]]
    /\ pc' = "idle" /\ cur' = 0 /\ spent' = NothingUsed /\ answer' = 0 /\ cancel' = 0
    /\ used' = [c \in Caller |-> NothingUsed] /\ running' = [c \in Caller |-> None]
    /\ UNCHANGED <<now, approvals, tools, ran, calls, text, attempts, session, memory, faults>>

Others == UNCHANGED <<inboxVars, handleVars, session, memory, restarts>>

Anything ==
    \/ \E x \in scenario.texts : Write(x)
    \/ \E m \in DOMAIN text : Claim(m)
    \/ Handle \/ Settle \/ Restart
    \/ scenario.tools /\ ToolsNext /\ Others
    \/ scenario.tools /\ Tick /\ UNCHANGED <<approvals, registry, faults>> /\ Others

Next == Anything /\ UNCHANGED scenario

Spec == Init /\ [][Next]_vars

----------------------------------------------------------------------------
Failures == scenario.faults - faults        \* calls that have failed so far

\* While no write has failed, the model is asked with the current message as the
\* last one of the history, whatever was retried or restarted before; a failed
\* write costs the session file two lines at most, its own and the one that is
\* glued to it (Append, Recent).
HistoryIsKept ==
    /\ (pc = "model" /\ Failures = 0) =>
          LET h == Recent IN h # <<>> /\ h[Len(h)].of = cur /\ h[Len(h)].role = "user"
    /\ appends - Len(Readable(history)) <= 2 * Failures

\* While no write has failed, an answer in the history was paid for together
\* with the history it answers: Handle stores none that exceeds the budget.
AnswersWithinBudget ==
    Failures = 0 => \A n \in DOMAIN history :
        history[n].role = "assistant" =>
            LET before == LastOf(SubSeq(history, 1, n - 1), Window)
            IN  Affordable(Limits, TextUse(Characters(before), InputPrice),
                                   TextUse(history[n].size, OutputPrice))

\* A completed /remember has a memory behind it, and every memory that is kept
\* is approved and found by the search index, whatever failed on the way.  A row
\* that /forget has left in the index never makes Search return another memory.
RememberedIsFound ==
    /\ \A m \in DOMAIN text : (text[m].kind = "remember" /\ status[m] = "completed") =>
          \E n \in DOMAIN candidates : candidates[n] = [of |-> m, state |-> "approved"]
    /\ \A i \in DOMAIN items : <<i, items[i]>> \in fts /\ candidates[items[i]].state = "approved"
    /\ \A row \in fts : row[1] \in DOMAIN items => items[row[1]] = row[2]
=============================================================================
