-------------------------------- MODULE Mcp --------------------------------
(***************************************************************************)
(* The MCP client: Manager with its map of sessions, for one server.       *)
(* Several callers invoke a tool of the server at the same time and share  *)
(* the session; Close may come at any moment.  Every section under m.mu,   *)
(* every connection, and the two halves of CallTool are steps.             *)
(*                                                                         *)
(* The SDK's client session is external: it is open until it is closed or  *)
(* its context is cancelled, after which every call on it is an error.     *)
(***************************************************************************)
EXTENDS Tools

CONSTANT MaxSessions        \* bound: connections in one behaviour

VARIABLES configs,          \* m.configs
          sessions,         \* every session ever opened: "open" or "closed"
          current,          \* m.sessions of the server, 0 if there is none
          close,            \* how far Close has come
          inv,              \* each caller's invocation
          executed,         \* executions of tools at the server
          finished,         \* invocations that have returned: [id, call, token, ok]
          trouble           \* something has gone wrong: a fault, an oversize result, Close

mcpVars == <<configs, sessions, current, close, inv, executed, finished, trouble>>

NoInv == [pc |-> "idle"]

McpInit ==
    /\ configs = {} /\ sessions = <<>> /\ current = 0 /\ close = "no"
    /\ inv = [c \in Caller |-> NoInv]
    /\ executed = <<>> /\ finished = {} /\ trouble = FALSE

\* A configuration of the server is [policies (tool -> declaration), networks,
\* attempts].  ServerConfig.Validate: every allowed tool has a valid policy, MaxAttempts is
\* 1 or 2.
ValidServer(s) ==
    /\ s.attempts \in 1 .. 2 /\ DOMAIN s.policies # {}
    /\ \A tool \in DOMAIN s.policies : s.policies[tool].name = tool /\ Validate(s.policies[tool])

RegisterServer(s) ==
    /\ ValidServer(s) /\ configs = {}
    /\ configs' = {s}
    /\ UNCHANGED <<sessions, current, close, inv, executed, finished, trouble, faults, approvals>>

Config == CHOOSE s \in configs : TRUE

----------------------------------------------------------------------------
(***************************************************************************)
(* InvokeMCP up to the loop.                                               *)
(***************************************************************************)
\* authorize, for a call that the policy lets pass or puts under approval.
BadAuthorized(q, t) ==
    \/ Evaluate(Config.policies[q.tool], q.mode) = "allowed" /\ UNCHANGED approvals
    \/ /\ Evaluate(Config.policies[q.tool], q.mode) = "needsApproval" /\ t \in Token
       /\ requests[t].state = "approved" /\ requests[t].bind = BindOf(q)
       /\ UNCHANGED approvals
Authorized(q, t) ==
    \/ Evaluate(Config.policies[q.tool], q.mode) = "allowed" /\ UNCHANGED approvals
    \/ Evaluate(Config.policies[q.tool], q.mode) = "needsApproval" /\ AuthorizeReceipt(t, BindOf(q))

Admissible(q) ==
    configs # {} /\ q.tool \in DOMAIN Config.policies /\ q.networks \subseteq Config.networks

\* Without the audit row the invocation ends here, and a token is used up.
Invoke(c, q, t, id) ==
    /\ inv[c] = NoInv /\ Admissible(q) /\ Authorized(q, t)
    /\ \/ /\ NoFault
          /\ inv' = [inv EXCEPT ![c] = [pc |-> "get", id |-> id, call |-> q, token |-> t,
                                        attempt |-> 0, session |-> 0]]
          /\ UNCHANGED <<finished, trouble>>
       \/ /\ Fault /\ trouble' = TRUE
          /\ finished' = finished \cup {[id |-> id, call |-> q, token |-> t, ok |-> FALSE]}
          /\ UNCHANGED inv
    /\ UNCHANGED <<configs, sessions, current, close, executed>>

----------------------------------------------------------------------------
(***************************************************************************)
(* The loop.                                                               *)
(***************************************************************************)
Goes(c, pc, s) == inv' = [inv EXCEPT ![c].pc = pc, ![c].session = s]

Frame == UNCHANGED <<configs, approvals>>

Errs == Fault /\ trouble' = TRUE
Fine == NoFault /\ UNCHANGED trouble

\* getSession: the session in the map, or a connection of its own; the time of
\* the invocation may be up.
GetSession(c) ==
    /\ inv[c].pc = "get"
    /\ \/ current # 0 /\ Fine /\ Goes(c, "call", current)
       \/ current = 0 /\ Fine /\ Goes(c, "connect", 0)
       \/ Errs /\ Goes(c, "reset", 0)
    /\ UNCHANGED <<sessions, current, close, executed, finished>> /\ Frame

\* connect; the timer may cancel the session's context after connect has looked
\* at timedOut, so that a dead session is returned.
Connect(c) ==
    /\ inv[c].pc = "connect" /\ Len(sessions) < MaxSessions
    /\ \/ close # "done" /\ Fine
          /\ sessions' = Append(sessions, "open") /\ Goes(c, "register", Len(sessions) + 1)
       \/ close # "done" /\ Errs
          /\ sessions' = Append(sessions, "closed") /\ Goes(c, "register", Len(sessions) + 1)
       \/ Errs /\ UNCHANGED sessions /\ Goes(c, "reset", 0)
       \/ close = "done" /\ Fine /\ UNCHANGED sessions /\ Goes(c, "reset", 0)
    /\ UNCHANGED <<current, close, executed, finished>> /\ Frame

Closed(s) == [sessions EXCEPT ![s] = "closed"]

BadLoser(s) == sessions
Loser(s)    == Closed(s)

BadPut(c) == /\ current' = inv[c].session /\ Goes(c, "call", inv[c].session)
             /\ sessions' = IF current = 0 THEN sessions ELSE Closed(current)

\* The second half of getSession: the first connection stays.
Put(c) ==
    \/ /\ current = 0 /\ current' = inv[c].session /\ Goes(c, "call", inv[c].session)
       /\ UNCHANGED sessions
    \/ /\ current # 0 /\ sessions' = Loser(inv[c].session) /\ Goes(c, "call", current)
       /\ UNCHANGED current

PutSession(c) ==
    /\ inv[c].pc = "register" /\ Put(c) /\ Fine
    /\ UNCHANGED <<close, executed, finished>> /\ Frame

\* CallTool reaches the server, unless the session is gone.
Send(c) ==
    /\ inv[c].pc = "call"
    /\ \/ /\ sessions[inv[c].session] = "open" /\ Fine /\ Goes(c, "wait", inv[c].session)
          /\ executed' = Append(executed, inv[c].id)
       \/ sessions[inv[c].session] = "open" /\ Errs /\ Goes(c, "reset", 0) /\ UNCHANGED executed
       \/ sessions[inv[c].session] = "closed" /\ Fine /\ Goes(c, "reset", 0) /\ UNCHANGED executed
    /\ UNCHANGED <<sessions, current, close, finished>> /\ Frame

Return(c, ok) ==
    /\ finished' = finished \cup {[id |-> inv[c].id, call |-> inv[c].call,
                                   token |-> inv[c].token, ok |-> ok]}
    /\ inv' = [inv EXCEPT ![c] = NoInv]

\* Its answer: a result (which may be the tool's own error), one that exceeds
\* the output limit, or none.
Receive(c) ==
    /\ inv[c].pc = "wait"
    /\ \/ sessions[inv[c].session] = "open" /\ Fine /\ Return(c, TRUE)
       \/ /\ sessions[inv[c].session] = "open" /\ NoFault /\ inv[c].call.oversize
          /\ trouble' = TRUE /\ Goes(c, "reject", 0) /\ UNCHANGED finished
       \/ Errs /\ Goes(c, "reset", 0) /\ UNCHANGED finished
       \/ sessions[inv[c].session] = "closed" /\ Fine /\ Goes(c, "reset", 0) /\ UNCHANGED finished
    /\ UNCHANGED <<sessions, current, close, executed>> /\ Frame

\* Reset takes the session out of the map, whoever opened it, and closes it
\* afterwards.
TakeSession(c) ==
    /\ inv[c].pc \in {"reset", "reject"}
    /\ current' = 0
    /\ Goes(c, IF inv[c].pc = "reset" THEN "closing" ELSE "rejecting", current) /\ Fine
    /\ UNCHANGED <<sessions, close, executed, finished>> /\ Frame

Last(c) == inv[c].pc = "rejecting" \/ inv[c].attempt + 1 >= Config.attempts

\* Then the next attempt, if there is one.
CloseSession(c) ==
    /\ inv[c].pc \in {"closing", "rejecting"}
    /\ sessions' = IF inv[c].session = 0 THEN sessions ELSE Closed(inv[c].session)
    /\ \/ Last(c) /\ Return(c, FALSE)
       \/ /\ ~Last(c) /\ UNCHANGED finished
          /\ inv' = [inv EXCEPT ![c].pc = "get", ![c].attempt = @ + 1, ![c].session = 0]
    /\ Fine
    /\ UNCHANGED <<current, close, executed>> /\ Frame

Loop(c) == \/ GetSession(c) \/ Connect(c) \/ PutSession(c) \/ Send(c) \/ Receive(c)
           \/ TakeSession(c) \/ CloseSession(c)

----------------------------------------------------------------------------
\* Close resets the session it has seen, then cancels the context of all.  (Its
\* Reset is one step: who still uses the session after it was taken out of the
\* map might have used it before.)
CloseManager ==
    /\ \/ /\ close = "no" /\ close' = (IF current = 0 THEN "cancel" ELSE "reset")
          /\ UNCHANGED <<sessions, current>>
       \/ /\ close = "reset" /\ close' = "cancel" /\ current' = 0
          /\ sessions' = IF current = 0 THEN sessions ELSE Closed(current)
       \/ /\ close = "cancel" /\ close' = "done"
          /\ sessions' = [s \in DOMAIN sessions |-> "closed"]
          /\ UNCHANGED current
    /\ trouble' = TRUE
    /\ UNCHANGED <<configs, inv, executed, finished, approvals, faults>>

----------------------------------------------------------------------------
Invocations == finished \cup {[id |-> inv[c].id, call |-> inv[c].call, token |-> inv[c].token,
                               ok |-> FALSE] : c \in {d \in Caller : inv[d] # NoInv}}

UnderApproval(r) == Evaluate(Config.policies[r.call.tool], r.call.mode) = "needsApproval"

\* Every session that is open is in the map, or about to get there or to be
\* closed: neither two callers that connect at once nor a Reset lose one.  Once
\* Close has returned none is open, although a connection may have been under
\* way, and put into the map, while it ran.
NoSessionLost ==
    \A s \in DOMAIN sessions : sessions[s] = "open" =>
        /\ close # "done"
        /\ \/ s = current
           \/ \E c \in Caller :
                 inv[c].pc \in {"register", "closing", "rejecting"} /\ inv[c].session = s

\* An invocation fails only if something went wrong, for it or for another: a
\* fault, a result over the limit, or Close.  Connecting twice breaks nothing.
FailureHasACause == (\E r \in finished : ~r.ok) => trouble

\* A tool is executed at the server MaxAttempts times at most for an invocation,
\* only for one that its policy allows or an approval of its own covers, and one
\* approval covers one invocation.
ExecutionsAreCovered ==
    \A r \in Invocations :
        /\ Cardinality({n \in DOMAIN executed : executed[n] = r.id}) <= Config.attempts
        /\ UnderApproval(r) =>
              /\ r.token \in DOMAIN uses /\ requests[r.token].bind = BindOf(r.call)
              /\ \A o \in Invocations : (UnderApproval(o) /\ o.token = r.token) => o.id = r.id
=============================================================================
