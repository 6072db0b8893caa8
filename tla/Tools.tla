------------------------------- MODULE Tools -------------------------------
(***************************************************************************)
(* The tool registry: Registry.Register and Execute, on top of the policy  *)
(* and the approval manager.  Several callers (skills through              *)
(* CoreToolAdapter, other goroutines) execute tools at the same time; each *)
(* works under a budget of its own.  A call without a token is the code's  *)
(* empty ApprovalToken, NoToken here.                                      *)
(*                                                                         *)
(* Everything Execute does before it reaches the approval tables is local  *)
(* to the call or read-only, so Execute is two steps: up to and including  *)
(* the approval, then the tool's handler.                                  *)
(***************************************************************************)
EXTENDS Approval, Budget, Policy, FiniteSets

CONSTANTS Caller,
          Candidates,       \* tool declarations that somebody may register
          Calls,            \* calls: [tool, mode, user, args, resource]
          ToolLimits,       \* BudgetLimits of a caller
          ApprovalTTL,      \* five minutes in Execute
          MaxCalls          \* bound: calls of Execute in one behaviour

ASSUME ToolLimitsAssumption == ValidLimits(ToolLimits)

NoToken == 0

VARIABLES tools,            \* the registry: registered declarations
          used,             \* each caller's budget
          running,          \* the call whose handler a caller is in, if any
          ran,              \* calls whose handler has been run
          calls,            \* calls of Execute so far
          faults            \* bound: database or file calls that may still fail

registry == <<tools, used, running, ran, calls>>

None == [id |-> 0]

ToolsInit ==
    /\ tools = {} /\ ran = {} /\ calls = 0
    /\ used = [c \in Caller |-> NothingUsed]
    /\ running = [c \in Caller |-> None]

\* A call fails, for as long as the bound allows.
Fault   == faults > 0 /\ faults' = faults - 1
NoFault == UNCHANGED faults

\* The best-effort audit row is written, or lost by a fault.
MayLose(lost) == IF lost THEN Fault ELSE NoFault

----------------------------------------------------------------------------
Registered(name) == {x \in tools : x.name = name}

\* Register refuses an invalid declaration and a name that is taken.
Register(x) ==
    /\ Validate(x) /\ Registered(x.name) = {}
    /\ tools' = tools \cup {x}
    /\ UNCHANGED <<now, approvals, used, running, ran, calls, faults>>

BindOf(q) == [user |-> q.user, tool |-> q.tool, args |-> q.args, resource |-> q.resource]

\* The part every call shares: the tool is registered, the budget is charged,
\* also for a call that is refused afterwards; outcome is what the policy says.
Enter(c, q, outcome) ==
    /\ running[c] = None /\ calls < MaxCalls
    /\ Affordable(ToolLimits, used[c], Using("ToolCalls", 1))
    /\ \E x \in Registered(q.tool) : Evaluate(x, q.mode) = outcome
    /\ used' = [used EXCEPT ![c] = Plus(@, Using("ToolCalls", 1))]
    /\ calls' = calls + 1
    /\ UNCHANGED <<now, tools, ran>>

Starts(c, q, t) == running' = [running EXCEPT ![c] = [id |-> calls + 1, call |-> q, token |-> t]]

ExecuteAllowed(c, q) ==
    /\ Enter(c, q, "allowed")
    /\ Starts(c, q, NoToken)
    /\ UNCHANGED <<approvals, faults>>

\* No token: the caller gets a request for one instead.
RequestApproval(c, q, lost) ==
    /\ Enter(c, q, "needsApproval")
    /\ Create(BindOf(q), ApprovalTTL, lost) /\ MayLose(lost)
    /\ UNCHANGED running

ExecuteApproved(c, q, t) ==
    /\ Enter(c, q, "needsApproval")
    /\ AuthorizeReceipt(t, BindOf(q))
    /\ Starts(c, q, t)
    /\ UNCHANGED faults

\* The policy denies the call, or the token is not good for it.
ExecuteRefused(c, q, t) ==
    /\ \/ Enter(c, q, "denied")
       \/ Enter(c, q, "needsApproval") /\ t \in Token /\ ~Usable(t, BindOf(q))
    /\ UNCHANGED <<approvals, running, faults>>

\* The handler runs.
Run(c) ==
    /\ running[c] # None
    /\ ran' = ran \cup {running[c]}
    /\ running' = [running EXCEPT ![c] = None]
    /\ UNCHANGED <<now, approvals, tools, used, calls, faults>>

ToolsNext ==
    \/ \E x \in Candidates : Register(x)
    \/ \E c \in Caller : Run(c)
    \/ \E c \in Caller, q \in Calls :
          \/ ExecuteAllowed(c, q)
          \/ \E lost \in BOOLEAN : RequestApproval(c, q, lost)
          \/ \E t \in Token \cup {NoToken} : ExecuteApproved(c, q, t) \/ ExecuteRefused(c, q, t)

----------------------------------------------------------------------------
Started == (ran \cup {running[c] : c \in Caller}) \ {None}

\* A handler that the policy puts under approval ran only for a request that its
\* user approved for exactly this tool, these arguments and this resource, and
\* that no other handler was started for, however many callers present the token
\* at once, before or after a restart; all other handlers ran because the policy
\* lets them (Execute, Evaluate, AuthorizeReceipt).
RunsWereApproved ==
    \A r \in Started : \E x \in Registered(r.call.tool) :
        /\ r.call.mode \in x.modes
        /\ (x.approval \/ x.risk \in {"high", "critical"} \/ r.call.mode = "publish") =>
              /\ r.token \in DOMAIN uses
              /\ requests[r.token].state = "approved"
              /\ requests[r.token].bind = BindOf(r.call)
              /\ \A s \in Started : s.token = r.token => s.id = r.id
=============================================================================
