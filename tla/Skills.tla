------------------------------- MODULE Skills -------------------------------
(***************************************************************************)
(* Skills: Registry.Add, RegisterBuiltin, Resolve and Execute of           *)
(* internal/skills, on top of the tool registry (Tools) and the MCP client *)
(* (Mcp).  Each caller executes one skill at a time.                       *)
(*                                                                         *)
(* A manifest is [id, version, type, tools, permissions, approval, steps,  *)
(* mcp]: a step is a call of a tool; the steps of a builtin skill are what *)
(* its handler tries, in this order and as long as it likes: the manifest  *)
(* says nothing about them.                                                *)
(***************************************************************************)
EXTENDS Mcp

CONSTANTS Scenarios,        \* what happens in one behaviour: the manifests that are
                            \* added, the tools that are registered, the calls that
                            \* somebody asks an approval for, the skills that are
                            \* asked for, the servers, how many skills are executed,
                            \* how many faults there are, and whether the MCP client
                            \* is closed
          Owner

\* The steps of a manifest are a list.
ASSUME ScenariosAssumption ==
    \A s \in Scenarios : \A m \in s.manifests :
        m.steps \in Seq({m.steps[n] : n \in DOMAIN m.steps})

VARIABLES scenario,
          manifests,        \* r.manifests
          builtins,         \* r.builtins: the <<id, version>> that have a handler
          exec,             \* what each caller executes
          execs,            \* executions so far
          did,              \* what was run for skills: [exec, skill, step, call]
          done              \* executions that succeeded: [id, skill]

skillVars == <<manifests, builtins, exec, execs, did, done>>
vars      == <<scenario, now, approvals, registry, faults, mcpVars, skillVars>>

NoExec == [id |-> 0]

Init ==
    /\ scenario \in Scenarios
    /\ ApprovalInit /\ ToolsInit /\ McpInit
    /\ faults = scenario.faults
    /\ manifests = {} /\ builtins = {}
    /\ exec = [c \in Caller |-> NoExec] /\ execs = 0 /\ did = {} /\ done = {}

----------------------------------------------------------------------------
(***************************************************************************)
(* The registry of skills.                                                 *)
(***************************************************************************)
\* Manifest.Validate and validateImplementation: the parts that relate what a
\* skill declares; syntax, limits and the integrity hash are in wellFormed.
ValidManifest(m) ==
    /\ m.wellFormed /\ m.permissions # {}
    /\ m.permissions \subseteq {"read", "write", "publish"}
    /\ "publish" \in m.permissions => m.approval = "bound_publish"
    /\ m.type = "declarative" =>
          /\ m.steps # <<>>
          /\ \A n \in DOMAIN m.steps : m.steps[n].tool \in m.tools /\ m.steps[n].mode \in m.permissions

Add(m) ==
    /\ ValidManifest(m)
    /\ \A o \in manifests : <<o.id, o.version>> # <<m.id, m.version>>
    /\ manifests' = manifests \cup {m}
    /\ UNCHANGED <<now, approvals, registry, faults, mcpVars, builtins, exec, execs, did, done>>

RegisterBuiltin(id, version) ==
    /\ <<id, version>> \notin builtins
    /\ builtins' = builtins \cup {<<id, version>>}
    /\ UNCHANGED <<now, approvals, registry, faults, mcpVars, manifests, exec, execs, did, done>>

\* The version that is asked for; without one the newest.  compareVersions does
\* not look at pre-releases, so there may be several, and any may be taken.
NoVersion == <<>>

Resolve(id, version) ==
    {m \in manifests :
        /\ m.id = id
        /\ \/ version # NoVersion /\ m.version = version
           \/ /\ version = NoVersion
              /\ \A o \in manifests : o.id = id => o.version[1] <= m.version[1]}

----------------------------------------------------------------------------
(***************************************************************************)
(* Execute.                                                                *)
(***************************************************************************)
\* The token a request carries is whatever the caller has; a skill that always
\* wants an approval looks no further than that there is one.
Start(c, ask, t) ==
    /\ exec[c] = NoExec /\ execs < scenario.execs
    /\ \E m \in Resolve(ask.id, ask.version) :
          /\ m.approval = "always" => t # NoToken
          /\ m.type = "builtin" => <<m.id, m.version>> \in builtins
          /\ exec' = [exec EXCEPT ![c] = [id |-> execs + 1, skill |-> m, step |-> 1, token |-> t]]
    /\ execs' = execs + 1
    /\ UNCHANGED <<now, approvals, registry, faults, mcpVars, manifests, builtins, did, done>>

Local(c) == c \in {d \in Caller : exec[d] # NoExec /\ exec[d].skill.type # "mcp"}
Remote(c) == c \in {d \in Caller : exec[d] # NoExec /\ exec[d].skill.type = "mcp"}

Current(c) == exec[c].skill.steps[exec[c].step]

\* SkillContext.CallTool keeps a skill within its manifest.
BadInScope(m, q) == q.tool \in m.tools
InScope(m, q) == q.tool \in m.tools /\ q.mode \in m.permissions

End(c)  == exec' = [exec EXCEPT ![c] = NoExec]
GoOn(c) == exec' = [exec EXCEPT ![c].step = @ + 1]

\* What was run: a step of an execution.
Done(id, m, n) == [exec |-> id, skill |-> m, step |-> n, call |-> m.steps[n]]

Does(c) == did' = did \cup {Done(exec[c].id, exec[c].skill, exec[c].step)}

Aside == UNCHANGED <<mcpVars, manifests, builtins, execs, done>>

\* A step is allowed, or its approval is good: the handler starts.
StepStarts(c) ==
    /\ Local(c) /\ exec[c].step <= Len(exec[c].skill.steps)
    /\ InScope(exec[c].skill, Current(c))
    /\ ExecuteAllowed(c, Current(c)) \/ ExecuteApproved(c, Current(c), exec[c].token)
    /\ Does(c) /\ Aside /\ UNCHANGED exec

\* The handler of the tool runs.  When it fails, a declarative skill ends.
StepEnds(c) ==
    /\ Local(c) /\ Run(c)
    /\ GoOn(c) \/ End(c)
    /\ UNCHANGED did /\ Aside

\* The call is out of scope, of a tool that is not there or beyond the budget.
Impossible(c) ==
    \/ ~InScope(exec[c].skill, Current(c))
    \/ Registered(Current(c).tool) = {}
    \/ ~Affordable(ToolLimits, used[c], Using("ToolCalls", 1))

\* Anything else is an error: an approval is missing, the call is refused or is
\* impossible.  It ends a declarative skill, whatever earlier steps did; the
\* handler of a builtin is told, and may go on.
StepFails(c, lost) ==
    /\ Local(c) /\ exec[c].step <= Len(exec[c].skill.steps)
    /\ \/ /\ InScope(exec[c].skill, Current(c))
          /\ \/ exec[c].token = NoToken /\ RequestApproval(c, Current(c), lost)
             \/ ExecuteRefused(c, Current(c), exec[c].token)
       \/ /\ Impossible(c) /\ running[c] = None
          /\ UNCHANGED <<now, approvals, registry, faults>>
    /\ \/ End(c)
       \/ exec[c].skill.type = "builtin" /\ GoOn(c)
    /\ UNCHANGED did /\ Aside

\* A declarative skill succeeds after its last step; the handler of a builtin
\* returns when it likes, and with an error if it likes.
Finish(c) ==
    /\ Local(c) /\ running[c] = None
    /\ exec[c].step > Len(exec[c].skill.steps) \/ exec[c].skill.type = "builtin"
    /\ \/ done' = done \cup {[id |-> exec[c].id, skill |-> exec[c].skill]}
       \/ exec[c].skill.type = "builtin" /\ UNCHANGED done
    /\ End(c)
    /\ UNCHANGED <<now, approvals, registry, faults, mcpVars, manifests, builtins, execs, did>>

\* An MCP skill is one invocation, in the highest mode that it is permitted.
highestPermission(m) ==
    CASE "publish" \in m.permissions -> "publish"
      [] "publish" \notin m.permissions /\ "write" \in m.permissions -> "write"
      [] OTHER -> "read"

CallOfSkill(m) == [m.mcp EXCEPT !.mode = highestPermission(m)]

InvokeMCP(c) ==
    /\ Remote(c) /\ exec[c].step = 1
    /\ Invoke(c, CallOfSkill(exec[c].skill), exec[c].token, exec[c].id)
    /\ exec' = [exec EXCEPT ![c].step = 2]
    /\ UNCHANGED <<now, registry, manifests, builtins, execs, did, done>>

\* The invocation is refused.
RefuseMCP(c) ==
    LET q == CallOfSkill(exec[c].skill)
    IN  /\ Remote(c) /\ exec[c].step = 1
        /\ \/ ~Admissible(q)
           \/ /\ Admissible(q)
              /\ \/ Evaluate(Config.policies[q.tool], q.mode) = "denied"
                 \/ /\ Evaluate(Config.policies[q.tool], q.mode) = "needsApproval"
                    /\ ~Usable(exec[c].token, BindOf(q))
        /\ End(c)
        /\ UNCHANGED <<now, approvals, registry, faults, mcpVars, manifests, builtins, execs, did, done>>

ReturnMCP(c) ==
    /\ Remote(c) /\ exec[c].step = 2 /\ inv[c] = NoInv
    /\ done' = IF \E r \in finished : r.id = exec[c].id /\ r.ok
               THEN done \cup {[id |-> exec[c].id, skill |-> exec[c].skill]} ELSE done
    /\ End(c)
    /\ UNCHANGED <<now, approvals, registry, faults, mcpVars, manifests, builtins, execs, did>>

----------------------------------------------------------------------------
Elsewhere == UNCHANGED <<now, registry, skillVars>>

\* The owner decides; for a tool of an MCP server somebody has to ask for the
\* approval first, which InvokeMCP does not do.
Approvals(lost) ==
    /\ \/ \E t \in Token : Decide(t, Owner, "approved", lost)
       \/ \E q \in scenario.asked : Create(BindOf(q), ApprovalTTL, lost)
    /\ MayLose(lost)
    /\ UNCHANGED <<now, registry, mcpVars, skillVars>>

Anything ==
    \/ \E m \in scenario.manifests : \/ Add(m)
                                     \/ m.type = "builtin" /\ RegisterBuiltin(m.id, m.version)
    \/ \E x \in scenario.tools : Register(x) /\ UNCHANGED <<mcpVars, skillVars>>
    \/ \E c \in Caller : \/ \E ask \in scenario.asks, t \in Token \cup {NoToken} : Start(c, ask, t)
                         \/ StepStarts(c) \/ StepEnds(c) \/ Finish(c)
                         \/ \E lost \in BOOLEAN : StepFails(c, lost)
                         \/ InvokeMCP(c) \/ RefuseMCP(c) \/ ReturnMCP(c)
                         \/ Loop(c) /\ Elsewhere
    \/ \E lost \in BOOLEAN : Approvals(lost)
    \/ (\E s \in scenario.servers : RegisterServer(s)) /\ Elsewhere
    \/ scenario.close /\ CloseManager /\ Elsewhere

Next == Anything /\ UNCHANGED scenario

Spec == Init /\ [][Next]_vars

----------------------------------------------------------------------------
\* Whatever its handler or its steps try, a skill runs nothing beyond the tools
\* and permissions of its manifest, and publishes only under a bound approval.
SkillsStayInScope ==
    \A d \in did : /\ d.call.tool \in d.skill.tools /\ d.call.mode \in d.skill.permissions
                   /\ d.call.mode = "publish" => d.skill.approval = "bound_publish"

NeedsApproval(q) == \E y \in Registered(q.tool) : Evaluate(y, q.mode) = "needsApproval"

\* A request carries one token and a token is used once: whatever the owner
\* approves, and whatever the handler of a builtin makes of the errors, one
\* execution runs at most one call that needs an approval.  A declarative skill
\* succeeds only if it ran all its steps, so that one with two such steps never does.
OneApprovalPerExecution ==
    /\ \A d, e \in did :
          (d.exec = e.exec /\ NeedsApproval(d.call) /\ NeedsApproval(e.call)) => d = e
    /\ \A x \in done : x.skill.type = "declarative" =>
          \A n \in DOMAIN x.skill.steps : Done(x.id, x.skill, n) \in did
=============================================================================
