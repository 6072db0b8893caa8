---------------------------- MODULE SkillsProofs ----------------------------
(***************************************************************************)
(* Theorems about Skills and the MCP client: what a skill may do and with  *)
(* how many approvals, which sessions are open, why an invocation fails,   *)
(* and what is executed at the server.                                     *)
(***************************************************************************)
EXTENDS Skills, ToolsProofs, FiniteSetTheorems

(***************************************************************************)
(* What a skill does.  The tools of what was run for an execution are      *)
(* registered, for good; at most one of these calls needed an approval,    *)
(* and then the token of the execution is used.  A declarative skill has   *)
(* run its steps one by one.                                               *)
(***************************************************************************)
ExecFields == {"id", "skill", "step", "token"}

ManifestsOK ==
    /\ manifests \subseteq scenario.manifests /\ scenario \in Scenarios
    /\ \A m \in manifests : ValidManifest(m)

ExecsOK ==
    /\ exec = [c \in Caller |-> exec[c]]
    /\ \A c \in Caller : exec[c] # NoExec =>
          DOMAIN exec[c] = ExecFields /\ exec[c].skill \in manifests /\ exec[c].step \in Nat \ {0}

NamesAreUnique == \A x, y \in tools : x.name = y.name => x = y

NeedsOne(known, q) ==
    \E y \in known : y.name = q.tool /\ Evaluate(y, q.mode) = "needsApproval"

Known(known, q) == \E y \in known : y.name = q.tool

\* Executions have numbers of their own.
Numbered ==
    /\ execs \in Nat
    /\ \A c \in Caller : exec[c] # NoExec => exec[c].id \in 1 .. execs
    /\ \A c, d \in Caller : (exec[c] # NoExec /\ exec[d] # NoExec /\ exec[c].id = exec[d].id) => c = d

\* What was run, and with how many approvals.
DidInv ==
    /\ \A d \in did : Known(tools, d.call) /\ d.exec \in 1 .. execs
    /\ \A d, e \in did :
          (d.exec = e.exec /\ NeedsOne(tools, d.call) /\ NeedsOne(tools, e.call)) => d = e
    /\ \A c \in Caller : \A d \in did :
          (exec[c] # NoExec /\ d.exec = exec[c].id /\ NeedsOne(tools, d.call)) =>
              exec[c].token \in DOMAIN uses

\* The steps that caller c has been through.
StepsDone(c) ==
    /\ running[c] # None => Local(c) /\ Done(exec[c].id, exec[c].skill, exec[c].step) \in did
    /\ (Local(c) /\ exec[c].skill.type = "declarative") =>
          \A n \in DOMAIN exec[c].skill.steps :
              n < exec[c].step => Done(exec[c].id, exec[c].skill, n) \in did

\* The steps of an execution that succeeded.
AllDone(x) ==
    x.skill.type = "declarative" =>
        \A n \in DOMAIN x.skill.steps : Done(x.id, x.skill, n) \in did

OneApprovalInv ==
    /\ NamesAreUnique /\ Numbered /\ DidInv
    /\ \A c \in Caller : StepsDone(c)
    /\ \A x \in done : AllDone(x)

(***************************************************************************)
(* The sessions of the MCP client.                                         *)
(***************************************************************************)
InvFields == {"pc", "id", "call", "token", "attempt", "session"}
Fresh     == {"get", "connect", "register", "call"}     \* not sent in this attempt
Sent      == {"wait", "reset", "closing", "reject", "rejecting"}

McpTypes ==
    /\ inv = [c \in Caller |-> inv[c]]
    /\ \A c \in Caller : inv[c] # NoInv =>
          DOMAIN inv[c] = InvFields /\ inv[c].pc \in Fresh \cup Sent /\ inv[c].attempt \in Nat
    /\ sessions \in Seq({"open", "closed"}) /\ current \in 0 .. Len(sessions)
    /\ \A c \in Caller : inv[c].pc = "register" => inv[c].session \in 1 .. Len(sessions)
    /\ IsSequence(executed)
    /\ close \in {"no", "reset", "cancel", "done"}
    /\ configs = {} \/ (configs = {Config} /\ ValidServer(Config))

\* As long as nothing has gone wrong, the session in the map is open and everybody
\* uses it, and the connections that are under way are open and all different.
Registering(c) == inv[c].pc = "register"

TroubleInv ==
    ~trouble =>
        /\ close = "no"
        /\ \A r \in finished : r.ok
        /\ current # 0 => sessions[current] = "open"
        /\ \A c \in Caller : inv[c].pc \notin {"reset", "closing", "reject", "rejecting"}
        /\ \A c \in Caller : inv[c].pc \in {"call", "wait"} => current # 0 /\ inv[c].session = current
        /\ \A c \in Caller : Registering(c) =>
              /\ inv[c].session \in DOMAIN sessions /\ sessions[inv[c].session] = "open"
              /\ inv[c].session # current
              /\ \A d \in Caller : (Registering(d) /\ inv[d].session = inv[c].session) => d = c

(***************************************************************************)
(* Executions at the server.  An execution of a skill invokes the client   *)
(* once, in its second step, under its own id.                             *)
(***************************************************************************)
TimesOf(log, id) == Cardinality({n \in DOMAIN log : log[n] = id})
Times(id) == TimesOf(executed, id)

IdsInv ==
    /\ Numbered
    /\ \A c \in Caller : inv[c] # NoInv => Remote(c) /\ exec[c].step = 2 /\ inv[c].id = exec[c].id
    /\ \A r \in finished : r.id \in 1 .. execs
    /\ \A n \in DOMAIN executed : executed[n] \in 1 .. execs
    /\ \A c \in Caller : (Remote(c) /\ exec[c].step = 1) =>
          /\ \A r \in finished : r.id # exec[c].id
          /\ \A n \in DOMAIN executed : executed[n] # exec[c].id
    /\ \A c \in Caller : inv[c] # NoInv => \A r \in finished : r.id # inv[c].id

TimesInv ==
    /\ \A r \in finished : configs # {} /\ Times(r.id) <= Config.attempts
    /\ \A c \in Caller : inv[c] # NoInv =>
          /\ configs # {} /\ inv[c].attempt < Config.attempts
          /\ Times(inv[c].id) <= IF inv[c].pc \in Fresh THEN inv[c].attempt ELSE inv[c].attempt + 1

\* An invocation that has begun, whether or not it has returned.
Invoked(i, q, t) ==
    \/ \E r \in finished : r.id = i /\ r.call = q /\ r.token = t
    \/ \E c \in Caller : inv[c] # NoInv /\ inv[c].id = i /\ inv[c].call = q /\ inv[c].token = t

Under(q) == Evaluate(Config.policies[q.tool], q.mode) = "needsApproval"

CoverInv ==
    /\ \A i, q, t : (Invoked(i, q, t) /\ Under(q)) => t \in DOMAIN uses /\ requests[t].bind = BindOf(q)
    /\ \A i, q, t, j, p : (Invoked(i, q, t) /\ Under(q) /\ Invoked(j, p, t) /\ Under(p)) => i = j

----------------------------------------------------------------------------
(***************************************************************************)
(* The steps, as the approval manager and the tool registry see them.      *)
(***************************************************************************)
\* The MCP client without its authorization leaves the approval tables alone.
LEMMA LoopQuiet ==
    ASSUME NEW c, Loop(c)
    PROVE  UNCHANGED <<configs, approvals>>
BY DEF Loop, GetSession, Connect, PutSession, Send, Receive, TakeSession, CloseSession, Frame

\* Every step is one that the approval manager and the registry allow.
LEMMA SkillsSteps ==
    ASSUME [Next]_vars
    PROVE  ApprovalStep /\ RegistryStep
<1>. USE DEF registry
<1>1. ASSUME UNCHANGED approvals, UNCHANGED <<now, registry>>
      PROVE  ApprovalStep /\ RegistryStep
  BY <1>1 DEF ApprovalStep, ApprovalQuiet, RegistryStep, RegistryQuiet
<1>2. CASE UNCHANGED vars
  BY <1>1, <1>2 DEF vars
<1>3. ASSUME NEW m, NEW id, NEW version, Add(m) \/ RegisterBuiltin(id, version)
      PROVE  ApprovalStep /\ RegistryStep
  BY <1>1, <1>3 DEF Add, RegisterBuiltin
<1>4. ASSUME NEW x, Register(x)
      PROVE  ApprovalStep /\ RegistryStep
  BY <1>4 DEF Register, ApprovalStep, ApprovalQuiet, RegistryStep
<1>5. ASSUME NEW c, NEW ask, NEW t, Start(c, ask, t)
      PROVE  ApprovalStep /\ RegistryStep
  BY <1>1, <1>5 DEF Start
<1>6. ASSUME NEW c \in Caller, StepStarts(c)
      PROVE  ApprovalStep /\ RegistryStep
  <2>1. PICK q, t : q = Current(c) /\ t = exec[c].token
    OBVIOUS
  <2>2. ExecuteAllowed(c, q) \/ ExecuteApproved(c, q, t)
    BY <1>6, <2>1 DEF StepStarts
  <2>3. RegistryStep
    BY <2>2 DEF RegistryStep
  <2>4. ApprovalStep
    BY <2>2 DEF ExecuteAllowed, ExecuteApproved, Enter, ApprovalStep, ApprovalQuiet
  <2>. QED
    BY <2>3, <2>4
<1>7. ASSUME NEW c \in Caller, StepEnds(c)
      PROVE  ApprovalStep /\ RegistryStep
  BY <1>7 DEF StepEnds, Run, ApprovalStep, ApprovalQuiet, RegistryStep
<1>8. ASSUME NEW c \in Caller, NEW lost, StepFails(c, lost)
      PROVE  ApprovalStep /\ RegistryStep
  <2>1. PICK q, t : q = Current(c) /\ t = exec[c].token
    OBVIOUS
  <2>2. \/ RequestApproval(c, q, lost) \/ ExecuteRefused(c, q, t)
        \/ UNCHANGED <<now, approvals, registry, faults>>
    BY <1>8, <2>1 DEF StepFails
  <2>3. CASE RequestApproval(c, q, lost)
    <3>1. RegistryStep
      BY <2>3 DEF RegistryStep
    <3>2. ApprovalStep
      BY <2>3 DEF RequestApproval, Enter, ApprovalStep
    <3>. QED
      BY <3>1, <3>2
  <2>4. CASE ExecuteRefused(c, q, t)
    <3>1. RegistryStep
      BY <2>4 DEF RegistryStep
    <3>2. ApprovalStep
      BY <2>4 DEF ExecuteRefused, Enter, ApprovalStep, ApprovalQuiet
    <3>. QED
      BY <3>1, <3>2
  <2>. QED
    BY <1>1, <2>2, <2>3, <2>4
<1>9. ASSUME NEW c, Finish(c) \/ RefuseMCP(c) \/ ReturnMCP(c)
      PROVE  ApprovalStep /\ RegistryStep
  BY <1>1, <1>9 DEF Finish, RefuseMCP, ReturnMCP
<1>10. ASSUME NEW c, InvokeMCP(c)
       PROVE  ApprovalStep /\ RegistryStep
  <2>1. PICK q, t, i : q = CallOfSkill(exec[c].skill) /\ t = exec[c].token /\ i = exec[c].id
    OBVIOUS
  <2>2. Invoke(c, q, t, i) /\ UNCHANGED <<now, registry>>
    BY <1>10, <2>1 DEF InvokeMCP
  <2>3. UNCHANGED approvals \/ AuthorizeReceipt(t, BindOf(q))
    BY <2>2 DEF Invoke, Authorized
  <2>. QED
    BY <2>2, <2>3 DEF ApprovalStep, ApprovalQuiet, RegistryStep, RegistryQuiet
<1>11. ASSUME NEW c, Loop(c), Elsewhere
       PROVE  ApprovalStep /\ RegistryStep
  BY <1>1, <1>11, LoopQuiet DEF Elsewhere
<1>12. ASSUME NEW lost, Approvals(lost)
       PROVE  ApprovalStep /\ RegistryStep
  <2>1. ASSUME NEW t, Decide(t, Owner, "approved", lost)
        PROVE  \E u, user, d, l : d \in {"approved", "denied"} /\ ResolveToken(u, user, d, l)
    <3>1. PICK d : d = "approved"
      OBVIOUS
    <3>2. d \in {"approved", "denied"} /\ ResolveToken(t, Owner, d, lost)
      BY <2>1, <3>1 DEF ResolveToken
    <3>. QED
      BY <3>2
  <2>2. now' = now /\ UNCHANGED registry
    BY <1>12 DEF Approvals
  <2>. QED
    BY <1>12, <2>1, <2>2 DEF Approvals, ApprovalStep, RegistryStep, RegistryQuiet
<1>13. CASE ((\E s \in scenario.servers : RegisterServer(s)) \/ CloseManager) /\ Elsewhere
  BY <1>1, <1>13 DEF RegisterServer, CloseManager, Elsewhere
<1>. QED
  BY <1>2, <1>3, <1>4, <1>5, <1>6, <1>7, <1>8, <1>9, <1>10, <1>11, <1>12, <1>13 DEF Next, Anything

----------------------------------------------------------------------------
(***************************************************************************)
(* What a skill does.                                                      *)
(***************************************************************************)
\* The execution of one caller changes.
LEMMA ExecSet ==
    ASSUME ExecsOK, NEW c \in Caller, NEW e, exec' = [exec EXCEPT ![c] = e]
    PROVE  /\ exec' = [d \in Caller |-> exec'[d]] /\ exec'[c] = e
           /\ \A d \in Caller : d # c => exec'[d] = exec[d]
<1>1. exec = [d \in Caller |-> exec[d]]
  BY DEF ExecsOK
<1>. QED
  BY <1>1

\* A caller whose step changes keeps the rest of its execution.
LEMMA ExecGoesOn ==
    ASSUME ExecsOK, NEW c \in Caller, exec[c] # NoExec, NEW k, exec' = [exec EXCEPT ![c].step = k]
    PROVE  /\ exec' = [d \in Caller |-> exec'[d]]
           /\ exec'[c] # NoExec /\ DOMAIN exec'[c] = ExecFields /\ exec'[c].step = k
           /\ exec'[c].id = exec[c].id /\ exec'[c].skill = exec[c].skill
           /\ exec'[c].token = exec[c].token
           /\ \A d \in Caller : d # c => exec'[d] = exec[d]
<1>1. PICK e : e = [exec[c] EXCEPT !.step = k]
  OBVIOUS
<1>2. exec' = [exec EXCEPT ![c] = e]
  BY <1>1
<1>3. DOMAIN exec[c] = ExecFields
  BY DEF ExecsOK
<1>4. /\ DOMAIN e = ExecFields /\ e.step = k /\ e.id = exec[c].id /\ e.skill = exec[c].skill
      /\ e.token = exec[c].token
  BY <1>1, <1>3 DEF ExecFields
<1>5. e # NoExec
  BY <1>4 DEF NoExec, ExecFields
<1>. QED
  BY <1>2, <1>4, <1>5, ExecSet

\* What happens to the executions.
Began(c, m, t) ==
    /\ exec[c] = NoExec /\ exec'[c] # NoExec /\ DOMAIN exec'[c] = ExecFields
    /\ m \in manifests /\ exec'[c].skill = m /\ exec'[c].step = 1 /\ exec'[c].id = execs + 1
    /\ exec'[c].token = t

Continued(c) ==
    /\ exec[c] # NoExec /\ exec'[c] # NoExec /\ DOMAIN exec'[c] = ExecFields
    /\ exec'[c].step = exec[c].step + 1 /\ exec'[c].id = exec[c].id
    /\ exec'[c].skill = exec[c].skill /\ exec'[c].token = exec[c].token

Ended(c) == exec[c] # NoExec /\ exec'[c] = NoExec

OnlyOf(c) ==
    /\ exec' = [d \in Caller |-> exec'[d]]
    /\ \A d \in Caller : d # c => exec'[d] = exec[d]

\* Start begins an execution with a number of its own.
LEMMA StartFacts ==
    ASSUME ExecsOK, NEW c \in Caller, NEW ask, NEW t, Start(c, ask, t)
    PROVE  OnlyOf(c) /\ \E m \in manifests : Began(c, m, t)
<1>1. PICK m \in Resolve(ask.id, ask.version) :
          exec' = [exec EXCEPT ![c] = [id |-> execs + 1, skill |-> m, step |-> 1, token |-> t]]
  BY DEF Start
<1>2. PICK e : e = [id |-> execs + 1, skill |-> m, step |-> 1, token |-> t]
  OBVIOUS
<1>3. exec' = [exec EXCEPT ![c] = e] /\ exec[c] = NoExec /\ m \in manifests
  BY <1>1, <1>2 DEF Start, Resolve
<1>4. DOMAIN e = ExecFields /\ e.id = execs + 1 /\ e.skill = m /\ e.step = 1 /\ e.token = t
  BY <1>2 DEF ExecFields
<1>5. e # NoExec
  BY <1>4 DEF NoExec, ExecFields
<1>. QED
  BY <1>3, <1>4, <1>5, ExecSet DEF OnlyOf, Began

\* GoOn is the next step of the same execution.
LEMMA GoOnFacts ==
    ASSUME ExecsOK, NEW c \in Caller, exec[c] # NoExec, GoOn(c)
    PROVE  OnlyOf(c) /\ Continued(c)
<1>1. PICK k : k = exec[c].step + 1
  OBVIOUS
<1>2. exec' = [exec EXCEPT ![c].step = k]
  BY <1>1 DEF GoOn
<1>. QED
  BY <1>1, <1>2, ExecGoesOn DEF OnlyOf, Continued

\* End is the end of it.
LEMMA EndFacts ==
    ASSUME ExecsOK, NEW c \in Caller, exec[c] # NoExec, End(c)
    PROVE  OnlyOf(c) /\ Ended(c)
<1>1. PICK e : e = NoExec
  OBVIOUS
<1>. QED
  BY <1>1, ExecSet DEF End, OnlyOf, Ended

\* What every action does to the execution of its caller.
LEMMA ActionFacts ==
    ASSUME ExecsOK, NEW c \in Caller, NEW lost
    PROVE  /\ StepEnds(c) \/ StepFails(c, lost) => OnlyOf(c) /\ (Continued(c) \/ Ended(c))
           /\ StepFails(c, lost) /\ ~Ended(c) => exec[c].skill.type = "builtin"
           /\ InvokeMCP(c) => OnlyOf(c) /\ Continued(c)
           /\ Finish(c) \/ RefuseMCP(c) \/ ReturnMCP(c) => OnlyOf(c) /\ Ended(c)
<1>1. Local(c) \/ Remote(c) => exec[c] # NoExec
  BY DEF Local, Remote
<1>2. StepEnds(c) => exec[c] # NoExec /\ (GoOn(c) \/ End(c))
  BY <1>1 DEF StepEnds
<1>3. StepFails(c, lost) => exec[c] # NoExec /\ (End(c) \/ (exec[c].skill.type = "builtin" /\ GoOn(c)))
  BY <1>1 DEF StepFails
<1>4. InvokeMCP(c) => exec[c] # NoExec /\ GoOn(c)
  <2>1. ASSUME InvokeMCP(c) PROVE GoOn(c)
    <3>1. exec[c].step = 1 /\ exec' = [exec EXCEPT ![c].step = 2]
      BY <2>1 DEF InvokeMCP
    <3>2. exec[c].step + 1 = 2
      BY <3>1
    <3>. QED
      BY <3>1, <3>2 DEF GoOn
  <2>. QED
    BY <1>1, <2>1 DEF InvokeMCP
<1>5. Finish(c) \/ RefuseMCP(c) \/ ReturnMCP(c) => exec[c] # NoExec /\ End(c)
  BY <1>1 DEF Finish, RefuseMCP, ReturnMCP
<1>. QED
  BY <1>2, <1>3, <1>4, <1>5, GoOnFacts, EndFacts

\* Manifests and executions keep their form.
LEMMA ExecsKept ==
    ASSUME ExecsOK, manifests \subseteq manifests',
           \/ exec' = exec
           \/ \E c \in Caller : /\ OnlyOf(c)
                                /\ (\E m, t : Began(c, m, t)) \/ Continued(c) \/ Ended(c)
    PROVE  ExecsOK'
<1>1. CASE exec' = exec
  BY <1>1 DEF ExecsOK
<1>2. ASSUME NEW c \in Caller, OnlyOf(c), (\E m, t : Began(c, m, t)) \/ Continued(c) \/ Ended(c)
      PROVE  ExecsOK'
  <2>1. exec'[c] # NoExec => DOMAIN exec'[c] = ExecFields /\ exec'[c].skill \in manifests'
                             /\ exec'[c].step \in Nat \ {0}
    <3>1. CASE \E m, t : Began(c, m, t)
      BY <3>1 DEF Began
    <3>2. CASE Continued(c)
      <4>1. exec[c].step \in Nat \ {0} /\ exec[c].skill \in manifests
        BY <3>2 DEF Continued, ExecsOK
      <4>. QED
        BY <3>2, <4>1 DEF Continued
    <3>. QED
      BY <1>2, <3>1, <3>2 DEF Ended
  <2>. QED
    BY <1>2, <2>1 DEF ExecsOK, OnlyOf
<1>. QED
  BY <1>1, <1>2

\* Executions run registered manifests, and a registered manifest is valid.
LEMMA SkillTypes ==
    ASSUME ManifestsOK, ExecsOK, [Next]_vars
    PROVE  ManifestsOK' /\ ExecsOK'
<1>1. ASSUME manifests' = manifests, scenario' = scenario,
             \/ exec' = exec
             \/ \E c \in Caller : /\ OnlyOf(c)
                                  /\ (\E m, t : Began(c, m, t)) \/ Continued(c) \/ Ended(c)
      PROVE  ManifestsOK' /\ ExecsOK'
  BY <1>1, ExecsKept DEF ManifestsOK
<1>2. CASE UNCHANGED vars
  BY <1>1, <1>2 DEF vars, skillVars
<1>3. CASE Next
  <2>0. scenario' = scenario
    BY <1>3 DEF Next
  <2>1. ASSUME NEW m \in scenario.manifests, Add(m) PROVE ManifestsOK' /\ ExecsOK'
    <3>1. ValidManifest(m) /\ manifests' = manifests \cup {m} /\ exec' = exec
      BY <2>1 DEF Add
    <3>. QED
      BY <2>0, <2>1, <3>1, ExecsKept DEF ManifestsOK
  <2>2. ASSUME NEW id, NEW version, RegisterBuiltin(id, version) PROVE ManifestsOK' /\ ExecsOK'
    BY <1>1, <2>0, <2>2 DEF RegisterBuiltin
  <2>3. ASSUME UNCHANGED skillVars PROVE ManifestsOK' /\ ExecsOK'
    BY <1>1, <2>0, <2>3 DEF skillVars
  <2>4. ASSUME NEW c \in Caller, NEW ask, NEW t, Start(c, ask, t)
        PROVE  ManifestsOK' /\ ExecsOK'
    <3>1. manifests' = manifests
      BY <2>4 DEF Start
    <3>2. OnlyOf(c) /\ \E m : Began(c, m, t)
      BY <2>4, StartFacts
    <3>. QED
      BY <1>1, <2>0, <3>1, <3>2
  <2>5. ASSUME NEW c \in Caller, StepStarts(c) PROVE ManifestsOK' /\ ExecsOK'
    BY <1>1, <2>0, <2>5 DEF StepStarts, Aside
  <2>6. ASSUME NEW c \in Caller, NEW lost,
               \/ StepEnds(c) \/ StepFails(c, lost) \/ Finish(c)
               \/ InvokeMCP(c) \/ RefuseMCP(c) \/ ReturnMCP(c)
        PROVE  ManifestsOK' /\ ExecsOK'
    <3>1. manifests' = manifests
      BY <2>6 DEF StepEnds, StepFails, Finish, InvokeMCP, RefuseMCP, ReturnMCP, Aside
    <3>2. OnlyOf(c) /\ (Continued(c) \/ Ended(c))
      BY <2>6, ActionFacts
    <3>. QED
      BY <1>1, <2>0, <3>1, <3>2
  <2>7. ASSUME NEW lost, Approvals(lost) PROVE UNCHANGED skillVars
    BY <2>7 DEF Approvals
  <2>8. Elsewhere => UNCHANGED skillVars
    BY DEF Elsewhere
  <2>. QED
    BY <1>3, <2>1, <2>2, <2>3, <2>4, <2>5, <2>6, <2>7, <2>8 DEF Next, Anything
<1>. QED
  BY <1>2, <1>3

\* A skill that runs is the one that was registered, and was valid then.
ScopeInv == ManifestsOK /\ ExecsOK /\ SkillsStayInScope

\* InScope is checked in the step that starts the handler.
LEMMA ScopeKept ==
    ASSUME ScopeInv, [Next]_vars
    PROVE  ScopeInv'
<1>1. ManifestsOK' /\ ExecsOK'
  BY SkillTypes DEF ScopeInv
<1>2. CASE did' = did
  BY <1>1, <1>2 DEF ScopeInv, SkillsStayInScope
<1>3. ASSUME NEW c \in Caller, StepStarts(c) PROVE SkillsStayInScope'
  <2>1. PICK d : d = Done(exec[c].id, exec[c].skill, exec[c].step)
    OBVIOUS
  <2>2. did' = did \cup {d} /\ InScope(exec[c].skill, Current(c)) /\ exec[c] # NoExec
    BY <1>3, <2>1 DEF StepStarts, Does, Local
  <2>3. d.skill = exec[c].skill /\ d.call = Current(c)
    BY <2>1 DEF Done, Current
  <2>4. ValidManifest(exec[c].skill)
    BY <2>2 DEF ScopeInv, ExecsOK, ManifestsOK
  <2>5. /\ d.call.tool \in d.skill.tools /\ d.call.mode \in d.skill.permissions
        /\ d.call.mode = "publish" => d.skill.approval = "bound_publish"
    BY <2>2, <2>3, <2>4 DEF InScope, ValidManifest
  <2>. QED
    BY <2>2, <2>5 DEF ScopeInv, SkillsStayInScope
<1>4. did' = did \/ \E c \in Caller : StepStarts(c)
  BY DEF Next, Anything, vars, skillVars, Add, RegisterBuiltin, Start, StepEnds, StepFails, Finish,
         InvokeMCP, RefuseMCP, ReturnMCP, Elsewhere, Approvals
<1>. QED
  BY <1>1, <1>2, <1>3, <1>4 DEF ScopeInv

\* CallTool keeps every skill, whatever its steps or its handler try, within the
\* tools and permissions that Validate accepted; publishing takes a bound approval.
THEOREM SkillsAreConfined == Spec => []SkillsStayInScope
<1>1. Init => ScopeInv
  BY DEF Init, ScopeInv, ManifestsOK, ExecsOK, SkillsStayInScope, NoExec
<1>2. ScopeInv /\ [Next]_vars => ScopeInv'
  BY ScopeKept
<1>3. ScopeInv => SkillsStayInScope
  BY DEF ScopeInv
<1>. QED
  BY <1>1, <1>2, <1>3, PTL DEF Spec

----------------------------------------------------------------------------
(***************************************************************************)
(* One approval per execution.                                             *)
(***************************************************************************)
\* The steps of a registered skill are a list.
LEMMA StepsOfSkill ==
    ASSUME ManifestsOK, NEW m \in manifests
    PROVE  IsSequence(m.steps) /\ DOMAIN m.steps = 1 .. Len(m.steps) /\ Len(m.steps) \in Nat
<1>1. IsSequence(m.steps)
  BY ScenariosAssumption DEF ManifestsOK, IsSequence
<1>. QED
  BY <1>1, AppendAny

\* Numbers are given once.
LEMMA NumberedKept ==
    ASSUME Numbered, NEW c \in Caller, OnlyOf(c),
           \/ (\E m, t : Began(c, m, t)) /\ execs' = execs + 1
           \/ (Continued(c) \/ Ended(c)) /\ execs' = execs
    PROVE  Numbered' /\ 1 .. execs \subseteq 1 .. execs'
<1>1. execs \in Nat /\ execs' \in Nat /\ 1 .. execs \subseteq 1 .. execs'
  BY DEF Numbered
<1>2. CASE (\E m, t : Began(c, m, t)) /\ execs' = execs + 1
  <2>1. exec'[c] # NoExec /\ exec'[c].id = execs + 1 /\ exec'[c].id \in 1 .. execs'
    BY <1>1, <1>2 DEF Began
  <2>2. \A d \in Caller : d # c /\ exec'[d] # NoExec =>
            exec[d] # NoExec /\ exec'[d].id = exec[d].id /\ exec[d].id \in 1 .. execs
    BY DEF Numbered, OnlyOf
  <2>3. execs + 1 \notin 1 .. execs
    BY <1>1
  <2>. QED
    BY <1>1, <2>1, <2>2, <2>3 DEF Numbered
<1>3. CASE (Continued(c) \/ Ended(c)) /\ execs' = execs
  <2>1. \A d \in Caller : exec'[d] # NoExec => exec[d] # NoExec /\ exec'[d].id = exec[d].id
    BY <1>3 DEF Continued, Ended, OnlyOf
  <2>. QED
    BY <1>1, <1>3, <2>1 DEF Numbered
<1>. QED
  BY <1>2, <1>3

\* An execution begins, goes on or ends, and nothing is run.
LEMMA OneStays ==
    ASSUME OneApprovalInv, NEW c \in Caller, OnlyOf(c),
           \/ (\E m, t : Began(c, m, t)) /\ execs' = execs + 1
           \/ (Continued(c) \/ Ended(c)) /\ execs' = execs,
           UNCHANGED <<tools, did>>, DOMAIN uses \subseteq DOMAIN uses',
           \A d \in Caller : d # c => running'[d] = running[d],
           StepsDone(c)', \A x \in done' : AllDone(x)'
    PROVE  OneApprovalInv'
<1>1. Numbered' /\ 1 .. execs \subseteq 1 .. execs'
  BY NumberedKept DEF OneApprovalInv
<1>2. \A d \in Caller : exec'[d] # NoExec =>
          \/ exec'[d].id \notin 1 .. execs
          \/ exec[d] # NoExec /\ exec'[d].id = exec[d].id /\ exec'[d].token = exec[d].token
  BY DEF OneApprovalInv, Numbered, OnlyOf, Began, Continued, Ended
<1>3. DidInv'
  BY <1>1, <1>2 DEF OneApprovalInv, DidInv
<1>4. ASSUME NEW d \in Caller, d # c PROVE StepsDone(d)'
  <2>1. exec'[d] = exec[d] /\ running'[d] = running[d] /\ StepsDone(d)
    BY <1>4 DEF OneApprovalInv, OnlyOf
  <2>2. Local(d)' <=> Local(d)
    BY <2>1 DEF Local
  <2>. QED
    BY <2>1, <2>2 DEF StepsDone
<1>. QED
  BY <1>1, <1>3, <1>4 DEF OneApprovalInv, NamesAreUnique

\* An execution that begins has been through none of its steps.
LEMMA StartOne ==
    ASSUME ManifestsOK, ExecsOK, OneApprovalInv, NEW c \in Caller, NEW ask, NEW t,
           Start(c, ask, t), DOMAIN uses \subseteq DOMAIN uses'
    PROVE  OneApprovalInv'
<1>1. PICK m \in manifests : OnlyOf(c) /\ Began(c, m, t)
  BY StartFacts
<1>2. UNCHANGED <<tools, running, done, did>> /\ execs' = execs + 1
  BY DEF Start, registry
<1>3. running[c] = None
  BY <1>1 DEF Began, OneApprovalInv, StepsDone, Local
<1>4. \A n \in DOMAIN m.steps : ~(n < 1)
  BY StepsOfSkill
<1>5. exec'[c].skill = m /\ exec'[c].step = 1
  BY <1>1 DEF Began
<1>6. StepsDone(c)'
  BY <1>2, <1>3, <1>4, <1>5 DEF StepsDone
<1>7. \A x \in done' : AllDone(x)'
  BY <1>2 DEF OneApprovalInv, AllDone
<1>. QED
  BY <1>1, <1>2, <1>6, <1>7, OneStays

\* A handler that starts: an approval it needs uses the token up.
LEMMA StepStartsOne ==
    ASSUME RegistryInv, OneApprovalInv, NEW c \in Caller, StepStarts(c),
           DOMAIN uses \subseteq DOMAIN uses'
    PROVE  OneApprovalInv'
<1>1. PICK q, t, i, d : /\ q = Current(c) /\ t = exec[c].token /\ i = exec[c].id
                        /\ d = Done(i, exec[c].skill, exec[c].step)
  OBVIOUS
<1>2. /\ Local(c) /\ exec[c] # NoExec /\ did' = did \cup {d}
      /\ ExecuteAllowed(c, q) \/ ExecuteApproved(c, q, t)
      /\ UNCHANGED <<exec, execs, manifests, done>>
  BY <1>1 DEF StepStarts, Does, Local, Aside
<1>3. d.exec = i /\ d.call = q /\ i \in 1 .. execs
  BY <1>1, <1>2 DEF Done, Current, OneApprovalInv, Numbered
<1>4. PICK u : Starts(c, q, u)
  BY <1>2 DEF ExecuteAllowed, ExecuteApproved
<1>5. running[c] = None /\ tools' = tools
  BY <1>2 DEF ExecuteAllowed, ExecuteApproved, Enter
<1>6. \A e \in Caller : e # c => running'[e] = running[e]
  BY <1>4 DEF Starts, RegistryInv
<1>7. /\ Known(tools, q)
      /\ NeedsOne(tools, q) => t \notin DOMAIN uses /\ t \in DOMAIN uses'
  <2>1. CASE ExecuteAllowed(c, q)
    <3>1. PICK x \in tools : x.name = q.tool /\ Evaluate(x, q.mode) = "allowed"
      BY <2>1 DEF ExecuteAllowed, Enter, Registered
    <3>2. Known(tools, q)
      BY <3>1 DEF Known
    <3>3. ~NeedsOne(tools, q)
      BY <3>1 DEF NeedsOne, OneApprovalInv, NamesAreUnique
    <3>. QED
      BY <3>2, <3>3
  <2>2. CASE ExecuteApproved(c, q, t)
    <3>1. Known(tools, q)
      BY <2>2 DEF ExecuteApproved, Enter, Registered, Known
    <3>2. t \notin DOMAIN uses /\ t \in DOMAIN uses'
      BY <2>2 DEF ExecuteApproved, AuthorizeReceipt, Usable
    <3>. QED
      BY <3>1, <3>2
  <2>. QED
    BY <1>2, <2>1, <2>2
<1>8. DidInv'
  <2>1. \A e \in did' : Known(tools', e.call) /\ e.exec \in 1 .. execs'
    BY <1>2, <1>3, <1>5, <1>7 DEF OneApprovalInv, DidInv
  <2>2. \A e \in did : (NeedsOne(tools, q) /\ e.exec = i) => ~NeedsOne(tools, e.call)
    BY <1>1, <1>2, <1>7 DEF OneApprovalInv, DidInv
  <2>3. \A e, f \in did' :
            (e.exec = f.exec /\ NeedsOne(tools', e.call) /\ NeedsOne(tools', f.call)) => e = f
    BY <1>2, <1>3, <1>5, <2>2 DEF OneApprovalInv, DidInv
  <2>4. ASSUME NEW e \in Caller, NEW f \in did',
               exec'[e] # NoExec, f.exec = exec'[e].id, NeedsOne(tools', f.call)
        PROVE  exec'[e].token \in DOMAIN uses'
    <3>1. CASE f \in did
      BY <1>2, <1>5, <2>4, <3>1 DEF OneApprovalInv, DidInv
    <3>2. CASE f = d
      <4>1. e = c
        BY <1>1, <1>2, <1>3, <2>4, <3>2 DEF OneApprovalInv, Numbered
      <4>. QED
        BY <1>1, <1>2, <1>3, <1>5, <1>7, <2>4, <3>2, <4>1
    <3>. QED
      BY <1>2, <3>1, <3>2
  <2>. QED
    BY <2>1, <2>3, <2>4 DEF DidInv
<1>9. \A e \in Caller : StepsDone(e)'
  <2>1. \A e \in Caller : Local(e)' <=> Local(e)
    BY <1>2 DEF Local
  <2>2. StepsDone(c)'
    BY <1>1, <1>2, <2>1 DEF OneApprovalInv, StepsDone
  <2>3. \A e \in Caller : e # c => StepsDone(e)'
    BY <1>2, <1>6, <2>1 DEF OneApprovalInv, StepsDone
  <2>. QED
    BY <2>2, <2>3
<1>10. \A x \in done' : AllDone(x)'
  BY <1>2 DEF OneApprovalInv, AllDone
<1>. QED
  BY <1>2, <1>5, <1>8, <1>9, <1>10 DEF OneApprovalInv, NamesAreUnique, Numbered

\* The handler returns: the step was run, and the next one may come.
LEMMA StepEndsOne ==
    ASSUME RegistryInv, ManifestsOK, ExecsOK, OneApprovalInv, NEW c \in Caller, StepEnds(c),
           DOMAIN uses \subseteq DOMAIN uses'
    PROVE  OneApprovalInv'
<1>1. OnlyOf(c) /\ (Continued(c) \/ Ended(c))
  BY ActionFacts
<1>2. Local(c) /\ Run(c) /\ UNCHANGED <<execs, did, done>>
  BY DEF StepEnds, Aside
<1>3. /\ running[c] # None /\ tools' = tools
      /\ running' = [running EXCEPT ![c] = None] /\ running = [d \in Caller |-> running[d]]
  BY <1>2 DEF Run, RegistryInv
<1>4. running'[c] = None /\ \A d \in Caller : d # c => running'[d] = running[d]
  <2>. HIDE DEF None
  <2>. QED
    BY <1>3
<1>5. StepsDone(c)'
  <2>1. CASE Ended(c)
    BY <1>4, <2>1 DEF Ended, StepsDone, Local
  <2>2. CASE Continued(c)
    <3>1. PICK m, k, i : m = exec[c].skill /\ k = exec[c].step /\ i = exec[c].id
      OBVIOUS
    <3>2. exec'[c].skill = m /\ exec'[c].step = k + 1 /\ exec'[c].id = i
      BY <2>2, <3>1 DEF Continued
    <3>3. m \in manifests /\ k \in Nat
      BY <2>2, <3>1 DEF ExecsOK, Continued
    <3>4. \A n \in DOMAIN m.steps : n < k + 1 => n < k \/ n = k
      BY <3>3, StepsOfSkill
    <3>5. Done(i, m, k) \in did /\ (m.type = "declarative" =>
              \A n \in DOMAIN m.steps : n < k => Done(i, m, n) \in did)
      BY <1>2, <1>3, <3>1 DEF OneApprovalInv, StepsDone
    <3>. QED
      BY <1>2, <1>4, <3>2, <3>4, <3>5 DEF StepsDone
  <2>. QED
    BY <1>1, <2>1, <2>2
<1>6. \A x \in done' : AllDone(x)'
  BY <1>2 DEF OneApprovalInv, AllDone
<1>. QED
  BY <1>1, <1>2, <1>3, <1>4, <1>5, <1>6, OneStays

\* An error ends the execution, or it is a builtin's, whose steps need not succeed.
LEMMA StepFailsOne ==
    ASSUME ExecsOK, OneApprovalInv, NEW c \in Caller, NEW lost, StepFails(c, lost),
           DOMAIN uses \subseteq DOMAIN uses'
    PROVE  OneApprovalInv'
<1>1. OnlyOf(c) /\ (Continued(c) \/ Ended(c))
  BY ActionFacts
<1>2. running[c] = None /\ UNCHANGED <<tools, running, execs, did, done>>
  BY DEF StepFails, RequestApproval, ExecuteRefused, Enter, Aside, registry
<1>3. StepsDone(c)'
  <2>1. CASE Ended(c)
    BY <1>2, <2>1 DEF Ended, StepsDone, Local
  <2>2. CASE ~Ended(c)
    <3>1. exec'[c].skill = exec[c].skill /\ exec[c].skill.type = "builtin"
      BY <1>1, <2>2, ActionFacts DEF Continued
    <3>. QED
      BY <1>2, <3>1 DEF StepsDone
  <2>. QED
    BY <2>1, <2>2
<1>4. \A x \in done' : AllDone(x)'
  BY <1>2 DEF OneApprovalInv, AllDone
<1>. QED
  BY <1>1, <1>2, <1>3, <1>4, OneStays

\* A declarative skill that succeeds has been through all of its steps.
LEMMA EndOne ==
    ASSUME ManifestsOK, ExecsOK, OneApprovalInv, NEW c \in Caller,
           Finish(c) \/ RefuseMCP(c) \/ ReturnMCP(c),
           DOMAIN uses \subseteq DOMAIN uses'
    PROVE  OneApprovalInv'
<1>1. OnlyOf(c) /\ Ended(c)
  BY ActionFacts
<1>2. UNCHANGED <<tools, running, execs, did>>
  BY DEF Finish, RefuseMCP, ReturnMCP, registry
<1>3. running[c] = None
  <2>1. CASE Finish(c)
    BY <2>1 DEF Finish
  <2>2. CASE RefuseMCP(c) \/ ReturnMCP(c)
    BY <2>2 DEF RefuseMCP, ReturnMCP, Remote, Local, OneApprovalInv, StepsDone
  <2>. QED
    BY <2>1, <2>2
<1>4. StepsDone(c)'
  BY <1>1, <1>2, <1>3 DEF StepsDone, Ended, Local
<1>5. \A x \in done' : AllDone(x)'
  <2>1. PICK x : x = [id |-> exec[c].id, skill |-> exec[c].skill]
    OBVIOUS
  <2>2. x.id = exec[c].id /\ x.skill = exec[c].skill
    BY <2>1
  <2>3. done' = done \/ done' = done \cup {x}
    BY <2>1 DEF Finish, RefuseMCP, ReturnMCP
  <2>4. AllDone(x)
    <3>. SUFFICES ASSUME x.skill.type = "declarative", NEW n \in DOMAIN x.skill.steps
                  PROVE  Done(x.id, x.skill, n) \in did
      BY DEF AllDone
    <3>1. Finish(c) \/ Remote(c)
      BY DEF RefuseMCP, ReturnMCP
    <3>2. Finish(c)
      BY <2>2, <3>1 DEF Remote
    <3>3. Local(c) /\ exec[c].step > Len(exec[c].skill.steps)
      BY <2>2, <3>2 DEF Finish
    <3>4. exec[c].skill \in manifests /\ exec[c].step \in Nat
      BY <3>3 DEF ExecsOK, Local
    <3>5. n < exec[c].step
      BY <2>2, <3>3, <3>4, StepsOfSkill
    <3>. QED
      BY <2>2, <3>3, <3>5 DEF OneApprovalInv, StepsDone
  <2>. QED
    BY <1>2, <2>3, <2>4 DEF OneApprovalInv, AllDone
<1>. QED
  BY <1>1, <1>2, <1>4, <1>5, OneStays

\* A tool that is registered later changes nothing for what was run before.
LEMMA RegisterOne ==
    ASSUME OneApprovalInv, NEW x, Register(x), UNCHANGED skillVars
    PROVE  OneApprovalInv'
<1>1. /\ tools' = tools \cup {x} /\ \A y \in tools : y.name # x.name
      /\ UNCHANGED <<running, uses, exec, execs, did, done>>
  BY DEF Register, Registered, approvals, skillVars
<1>2. NamesAreUnique'
  BY <1>1 DEF OneApprovalInv, NamesAreUnique
<1>3. \A d \in did : /\ Known(tools', d.call)
                     /\ NeedsOne(tools', d.call) <=> NeedsOne(tools, d.call)
  BY <1>1 DEF OneApprovalInv, DidInv, Known, NeedsOne
<1>4. DidInv'
  BY <1>1, <1>3 DEF OneApprovalInv, DidInv
<1>5. \A c \in Caller : StepsDone(c)'
  BY <1>1 DEF OneApprovalInv, StepsDone, Local
<1>. QED
  BY <1>1, <1>2, <1>4, <1>5 DEF OneApprovalInv, Numbered, AllDone

\* The count of approvals is right after every step.
LEMMA OneKept ==
    ASSUME ApprovalInv, RegistryInv, ManifestsOK, ExecsOK, OneApprovalInv, [Next]_vars
    PROVE  OneApprovalInv'
<1>0. DOMAIN uses \subseteq DOMAIN uses'
  BY SkillsSteps, ApprovalKept DEF DecisionKept
<1>1. ASSUME UNCHANGED <<tools, running, exec, execs, did, done>>
      PROVE  OneApprovalInv'
  <2>1. NamesAreUnique' /\ Numbered' /\ DidInv'
    BY <1>0, <1>1 DEF OneApprovalInv, NamesAreUnique, Numbered, DidInv
  <2>2. (\A c \in Caller : StepsDone(c)') /\ \A x \in done' : AllDone(x)'
    BY <1>1 DEF OneApprovalInv, StepsDone, AllDone, Local
  <2>. QED
    BY <2>1, <2>2 DEF OneApprovalInv
<1>. USE DEF registry, skillVars
<1>2. CASE UNCHANGED vars
  BY <1>1, <1>2 DEF vars
<1>3. ASSUME NEW m, NEW id, NEW version, Add(m) \/ RegisterBuiltin(id, version)
      PROVE  OneApprovalInv'
  BY <1>1, <1>3 DEF Add, RegisterBuiltin
<1>4. ASSUME NEW x, Register(x), UNCHANGED skillVars
      PROVE  OneApprovalInv'
  BY <1>4, RegisterOne
<1>5. ASSUME NEW c \in Caller, NEW ask, NEW t, Start(c, ask, t)
      PROVE  OneApprovalInv'
  BY <1>0, <1>5, StartOne
<1>6. ASSUME NEW c \in Caller, StepStarts(c)
      PROVE  OneApprovalInv'
  BY <1>0, <1>6, StepStartsOne
<1>7. ASSUME NEW c \in Caller, StepEnds(c)
      PROVE  OneApprovalInv'
  BY <1>0, <1>7, StepEndsOne
<1>8. ASSUME NEW c \in Caller, NEW lost, StepFails(c, lost)
      PROVE  OneApprovalInv'
  BY <1>0, <1>8, StepFailsOne
<1>9. ASSUME NEW c \in Caller, Finish(c) \/ RefuseMCP(c) \/ ReturnMCP(c)
      PROVE  OneApprovalInv'
  BY <1>0, <1>9, EndOne
<1>10. ASSUME NEW c \in Caller, InvokeMCP(c)
       PROVE  OneApprovalInv'
  <2>1. OnlyOf(c) /\ Continued(c) /\ Remote(c)
    BY <1>10, ActionFacts DEF InvokeMCP
  <2>2. UNCHANGED <<tools, running, execs, did, done>>
    BY <1>10 DEF InvokeMCP
  <2>3. ~Local(c) /\ ~Local(c)'
    BY <2>1 DEF Remote, Local, Continued
  <2>4. StepsDone(c)'
    BY <2>2, <2>3 DEF OneApprovalInv, StepsDone
  <2>5. \A x \in done' : AllDone(x)'
    BY <2>2 DEF OneApprovalInv, AllDone
  <2>. QED
    BY <1>0, <2>1, <2>2, <2>4, <2>5, OneStays
<1>11. CASE Elsewhere
  BY <1>1, <1>11 DEF Elsewhere
<1>12. ASSUME NEW lost, Approvals(lost)
       PROVE  OneApprovalInv'
  BY <1>1, <1>12 DEF Approvals
<1>. QED
  BY <1>2, <1>3, <1>4, <1>5, <1>6, <1>7, <1>8, <1>9, <1>10, <1>11, <1>12 DEF Next, Anything

SkillsInv == ApprovalInv /\ RegistryInv /\ ManifestsOK /\ ExecsOK /\ OneApprovalInv

\* The inductive invariant of the skills.
LEMMA SkillsInvariant == Spec => []SkillsInv
<1>1. Init => SkillsInv
  <2>. SUFFICES ASSUME Init PROVE SkillsInv
    OBVIOUS
  <2>1. ApprovalInv /\ RegistryInv
    BY ApprovalStarts, RegistryStarts DEF Init
  <2>2. /\ scenario \in Scenarios /\ manifests = {} /\ tools = {} /\ done = {}
        /\ did = {} /\ execs = 0
        /\ exec = [c \in Caller |-> NoExec] /\ running = [c \in Caller |-> None]
    BY DEF Init, ToolsInit
  <2>3. \A c \in Caller : exec[c] = NoExec /\ running[c] = None
    <3>. HIDE DEF NoExec, None
    <3>. QED
      BY <2>2
  <2>4. ManifestsOK /\ ExecsOK
    <3>. HIDE DEF NoExec
    <3>. QED
      BY <2>2, <2>3 DEF ManifestsOK, ExecsOK
  <2>5. OneApprovalInv
    BY <2>2, <2>3 DEF OneApprovalInv, NamesAreUnique, Numbered, DidInv, StepsDone, Local
  <2>. QED
    BY <2>1, <2>4, <2>5 DEF SkillsInv
<1>2. SkillsInv /\ [Next]_vars => SkillsInv'
  <2>. SUFFICES ASSUME SkillsInv, [Next]_vars PROVE SkillsInv'
    OBVIOUS
  <2>1. ApprovalStep /\ RegistryStep
    BY SkillsSteps
  <2>2. ApprovalInv' /\ RegistryInv'
    BY <2>1, ApprovalKept, RegistryKept DEF SkillsInv
  <2>. QED
    BY <2>2, SkillTypes, OneKept DEF SkillsInv
<1>. QED
  BY <1>1, <1>2, PTL DEF Spec

\* The handlers that skills start through CoreToolAdapter, next to whatever else uses
\* the registry, are covered as Execute promises.
THEOREM SkillHandlersWereApproved == Spec => []RunsWereApproved
<1>1. SkillsInv => RunsWereApproved
  BY CoveredRunsWereApproved DEF SkillsInv
<1>. QED
  BY <1>1, SkillsInvariant, PTL

\* Execute hands every step the one token of its request, and AuthorizeReceipt takes it
\* once: an execution runs at most one call that needs an approval, also when the
\* handler of a builtin goes on after an error.  A declarative skill succeeds only after
\* all of its steps.
THEOREM OneApprovalEach == Spec => []OneApprovalPerExecution
<1>1. SkillsInv => OneApprovalPerExecution
  <2>. SUFFICES ASSUME SkillsInv PROVE OneApprovalPerExecution
    OBVIOUS
  <2>1. \A q : NeedsApproval(q) => NeedsOne(tools, q)
    BY DEF NeedsApproval, NeedsOne, Registered
  <2>. QED
    BY <2>1 DEF OneApprovalPerExecution, SkillsInv, OneApprovalInv, DidInv, AllDone
<1>. QED
  BY <1>1, SkillsInvariant, PTL

----------------------------------------------------------------------------
(***************************************************************************)
(* The MCP client's sessions.                                              *)
(***************************************************************************)
\* Caller c goes on, and nobody else.
Others(c) ==
    /\ inv' = [d \in Caller |-> inv'[d]]
    /\ \A d \in Caller : d # c => inv'[d] = inv[d]

Moves(c, pc, s, a) ==
    /\ Others(c) /\ inv'[c] # NoInv /\ DOMAIN inv'[c] = InvFields
    /\ inv'[c].pc = pc /\ inv'[c].session = s /\ inv'[c].attempt = a
    /\ inv'[c].id = inv[c].id /\ inv'[c].call = inv[c].call /\ inv'[c].token = inv[c].token

Returns(c, ok) ==
    /\ Others(c) /\ inv'[c] = NoInv
    /\ \E r : /\ finished' = finished \cup {r} /\ r.ok = ok
              /\ r.id = inv[c].id /\ r.call = inv[c].call /\ r.token = inv[c].token

\* A label tells that there is an invocation.
LEMMA LabelFacts ==
    ASSUME NEW c \in Caller, inv[c].pc # "idle"
    PROVE  inv[c] # NoInv
BY DEF NoInv

\* A caller's invocation is replaced.
LEMMA InvSet ==
    ASSUME McpTypes, NEW c \in Caller, NEW r, inv' = [inv EXCEPT ![c] = r]
    PROVE  Others(c) /\ inv'[c] = r
<1>1. inv = [d \in Caller |-> inv[d]]
  BY DEF McpTypes
<1>. QED
  BY <1>1 DEF Others

\* A caller goes to another label.
LEMMA GoesFacts ==
    ASSUME McpTypes, NEW c \in Caller, inv[c] # NoInv, NEW pc, NEW s, Goes(c, pc, s)
    PROVE  Moves(c, pc, s, inv[c].attempt)
<1>1. PICK q, r : q = [inv[c] EXCEPT !.pc = pc] /\ r = [q EXCEPT !.session = s]
  OBVIOUS
<1>2. inv' = [inv EXCEPT ![c] = r]
  <2>1. inv' = [inv EXCEPT ![c] = [[inv[c] EXCEPT !.pc = pc] EXCEPT !.session = s]]
    <3>1. inv' = [inv EXCEPT ![c].pc = pc, ![c].session = s] /\ inv = [d \in Caller |-> inv[d]]
      BY DEF Goes, McpTypes
    <3>. QED
      BY <3>1
  <2>. QED
    BY <1>1, <2>1
<1>3. DOMAIN inv[c] = InvFields
  BY DEF McpTypes
<1>4. /\ DOMAIN q = InvFields /\ q.pc = pc /\ q.id = inv[c].id /\ q.call = inv[c].call
      /\ q.token = inv[c].token /\ q.attempt = inv[c].attempt
  BY <1>1, <1>3 DEF InvFields
<1>5. /\ DOMAIN r = InvFields /\ r.pc = pc /\ r.id = inv[c].id /\ r.call = inv[c].call
      /\ r.token = inv[c].token /\ r.attempt = inv[c].attempt /\ r.session = s
  BY <1>1, <1>4 DEF InvFields
<1>6. r # NoInv
  BY <1>5 DEF NoInv, InvFields
<1>. QED
  BY <1>2, <1>5, <1>6, InvSet DEF Moves

\* The next attempt.
LEMMA RetryFacts ==
    ASSUME McpTypes, NEW c \in Caller, inv[c] # NoInv,
           inv' = [inv EXCEPT ![c].pc = "get", ![c].attempt = @ + 1, ![c].session = 0]
    PROVE  Moves(c, "get", 0, inv[c].attempt + 1)
<1>1. PICK p, q, r, a : /\ a = inv[c].attempt + 1
                        /\ p = [inv[c] EXCEPT !.pc = "get"]
                        /\ q = [p EXCEPT !.attempt = a]
                        /\ r = [q EXCEPT !.session = 0]
  OBVIOUS
<1>2. DOMAIN inv[c] = InvFields
  BY DEF McpTypes
<1>3. /\ DOMAIN p = InvFields /\ p.pc = "get" /\ p.id = inv[c].id /\ p.call = inv[c].call
      /\ p.token = inv[c].token /\ p.attempt = inv[c].attempt
  BY <1>1, <1>2 DEF InvFields
<1>4. /\ DOMAIN q = InvFields /\ q.pc = "get" /\ q.id = inv[c].id /\ q.call = inv[c].call
      /\ q.token = inv[c].token /\ q.attempt = a
  BY <1>1, <1>3 DEF InvFields
<1>5. /\ DOMAIN r = InvFields /\ r.pc = "get" /\ r.id = inv[c].id /\ r.call = inv[c].call
      /\ r.token = inv[c].token /\ r.attempt = a /\ r.session = 0
  BY <1>1, <1>4 DEF InvFields
<1>6. r # NoInv
  BY <1>5 DEF NoInv, InvFields
<1>7. inv' = [inv EXCEPT ![c] = r]
  <2>1. inv = [d \in Caller |-> inv[d]]
    BY DEF McpTypes
  <2>2. inv' = [inv EXCEPT ![c] = [[[inv[c] EXCEPT !.pc = "get"] EXCEPT !.attempt = p.attempt + 1]
                                     EXCEPT !.session = 0]]
    BY <1>1, <2>1
  <2>3. p.attempt + 1 = a
    BY <1>1, <1>3
  <2>. QED
    BY <1>1, <2>2, <2>3
<1>. QED
  BY <1>1, <1>5, <1>6, <1>7, InvSet DEF Moves

\* A caller returns from its invocation.
LEMMA ReturnFacts ==
    ASSUME McpTypes, NEW c \in Caller, NEW ok, Return(c, ok)
    PROVE  Returns(c, ok)
<1>1. inv' = [inv EXCEPT ![c] = NoInv]
  BY DEF Return
<1>2. PICK n : n = NoInv
  OBVIOUS
<1>3. Others(c) /\ inv'[c] = NoInv
  BY <1>1, <1>2, InvSet
<1>4. PICK r : r = [id |-> inv[c].id, call |-> inv[c].call, token |-> inv[c].token, ok |-> ok]
  OBVIOUS
<1>5. /\ finished' = finished \cup {r} /\ r.ok = ok
      /\ r.id = inv[c].id /\ r.call = inv[c].call /\ r.token = inv[c].token
  BY <1>4 DEF Return
<1>. QED
  BY <1>3, <1>5 DEF Returns

\* A session is opened, or closed.
LEMMA OpenedFacts ==
    ASSUME McpTypes, NEW x \in {"open", "closed"}
    PROVE  /\ Append(sessions, x) \in Seq({"open", "closed"})
           /\ Len(Append(sessions, x)) = Len(sessions) + 1 /\ Len(sessions) \in Nat
           /\ DOMAIN sessions = 1 .. Len(sessions)
           /\ DOMAIN Append(sessions, x) = DOMAIN sessions \cup {Len(sessions) + 1}
           /\ \A n \in DOMAIN sessions : Append(sessions, x)[n] = sessions[n]
           /\ Append(sessions, x)[Len(sessions) + 1] = x
<1>1. sessions \in Seq({"open", "closed"})
  BY DEF McpTypes
<1>. QED
  BY <1>1

\* Closing changes one session, and its state only.
LEMMA ClosedFacts ==
    ASSUME McpTypes, NEW s
    PROVE  /\ Closed(s) \in Seq({"open", "closed"}) /\ Len(Closed(s)) = Len(sessions)
           /\ DOMAIN Closed(s) = DOMAIN sessions
           /\ \A n \in DOMAIN sessions : Closed(s)[n] = IF n = s THEN "closed" ELSE sessions[n]
<1>. DEFINE e == Closed(s)
<1>1. /\ sessions \in Seq({"open", "closed"}) /\ Len(sessions) \in Nat
      /\ DOMAIN sessions = 1 .. Len(sessions)
      /\ \A n \in DOMAIN sessions : sessions[n] \in {"open", "closed"}
  BY DEF McpTypes
<1>2. e = [n \in DOMAIN sessions |-> IF n = s THEN "closed" ELSE sessions[n]]
  BY <1>1 DEF Closed
<1>3. e \in [1 .. Len(sessions) -> {"open", "closed"}]
  BY <1>1, <1>2
<1>. HIDE DEF e
<1>4. e \in Seq({"open", "closed"}) /\ Len(e) = Len(sessions) /\ DOMAIN e = DOMAIN sessions
  BY <1>1, <1>3
<1>. QED
  BY <1>2, <1>4 DEF e

\* What the MCP client does in a step.
McpEffect ==
    \/ UNCHANGED mcpVars
    \/ \E s : RegisterServer(s)
    \/ CloseManager
    \/ \E c \in Caller : Loop(c) \/ InvokeMCP(c)

\* Whatever else steps, the MCP client steps as one of its own actions.
LEMMA McpNext ==
    ASSUME [Next]_vars
    PROVE  McpEffect
<1>. USE DEF McpEffect
<1>1. CASE UNCHANGED vars
  BY <1>1 DEF vars
<1>2. ASSUME NEW m, NEW id, NEW version, Add(m) \/ RegisterBuiltin(id, version)
      PROVE  UNCHANGED mcpVars
  BY <1>2 DEF Add, RegisterBuiltin
<1>3. ASSUME NEW c, NEW ask, NEW t, NEW lost,
             \/ Start(c, ask, t) \/ StepStarts(c) \/ StepEnds(c) \/ Finish(c) \/ StepFails(c, lost)
             \/ RefuseMCP(c) \/ ReturnMCP(c)
      PROVE  UNCHANGED mcpVars
  BY <1>3 DEF Start, StepStarts, StepEnds, Finish, StepFails, RefuseMCP, ReturnMCP, Aside
<1>4. ASSUME NEW lost, Approvals(lost) PROVE UNCHANGED mcpVars
  BY <1>4 DEF Approvals
<1>. QED
  BY <1>1, <1>2, <1>3, <1>4 DEF Next, Anything

(***************************************************************************)
(* The sessions, step by step.                                             *)
(***************************************************************************)
SessionsInv == McpTypes /\ NoSessionLost /\ TroubleInv

\* The types, after a caller has gone on.
InvTypes ==
    /\ inv = [c \in Caller |-> inv[c]]
    /\ \A c \in Caller : inv[c] # NoInv =>
          DOMAIN inv[c] = InvFields /\ inv[c].pc \in Fresh \cup Sent /\ inv[c].attempt \in Nat

\* The labels and attempts of the others stay what they are.
LEMMA MovesTypes ==
    ASSUME McpTypes, NEW c \in Caller, NEW pc \in Fresh \cup Sent, NEW s, NEW a \in Nat,
           Moves(c, pc, s, a)
    PROVE  InvTypes'
BY DEF McpTypes, Moves, Others, InvTypes

\* The same, for a caller that returns.
LEMMA ReturnsTypes ==
    ASSUME McpTypes, NEW c \in Caller, NEW ok, Returns(c, ok)
    PROVE  InvTypes'
BY DEF McpTypes, Returns, Others, InvTypes

\* What a label says about the invocation.
LEMMA AtLabel ==
    ASSUME McpTypes, NEW c \in Caller, inv[c].pc # "idle"
    PROVE  inv[c] # NoInv /\ inv[c].attempt \in Nat
BY LabelFacts DEF McpTypes

\* getSession finds the session in the map, or none.
LEMMA GetSessionKeeps ==
    ASSUME SessionsInv, NEW c \in Caller, GetSession(c)
    PROVE  SessionsInv'
<1>. USE DEF SessionsInv
<1>. PICK a : a = inv[c].attempt
  OBVIOUS
<1>1. inv[c].pc = "get" /\ inv[c] # NoInv /\ a \in Nat
  BY AtLabel DEF GetSession
<1>2. /\ UNCHANGED <<configs, sessions, current, close, executed, finished>>
      /\ \/ current # 0 /\ trouble' = trouble /\ Moves(c, "call", current, a)
         \/ current = 0 /\ trouble' = trouble /\ Moves(c, "connect", 0, a)
         \/ trouble' = TRUE /\ Moves(c, "reset", 0, a)
  BY <1>1, GoesFacts DEF GetSession, Fine, Errs, Frame
<1>3. McpTypes'
  <2>1. InvTypes'
    BY <1>1, <1>2, MovesTypes DEF Fresh, Sent
  <2>2. \A d \in Caller : inv'[d].pc = "register" => inv'[d].session \in 1 .. Len(sessions')
    BY <1>2 DEF McpTypes, Moves, Others
  <2>. QED
    BY <1>2, <2>1, <2>2 DEF McpTypes, InvTypes, Config
<1>4. NoSessionLost'
  BY <1>1, <1>2 DEF NoSessionLost, Moves, Others
<1>5. TroubleInv'
  BY <1>1, <1>2 DEF TroubleInv, Registering, Moves, Others
<1>. QED
  BY <1>3, <1>4, <1>5

\* A connection is in the hands of the caller that made it.
LEMMA ConnectKeeps ==
    ASSUME SessionsInv, NEW c \in Caller, Connect(c)
    PROVE  SessionsInv'
<1>. USE DEF SessionsInv
<1>. PICK a, n : a = inv[c].attempt /\ n = Len(sessions) + 1
  OBVIOUS
<1>1. inv[c].pc = "connect" /\ inv[c] # NoInv /\ a \in Nat
  BY AtLabel DEF Connect
<1>2. /\ UNCHANGED <<configs, current, close, executed, finished>>
      /\ \/ /\ close # "done" /\ trouble' = trouble
            /\ sessions' = Append(sessions, "open") /\ Moves(c, "register", n, a)
         \/ /\ trouble' = TRUE
            /\ sessions' = Append(sessions, "closed") /\ Moves(c, "register", n, a)
         \/ trouble' = TRUE /\ sessions' = sessions /\ Moves(c, "reset", 0, a)
         \/ close = "done" /\ trouble' = trouble /\ sessions' = sessions /\ Moves(c, "reset", 0, a)
  BY <1>1, GoesFacts DEF Connect, Fine, Errs, Frame
<1>3. McpTypes'
  <2>1. InvTypes'
    BY <1>1, <1>2, MovesTypes DEF Fresh, Sent
  <2>2. sessions' \in Seq({"open", "closed"}) /\ current' \in 0 .. Len(sessions')
    BY <1>2, OpenedFacts DEF McpTypes
  <2>3. n \in 1 .. n /\ Len(sessions) <= n /\ Len(Append(sessions, "open")) = n
        /\ Len(Append(sessions, "closed")) = n /\ Len(sessions) \in Nat
    BY OpenedFacts
  <2>4. \A d \in Caller : inv'[d].pc = "register" => inv'[d].session \in 1 .. Len(sessions')
    BY <1>2, <2>3 DEF McpTypes, Moves, Others
  <2>. QED
    BY <1>2, <2>1, <2>2, <2>4 DEF McpTypes, InvTypes, Config
<1>4. NoSessionLost'
  <2>1. CASE sessions' = Append(sessions, "open") /\ Moves(c, "register", n, a) /\ close # "done"
    BY <1>1, <1>2, <2>1, OpenedFacts DEF NoSessionLost, Moves, Others
  <2>2. CASE sessions' = Append(sessions, "closed") /\ Moves(c, "register", n, a)
    BY <1>1, <1>2, <2>2, OpenedFacts DEF NoSessionLost, Moves, Others
  <2>3. CASE sessions' = sessions /\ Moves(c, "reset", 0, a)
    BY <1>1, <1>2, <2>3 DEF NoSessionLost, Moves, Others
  <2>. QED
    BY <1>2, <2>1, <2>2, <2>3
<1>5. TroubleInv'
  <2>1. CASE close = "done" \/ trouble' = TRUE
    BY <1>2, <2>1 DEF TroubleInv
  <2>2. CASE /\ sessions' = Append(sessions, "open") /\ Moves(c, "register", n, a)
             /\ trouble' = trouble
    <3>1. current \in 0 .. Len(sessions) /\ Len(sessions) \in Nat /\ DOMAIN sessions = 1 .. Len(sessions)
      BY OpenedFacts DEF McpTypes
    <3>2. n \notin DOMAIN sessions /\ n # current /\ (current # 0 => current \in DOMAIN sessions)
      BY <3>1
    <3>. QED
      BY <1>1, <1>2, <2>2, <3>2, OpenedFacts DEF TroubleInv, Registering, Moves, Others
  <2>. QED
    BY <1>2, <2>1, <2>2
<1>. QED
  BY <1>3, <1>4, <1>5

\* The first connection goes into the map, a later one is closed.
LEMMA PutSessionKeeps ==
    ASSUME SessionsInv, NEW c \in Caller, PutSession(c)
    PROVE  SessionsInv'
<1>. USE DEF SessionsInv
<1>. PICK a, s : a = inv[c].attempt /\ s = inv[c].session
  OBVIOUS
<1>1. inv[c].pc = "register" /\ inv[c] # NoInv /\ a \in Nat
  BY AtLabel DEF PutSession
<1>2. /\ UNCHANGED <<configs, close, executed, finished, trouble>>
      /\ \/ /\ current = 0 /\ current' = s /\ sessions' = sessions
            /\ Moves(c, "call", s, a)
         \/ /\ current # 0 /\ current' = current /\ sessions' = Closed(s)
            /\ Moves(c, "call", current, a)
  BY <1>1, GoesFacts DEF PutSession, Put, Loser, Fine, Frame
<1>3. McpTypes'
  <2>1. InvTypes'
    BY <1>1, <1>2, MovesTypes DEF Fresh, Sent
  <2>2. sessions' \in Seq({"open", "closed"}) /\ Len(sessions') = Len(sessions)
    BY <1>2, ClosedFacts DEF McpTypes
  <2>3. s \in 0 .. Len(sessions)
    BY <1>1 DEF McpTypes
  <2>4. \A d \in Caller : inv'[d].pc = "register" => inv'[d].session \in 1 .. Len(sessions')
    BY <1>2, <2>2 DEF McpTypes, Moves, Others
  <2>. QED
    BY <1>2, <2>1, <2>2, <2>3, <2>4 DEF McpTypes, InvTypes, Config
<1>4. NoSessionLost'
  <2>1. CASE current = 0 /\ current' = s /\ sessions' = sessions /\ Moves(c, "call", s, a)
    <3>. SUFFICES ASSUME NEW n \in DOMAIN sessions, sessions[n] = "open"
                  PROVE  /\ close # "done"
                         /\ \/ n = s
                            \/ \E d \in Caller : /\ inv'[d].pc \in {"register", "closing", "rejecting"}
                                                 /\ inv'[d].session = n
      BY <1>2, <2>1 DEF NoSessionLost
    <3>1. 0 \notin DOMAIN sessions
      BY DEF McpTypes
    <3>2. n # current
      BY <2>1, <3>1
    <3>3. PICK d \in Caller : inv[d].pc \in {"register", "closing", "rejecting"} /\ inv[d].session = n
      BY <3>2 DEF NoSessionLost
    <3>4. CASE d = c
      BY <3>3, <3>4 DEF NoSessionLost
    <3>5. CASE d # c
      BY <2>1, <3>3, <3>5 DEF NoSessionLost, Moves, Others
    <3>. QED
      BY <3>4, <3>5
  <2>2. CASE current' = current /\ sessions' = Closed(s) /\ Moves(c, "call", current, a)
    <3>. PICK e : e = Closed(s)
      OBVIOUS
    <3>1. /\ sessions' = e /\ DOMAIN e = DOMAIN sessions
          /\ \A n \in DOMAIN sessions : e[n] = IF n = s THEN "closed" ELSE sessions[n]
      BY <2>2, ClosedFacts
    <3>. QED
      BY <1>1, <1>2, <2>2, <3>1 DEF NoSessionLost, Moves, Others
  <2>. QED
    BY <1>2, <2>1, <2>2
<1>5. TroubleInv'
  <2>. SUFFICES ASSUME ~trouble PROVE TroubleInv'
    BY <1>2 DEF TroubleInv
  <2>0. /\ s \in DOMAIN sessions /\ sessions[s] = "open" /\ s # current /\ s # 0
        /\ current # 0 => current \in DOMAIN sessions
    BY <1>1, OpenedFacts DEF TroubleInv, McpTypes, Registering
  <2>1. CASE current = 0 /\ current' = s /\ sessions' = sessions /\ Moves(c, "call", s, a)
    BY <1>1, <1>2, <2>0, <2>1 DEF TroubleInv, Registering, Moves, Others
  <2>2. CASE /\ current # 0 /\ current' = current /\ sessions' = Closed(s)
             /\ Moves(c, "call", current, a)
    <3>. PICK e : e = Closed(s)
      OBVIOUS
    <3>1. /\ sessions' = e /\ DOMAIN e = DOMAIN sessions
          /\ \A n \in DOMAIN sessions : n # s => e[n] = sessions[n]
      BY <2>2, ClosedFacts
    <3>. QED
      BY <1>1, <1>2, <2>0, <2>2, <3>1 DEF TroubleInv, Registering, Moves, Others
  <2>. QED
    BY <1>2, <2>1, <2>2
<1>. QED
  BY <1>3, <1>4, <1>5

\* A closed session is met only after trouble.
LEMMA SendKeeps ==
    ASSUME SessionsInv, NEW c \in Caller, Send(c)
    PROVE  SessionsInv'
<1>. USE DEF SessionsInv
<1>. PICK a, s, i : a = inv[c].attempt /\ s = inv[c].session /\ i = inv[c].id
  OBVIOUS
<1>1. inv[c].pc = "call" /\ inv[c] # NoInv /\ a \in Nat
  BY AtLabel DEF Send
<1>2. /\ UNCHANGED <<configs, sessions, current, close, finished>>
      /\ \/ Moves(c, "wait", s, a) /\ executed' = Append(executed, i) /\ trouble' = trouble
         \/ trouble' = TRUE /\ executed' = executed /\ Moves(c, "reset", 0, a)
         \/ /\ sessions[s] = "closed" /\ trouble' = trouble /\ executed' = executed
            /\ Moves(c, "reset", 0, a)
  BY <1>1, GoesFacts DEF Send, Fine, Errs, Frame
<1>3. McpTypes'
  <2>1. InvTypes'
    BY <1>1, <1>2, MovesTypes DEF Fresh, Sent
  <2>2. \A d \in Caller : inv'[d].pc = "register" => inv'[d].session \in 1 .. Len(sessions')
    BY <1>2 DEF McpTypes, Moves, Others
  <2>3. IsSequence(executed')
    <3>1. IsSequence(executed)
      BY DEF McpTypes
    <3>2. IsSequence(Append(executed, i))
      BY <3>1, AppendAny
    <3>3. executed' = executed \/ executed' = Append(executed, i)
      BY <1>2
    <3>. QED
      BY <3>1, <3>2, <3>3
  <2>. QED
    BY <1>2, <2>1, <2>2, <2>3 DEF McpTypes, InvTypes, Config
<1>4. NoSessionLost'
  BY <1>1, <1>2 DEF NoSessionLost, Moves, Others
<1>5. TroubleInv'
  BY <1>1, <1>2 DEF TroubleInv, Registering, Moves, Others
<1>. QED
  BY <1>3, <1>4, <1>5

\* An answer is missing only after trouble.
LEMMA ReceiveKeeps ==
    ASSUME SessionsInv, NEW c \in Caller, Receive(c)
    PROVE  SessionsInv'
<1>. USE DEF SessionsInv
<1>. PICK a, s : a = inv[c].attempt /\ s = inv[c].session
  OBVIOUS
<1>1. inv[c].pc = "wait" /\ inv[c] # NoInv /\ a \in Nat
  BY AtLabel DEF Receive
<1>2. /\ UNCHANGED <<configs, sessions, current, close, executed>>
      /\ \/ Returns(c, TRUE) /\ trouble' = trouble
         \/ trouble' = TRUE /\ Moves(c, "reject", 0, a)
         \/ trouble' = TRUE /\ Moves(c, "reset", 0, a)
         \/ sessions[s] = "closed" /\ trouble' = trouble /\ Moves(c, "reset", 0, a)
  BY <1>1, GoesFacts, ReturnFacts DEF Receive, Fine, Errs, Frame
<1>3. McpTypes'
  <2>1. InvTypes'
    BY <1>1, <1>2, MovesTypes, ReturnsTypes DEF Fresh, Sent
  <2>2. \A d \in Caller : inv'[d].pc = "register" => inv'[d].session \in 1 .. Len(sessions')
    BY <1>2 DEF McpTypes, Moves, Returns, Others, NoInv
  <2>. QED
    BY <1>2, <2>1, <2>2 DEF McpTypes, InvTypes, Config
<1>4. NoSessionLost'
  BY <1>1, <1>2 DEF NoSessionLost, Moves, Returns, Others
<1>5. TroubleInv'
  <2>1. CASE Returns(c, TRUE) /\ trouble' = trouble
    BY <1>1, <1>2, <2>1 DEF TroubleInv, Registering, Returns, Others, NoInv
  <2>2. CASE trouble' = TRUE
    BY <2>2 DEF TroubleInv
  <2>3. CASE sessions[s] = "closed" /\ trouble' = trouble
    BY <1>1, <1>2, <2>3 DEF TroubleInv
  <2>. QED
    BY <1>2, <2>1, <2>2, <2>3
<1>. QED
  BY <1>3, <1>4, <1>5

\* Reset takes the session out of the map into the caller's hands.
LEMMA TakeSessionKeeps ==
    ASSUME SessionsInv, NEW c \in Caller, TakeSession(c)
    PROVE  SessionsInv'
<1>. USE DEF SessionsInv
<1>. PICK a : a = inv[c].attempt
  OBVIOUS
<1>1. inv[c].pc \in {"reset", "reject"} /\ inv[c] # NoInv /\ a \in Nat
  BY AtLabel DEF TakeSession
<1>2. PICK pc \in {"closing", "rejecting"} : Moves(c, pc, current, a)
  BY <1>1, GoesFacts DEF TakeSession
<1>3. UNCHANGED <<configs, sessions, close, executed, finished, trouble>> /\ current' = 0
  BY DEF TakeSession, Fine, Frame
<1>4. McpTypes'
  <2>1. InvTypes'
    BY <1>1, <1>2, MovesTypes DEF Fresh, Sent
  <2>2. \A d \in Caller : inv'[d].pc = "register" => inv'[d].session \in 1 .. Len(sessions')
    BY <1>2, <1>3 DEF McpTypes, Moves, Others
  <2>3. current' \in 0 .. Len(sessions')
    BY <1>3 DEF McpTypes
  <2>. QED
    BY <1>3, <2>1, <2>2, <2>3 DEF McpTypes, InvTypes, Config
<1>5. NoSessionLost'
  BY <1>1, <1>2, <1>3 DEF NoSessionLost, Moves, Others
<1>6. TroubleInv'
  BY <1>1, <1>3 DEF TroubleInv
<1>. QED
  BY <1>4, <1>5, <1>6

\* It closes the session before it tries again or gives up.
LEMMA CloseSessionKeeps ==
    ASSUME SessionsInv, NEW c \in Caller, CloseSession(c)
    PROVE  SessionsInv'
<1>. USE DEF SessionsInv
<1>. PICK a, s : a = inv[c].attempt /\ s = inv[c].session
  OBVIOUS
<1>1. inv[c].pc \in {"closing", "rejecting"} /\ inv[c] # NoInv /\ a \in Nat
  BY AtLabel DEF CloseSession
<1>2. Returns(c, FALSE) \/ Moves(c, "get", 0, a + 1)
  BY <1>1, RetryFacts, ReturnFacts DEF CloseSession
<1>3. UNCHANGED <<configs, current, close, executed, trouble>>
  BY DEF CloseSession, Fine, Frame
<1>4. /\ sessions' \in Seq({"open", "closed"}) /\ Len(sessions') = Len(sessions)
      /\ DOMAIN sessions' = DOMAIN sessions
      /\ \A n \in DOMAIN sessions : sessions'[n] = IF n = s THEN "closed" ELSE sessions[n]
  <2>1. sessions' = IF s = 0 THEN sessions ELSE Closed(s)
    BY DEF CloseSession
  <2>2. sessions \in Seq({"open", "closed"}) /\ 0 \notin DOMAIN sessions
    BY DEF McpTypes
  <2>3. CASE s = 0
    BY <2>1, <2>2, <2>3
  <2>4. CASE s # 0
    BY <2>1, <2>4, ClosedFacts
  <2>. QED
    BY <2>3, <2>4
<1>5. McpTypes'
  <2>1. InvTypes'
    <3>1. a + 1 \in Nat /\ "get" \in Fresh \cup Sent
      BY <1>1 DEF Fresh
    <3>. QED
      BY <1>2, <3>1, MovesTypes, ReturnsTypes
  <2>2. \A d \in Caller : inv'[d].pc = "register" => inv'[d].session \in 1 .. Len(sessions')
    BY <1>2, <1>4 DEF McpTypes, Moves, Returns, Others, NoInv
  <2>. QED
    BY <1>3, <1>4, <2>1, <2>2 DEF McpTypes, InvTypes, Config
<1>6. NoSessionLost'
  BY <1>1, <1>2, <1>3, <1>4 DEF NoSessionLost, Moves, Returns, Others
<1>7. TroubleInv'
  BY <1>1, <1>3 DEF TroubleInv
<1>. QED
  BY <1>5, <1>6, <1>7

\* An invocation begins without a session.
LEMMA InvokeKeeps ==
    ASSUME SessionsInv, NEW c \in Caller, NEW q, NEW t, NEW i, Invoke(c, q, t, i)
    PROVE  SessionsInv'
<1>. USE DEF SessionsInv
<1>1. PICK r : r = [pc |-> "get", id |-> i, call |-> q, token |-> t, attempt |-> 0, session |-> 0]
  OBVIOUS
<1>2. r # NoInv /\ DOMAIN r = InvFields /\ r.pc = "get" /\ r.attempt = 0
  BY <1>1 DEF NoInv, InvFields
<1>3. UNCHANGED <<configs, sessions, current, close, executed>>
  BY DEF Invoke
<1>4. CASE inv' = [inv EXCEPT ![c] = r] /\ UNCHANGED <<finished, trouble>>
  <2>1. Others(c) /\ inv'[c] = r
    BY <1>4, InvSet
  <2>2. InvTypes'
    BY <1>2, <2>1 DEF McpTypes, InvTypes, Others, Fresh
  <2>3. McpTypes'
    BY <1>2, <1>3, <2>1, <2>2 DEF McpTypes, InvTypes, Others, Config
  <2>4. NoSessionLost'
    <3>1. inv[c].pc = "idle"
      BY DEF Invoke, NoInv
    <3>. QED
      BY <1>2, <1>3, <2>1, <3>1 DEF NoSessionLost, Others
  <2>5. TroubleInv'
    BY <1>2, <1>3, <1>4, <2>1 DEF TroubleInv, Registering, Others
  <2>. QED
    BY <2>3, <2>4, <2>5
<1>5. CASE trouble' = TRUE /\ inv' = inv
  <2>1. McpTypes' /\ NoSessionLost'
    BY <1>3, <1>5 DEF McpTypes, NoSessionLost, Config
  <2>. QED
    BY <1>5, <2>1 DEF TroubleInv
<1>. QED
  BY <1>1, <1>4, <1>5 DEF Invoke

\* Close leaves no session open, those outside of the map included.
LEMMA ManagerKeeps ==
    ASSUME SessionsInv, CloseManager
    PROVE  SessionsInv'
<1>. USE DEF SessionsInv
<1>1. UNCHANGED <<configs, inv, executed, finished>> /\ trouble' = TRUE
  BY DEF CloseManager
<1>2. /\ sessions' \in Seq({"open", "closed"}) /\ Len(sessions') = Len(sessions)
      /\ DOMAIN sessions' = DOMAIN sessions
      /\ \/ /\ close' \in {"cancel", "reset"}
            /\ \A n \in DOMAIN sessions : sessions'[n] = "open" =>
                  sessions[n] = "open" /\ (n = current => n = current')
         \/ close' = "done" /\ \A n \in DOMAIN sessions : sessions'[n] = "closed"
  <2>0. /\ sessions \in Seq({"open", "closed"}) /\ 0 \notin DOMAIN sessions
        /\ DOMAIN sessions = 1 .. Len(sessions) /\ Len(sessions) \in Nat
    BY DEF McpTypes
  <2>1. CASE close = "no" /\ sessions' = sessions /\ current' = current /\ close' \in {"cancel", "reset"}
    BY <2>0, <2>1
  <2>2. CASE /\ close = "reset" /\ close' = "cancel" /\ current' = 0
             /\ sessions' = IF current = 0 THEN sessions ELSE Closed(current)
    <3>1. CASE current = 0
      BY <2>0, <2>2, <3>1
    <3>2. CASE current # 0
      BY <2>0, <2>2, <3>2, ClosedFacts
    <3>. QED
      BY <3>1, <3>2
  <2>3. CASE close' = "done" /\ sessions' = [s \in DOMAIN sessions |-> "closed"]
    <3>1. sessions' \in [1 .. Len(sessions) -> {"open", "closed"}]
      BY <2>0, <2>3
    <3>2. sessions' \in Seq({"open", "closed"}) /\ Len(sessions') = Len(sessions)
      BY <2>0, <3>1
    <3>. QED
      BY <2>0, <2>3, <3>2
  <2>. QED
    BY <2>1, <2>2, <2>3 DEF CloseManager
<1>3. current' \in 0 .. Len(sessions') /\ close' \in {"no", "reset", "cancel", "done"}
  BY <1>2 DEF CloseManager, McpTypes
<1>4. McpTypes'
  BY <1>1, <1>2, <1>3 DEF McpTypes, Config
<1>5. NoSessionLost'
  BY <1>1, <1>2 DEF NoSessionLost
<1>. QED
  BY <1>1, <1>4, <1>5 DEF TroubleInv

\* A server is registered before anybody can invoke its tools.
LEMMA RegisterServerKeeps ==
    ASSUME SessionsInv, NEW s, RegisterServer(s)
    PROVE  SessionsInv'
<1>1. /\ UNCHANGED <<sessions, current, close, inv, executed, finished, trouble>>
      /\ configs' = {s} /\ ValidServer(s)
  BY DEF RegisterServer
<1>2. Config' = s
  BY <1>1 DEF Config
<1>3. ValidServer(Config')
  BY <1>1, <1>2
<1>4. ValidServer(Config)'
  BY <1>3 DEF ValidServer
<1>. QED
  BY <1>1, <1>2, <1>4 DEF SessionsInv, McpTypes, NoSessionLost, TroubleInv, Registering

\* The inductive invariant of the sessions.
LEMMA SessionsInvariant == Spec => []SessionsInv
<1>1. Init => SessionsInv
  <2>. SUFFICES ASSUME Init PROVE SessionsInv
    OBVIOUS
  <2>1. /\ configs = {} /\ sessions = <<>> /\ current = 0 /\ close = "no" /\ executed = <<>>
        /\ finished = {} /\ inv = [c \in Caller |-> NoInv] /\ trouble = FALSE
    BY DEF Init, McpInit
  <2>2. \A c \in Caller : inv[c] = NoInv /\ inv[c].pc = "idle"
    BY <2>1 DEF NoInv
  <2>3. inv = [c \in Caller |-> inv[c]]
    <3>. HIDE DEF NoInv
    <3>. QED
      BY <2>1, <2>2
  <2>4. McpTypes
    BY <2>1, <2>2, <2>3 DEF McpTypes, IsSequence
  <2>. QED
    BY <2>1, <2>2, <2>4 DEF SessionsInv, NoSessionLost, TroubleInv, Registering
<1>2. SessionsInv /\ [Next]_vars => SessionsInv'
  <2>. SUFFICES ASSUME SessionsInv, [Next]_vars PROVE SessionsInv'
    OBVIOUS
  <2>1. CASE UNCHANGED mcpVars
    BY <2>1 DEF mcpVars, SessionsInv, McpTypes, NoSessionLost, TroubleInv, Registering, Config
  <2>2. ASSUME NEW c \in Caller, Loop(c) PROVE SessionsInv'
    BY <2>2, GetSessionKeeps, ConnectKeeps, PutSessionKeeps, SendKeeps, ReceiveKeeps,
       TakeSessionKeeps, CloseSessionKeeps DEF Loop
  <2>3. ASSUME NEW c \in Caller, InvokeMCP(c) PROVE SessionsInv'
    BY <2>3, InvokeKeeps DEF InvokeMCP
  <2>. QED
    BY <2>1, <2>2, <2>3, McpNext, ManagerKeeps, RegisterServerKeeps DEF McpEffect
<1>. QED
  BY <1>1, <1>2, PTL DEF Spec

\* Every open session of the MCP client is in the map or in the hands of a caller that
\* will put it there or close it, and none is open after Close.
THEOREM SessionsAreAccountedFor == Spec => []NoSessionLost
<1>1. SessionsInv => NoSessionLost
  BY DEF SessionsInv
<1>. QED
  BY <1>1, SessionsInvariant, PTL

\* An invocation of an MCP tool fails only after a fault, a result over the limit or
\* Close, its own or another's: sharing and replacing the session alone breaks nothing.
THEOREM FailuresHaveACause == Spec => []FailureHasACause
<1>1. SessionsInv => FailureHasACause
  BY DEF SessionsInv, TroubleInv, FailureHasACause
<1>. QED
  BY <1>1, SessionsInvariant, PTL

----------------------------------------------------------------------------
(***************************************************************************)
(* Executions at the server.                                               *)
(***************************************************************************)
\* A sequence has a number of entries of each value; appending adds at most one.
LEMMA NoTimes ==
    ASSUME NEW log, NEW id, \A n \in DOMAIN log : log[n] # id
    PROVE  TimesOf(log, id) = 0
<1>1. {n \in DOMAIN log : log[n] = id} = {}
  OBVIOUS
<1>. QED
  BY <1>1, FS_EmptySet DEF TimesOf

\* One entry more.
LEMMA OnceMore ==
    ASSUME NEW log, IsSequence(log), NEW x, NEW id
    PROVE  /\ TimesOf(log, id) \in Nat /\ TimesOf(Append(log, x), id) \in Nat
           /\ x # id => TimesOf(Append(log, x), id) = TimesOf(log, id)
           /\ TimesOf(Append(log, x), id) <= TimesOf(log, id) + 1
<1>. DEFINE old == {n \in DOMAIN log : log[n] = id}
            a == Append(log, x)
            new == {n \in DOMAIN a : a[n] = id}
            k == Len(log) + 1
<1>1. /\ DOMAIN log = 1 .. Len(log) /\ Len(log) \in Nat /\ DOMAIN a = 1 .. k
      /\ \A n \in DOMAIN log : a[n] = log[n]
      /\ a[k] = x
  BY AppendAny
<1>2. 1 .. k = (1 .. Len(log)) \cup {k} /\ k \notin 1 .. Len(log)
  BY <1>1
<1>3. IsFiniteSet(old) /\ Cardinality(old) \in Nat
  <2>1. IsFiniteSet(1 .. Len(log))
    BY <1>1, FS_Interval
  <2>2. old \in SUBSET (1 .. Len(log))
    BY <1>1
  <2>. HIDE DEF old
  <2>3. IsFiniteSet(old)
    BY <2>1, <2>2, FS_Subset
  <2>. QED
    BY <2>3, FS_CardinalityType
<1>. DEFINE t == TimesOf(log, id)
            u == TimesOf(Append(log, x), id)
<1>4. t = Cardinality(old) /\ u = Cardinality(new)
  BY DEF TimesOf
<1>. SUFFICES t \in Nat /\ u \in Nat /\ (x # id => u = t) /\ u <= t + 1
  OBVIOUS
<1>. HIDE DEF a, t, u
<1>5. CASE x = id
  <2>1. new = old \cup {k} /\ k \notin old
    BY <1>1, <1>2, <1>5
  <2>. HIDE DEF old, new, k
  <2>2. Cardinality(new) = Cardinality(old) + 1
    BY <1>3, <2>1, FS_AddElement
  <2>. QED
    BY <1>3, <1>5, <1>4, <2>2
<1>6. CASE x # id
  <2>1. new = old
    BY <1>1, <1>2, <1>6
  <2>. HIDE DEF old, new, k
  <2>2. Cardinality(new) = Cardinality(old)
    BY <2>1
  <2>. QED
    BY <1>3, <1>4, <2>2
<1>. QED
  BY <1>5, <1>6

\* What a step of the loop means for an invocation: it goes on with its attempt, is sent,
\* tries again, or returns.
GoesOn(c) ==
    /\ \E pc \in Fresh \cup Sent : \E s :
          Moves(c, pc, s, inv[c].attempt) /\ (pc \in Fresh => inv[c].pc \in Fresh)
    /\ UNCHANGED <<finished, executed>>

IsSent(c) ==
    /\ \E s : Moves(c, "wait", s, inv[c].attempt)
    /\ inv[c].pc = "call"
    /\ executed' = Append(executed, inv[c].id) /\ UNCHANGED finished

TriesAgain(c) ==
    /\ Moves(c, "get", 0, inv[c].attempt + 1) /\ inv[c].pc = "closing"
    /\ ~(inv[c].attempt + 1 >= Config.attempts)
    /\ UNCHANGED <<finished, executed>>

IsOver(c) == (\E ok : Returns(c, ok)) /\ UNCHANGED executed

\* Every step of the loop is one of these.
LEMMA LoopEffect ==
    ASSUME McpTypes, NEW c \in Caller, Loop(c)
    PROVE  inv[c] # NoInv /\ (GoesOn(c) \/ IsSent(c) \/ TriesAgain(c) \/ IsOver(c))
<1>. DEFINE Goal == inv[c] # NoInv /\ (GoesOn(c) \/ IsSent(c) \/ TriesAgain(c) \/ IsOver(c))
<1>0. ASSUME NEW pc \in Fresh \cup Sent, NEW s, Goes(c, pc, s), inv[c] # NoInv,
             pc \in Fresh => inv[c].pc \in Fresh, UNCHANGED <<finished, executed>>
      PROVE  Goal
  BY <1>0, GoesFacts DEF GoesOn
<1>. SUFFICES Goal
  OBVIOUS
<1>. HIDE DEF Goal
<1>1. CASE GetSession(c)
  <2>1. inv[c].pc = "get" /\ inv[c] # NoInv /\ UNCHANGED <<finished, executed>>
    BY <1>1, LabelFacts DEF GetSession
  <2>2. \E pc \in {"call", "connect", "reset"} : \E s : Goes(c, pc, s)
    BY <1>1 DEF GetSession
  <2>. QED
    BY <1>0, <2>1, <2>2 DEF Fresh, Sent
<1>2. CASE Connect(c)
  <2>1. inv[c].pc = "connect" /\ inv[c] # NoInv /\ UNCHANGED <<finished, executed>>
    BY <1>2, LabelFacts DEF Connect
  <2>2. \E pc \in {"register", "reset"} : \E s : Goes(c, pc, s)
    BY <1>2 DEF Connect
  <2>. QED
    BY <1>0, <2>1, <2>2 DEF Fresh, Sent
<1>3. CASE PutSession(c)
  <2>1. inv[c].pc = "register" /\ inv[c] # NoInv /\ UNCHANGED <<finished, executed>>
    BY <1>3, LabelFacts DEF PutSession
  <2>2. \E s : Goes(c, "call", s)
    BY <1>3 DEF PutSession, Put
  <2>. QED
    BY <1>0, <2>1, <2>2 DEF Fresh
<1>4. CASE Send(c)
  <2>1. inv[c].pc = "call" /\ inv[c] # NoInv /\ UNCHANGED finished
    BY <1>4, LabelFacts DEF Send
  <2>2. CASE Goes(c, "reset", 0) /\ UNCHANGED executed
    BY <1>0, <2>1, <2>2 DEF Fresh, Sent
  <2>3. CASE \E s : Goes(c, "wait", s) /\ executed' = Append(executed, inv[c].id)
    BY <2>1, <2>3, GoesFacts DEF IsSent, Goal
  <2>. QED
    BY <1>4, <2>2, <2>3 DEF Send
<1>5. CASE Receive(c)
  <2>1. inv[c].pc = "wait" /\ inv[c] # NoInv /\ UNCHANGED executed
    BY <1>5, LabelFacts DEF Receive
  <2>2. CASE Return(c, TRUE)
    BY <2>1, <2>2, ReturnFacts DEF IsOver, Goal
  <2>3. CASE (\E pc \in {"reject", "reset"} : Goes(c, pc, 0)) /\ UNCHANGED finished
    BY <1>0, <2>1, <2>3 DEF Fresh, Sent
  <2>. QED
    BY <1>5, <2>2, <2>3 DEF Receive
<1>6. CASE TakeSession(c)
  <2>1. inv[c].pc \in {"reset", "reject"} /\ inv[c] # NoInv /\ UNCHANGED <<finished, executed>>
    BY <1>6, LabelFacts DEF TakeSession
  <2>2. \E pc \in {"closing", "rejecting"} : \E s : Goes(c, pc, s)
    BY <1>6 DEF TakeSession
  <2>. QED
    BY <1>0, <2>1, <2>2 DEF Fresh, Sent
<1>7. CASE CloseSession(c)
  <2>1. inv[c].pc \in {"closing", "rejecting"} /\ inv[c] # NoInv /\ UNCHANGED executed
    BY <1>7, LabelFacts DEF CloseSession
  <2>2. CASE Return(c, FALSE)
    BY <2>1, <2>2, ReturnFacts DEF IsOver, Goal
  <2>3. CASE ~Return(c, FALSE)
    <3>1. /\ ~Last(c) /\ UNCHANGED finished
          /\ inv' = [inv EXCEPT ![c].pc = "get", ![c].attempt = @ + 1, ![c].session = 0]
      BY <1>7, <2>3 DEF CloseSession
    <3>. QED
      BY <2>1, <3>1, RetryFacts DEF Last, TriesAgain, Goal
  <2>. QED
    BY <2>2, <2>3
<1>. QED
  BY <1>1, <1>2, <1>3, <1>4, <1>5, <1>6, <1>7 DEF Loop, Goal

\* What a step means for the executions and their invocations.
ClientQuiet == UNCHANGED <<inv, finished, executed>>

IdsEffect ==
    \/ UNCHANGED <<exec, execs>> /\ ClientQuiet
    \/ \E c \in Caller :
          \/ /\ OnlyOf(c) /\ ClientQuiet
             /\ \/ (\E m, t : Began(c, m, t)) /\ execs' = execs + 1
                \/ Continued(c) /\ Local(c) /\ UNCHANGED execs
                \/ /\ Ended(c) /\ UNCHANGED execs
                   /\ Local(c) \/ (Remote(c) /\ exec[c].step = 1) \/ inv[c] = NoInv
          \/ InvokeMCP(c) /\ OnlyOf(c) /\ Continued(c) /\ UNCHANGED execs
          \/ Loop(c) /\ UNCHANGED <<exec, execs>>

\* Every step of the system is one of these.
LEMMA IdsNext ==
    ASSUME ExecsOK, [Next]_vars
    PROVE  IdsEffect
<1>. USE DEF IdsEffect, ClientQuiet, skillVars, mcpVars
<1>1. CASE UNCHANGED vars
  BY <1>1 DEF vars
<1>2. ASSUME NEW m, NEW id, NEW version, Add(m) \/ RegisterBuiltin(id, version)
      PROVE  IdsEffect
  BY <1>2 DEF Add, RegisterBuiltin
<1>3. ASSUME UNCHANGED <<mcpVars, skillVars>> PROVE IdsEffect
  BY <1>3
<1>4. ASSUME NEW c \in Caller, NEW ask, NEW t, Start(c, ask, t) PROVE IdsEffect
  <2>1. ClientQuiet /\ execs' = execs + 1
    BY <1>4 DEF Start
  <2>. QED
    BY <1>4, <2>1, StartFacts
<1>5. ASSUME NEW c \in Caller, StepStarts(c) PROVE IdsEffect
  BY <1>5 DEF StepStarts, Aside
<1>6. ASSUME NEW c \in Caller, NEW lost, StepEnds(c) \/ StepFails(c, lost) PROVE IdsEffect
  <2>1. ClientQuiet /\ execs' = execs /\ Local(c)
    BY <1>6 DEF StepEnds, StepFails, Aside
  <2>2. OnlyOf(c) /\ (Continued(c) \/ Ended(c))
    BY <1>6, ActionFacts
  <2>. QED
    BY <2>1, <2>2
<1>7. ASSUME NEW c \in Caller, InvokeMCP(c) PROVE IdsEffect
  <2>1. execs' = execs
    BY <1>7 DEF InvokeMCP
  <2>. QED
    BY <1>7, <2>1, ActionFacts
<1>8. ASSUME NEW c \in Caller, Finish(c) \/ RefuseMCP(c) \/ ReturnMCP(c) PROVE IdsEffect
  <2>1. /\ ClientQuiet /\ execs' = execs
        /\ Local(c) \/ (Remote(c) /\ exec[c].step = 1) \/ inv[c] = NoInv
    BY <1>8 DEF Finish, RefuseMCP, ReturnMCP
  <2>. QED
    BY <1>8, <2>1, ActionFacts
<1>9. ASSUME NEW c \in Caller, Loop(c), Elsewhere PROVE IdsEffect
  BY <1>9 DEF Elsewhere
<1>10. ASSUME NEW lost, Approvals(lost) PROVE IdsEffect
  BY <1>10 DEF Approvals
<1>11. ASSUME NEW s, RegisterServer(s) \/ CloseManager, Elsewhere PROVE IdsEffect
  BY <1>11 DEF RegisterServer, CloseManager, Elsewhere
<1>. QED
  <2>. HIDE DEF IdsEffect
  <2>. QED
    BY <1>1, <1>2, <1>3, <1>4, <1>5, <1>6, <1>7, <1>8, <1>9, <1>10, <1>11 DEF Next, Anything

\* The conjuncts of IdsInv that are about the executions, and about one caller.
LEMMA IdsQuiet ==
    ASSUME IdsInv, UNCHANGED <<exec, execs>>, ClientQuiet
    PROVE  IdsInv'
BY DEF IdsInv, Numbered, ClientQuiet, Remote

\* A new execution gets a number that nobody has used.
LEMMA IdsStart ==
    ASSUME IdsInv, NEW c \in Caller, OnlyOf(c), ClientQuiet, NEW m, NEW t, Began(c, m, t),
           execs' = execs + 1
    PROVE  IdsInv'
<1>1. execs \in Nat /\ execs' \in Nat /\ 1 .. execs \subseteq 1 .. execs' /\ execs' \in 1 .. execs'
      /\ execs' \notin 1 .. execs
  BY DEF IdsInv, Numbered
<1>2. /\ exec[c] = NoExec /\ exec'[c] # NoExec /\ exec'[c].id = execs' /\ exec'[c].step = 1
      /\ inv' = inv /\ finished' = finished /\ executed' = executed
  BY DEF Began, ClientQuiet
<1>3. \A d \in Caller : d # c => exec'[d] = exec[d]
  BY DEF OnlyOf
<1>4. inv[c] = NoInv
  BY <1>2 DEF IdsInv, Numbered, Remote
<1>5. \A d \in Caller : exec'[d] # NoExec => exec'[d].id \in 1 .. execs'
  BY <1>1, <1>2, <1>3 DEF IdsInv, Numbered
<1>6. \A d, e \in Caller : (exec'[d] # NoExec /\ exec'[e] # NoExec /\ exec'[d].id = exec'[e].id) => d = e
  BY <1>1, <1>2, <1>3 DEF IdsInv, Numbered
<1>7. \A d \in Caller : inv'[d] # NoInv =>
         Remote(d)' /\ exec'[d].step = 2 /\ inv'[d].id = exec'[d].id
  BY <1>2, <1>3, <1>4 DEF IdsInv, Numbered, Remote
<1>8. \A d \in Caller : (Remote(d)' /\ exec'[d].step = 1) =>
          /\ \A r \in finished : r.id # exec'[d].id
          /\ \A n \in DOMAIN executed : executed[n] # exec'[d].id
  BY <1>1, <1>2, <1>3 DEF IdsInv, Numbered, Remote
<1>9. /\ \A r \in finished : r.id \in 1 .. execs'
      /\ \A n \in DOMAIN executed : executed[n] \in 1 .. execs'
  BY <1>1 DEF IdsInv, Numbered
<1>10. \A d \in Caller : inv[d] # NoInv => \A r \in finished : r.id # inv[d].id
  BY DEF IdsInv, Numbered
<1>. QED
  BY <1>1, <1>2, <1>5, <1>6, <1>7, <1>8, <1>9, <1>10 DEF IdsInv, Numbered

\* A local step does not touch the client.
LEMMA IdsContinue ==
    ASSUME IdsInv, NEW c \in Caller, OnlyOf(c), ClientQuiet, Continued(c), Local(c), execs' = execs
    PROVE  IdsInv'
<1>1. /\ exec[c] # NoExec /\ exec'[c] # NoExec /\ exec'[c].id = exec[c].id
      /\ exec'[c].skill = exec[c].skill /\ exec[c].skill.type # "mcp"
      /\ inv' = inv /\ finished' = finished /\ executed' = executed
  BY DEF Continued, Local, ClientQuiet
<1>2. \A d \in Caller : d # c => exec'[d] = exec[d]
  BY DEF OnlyOf
<1>. QED
  BY <1>1, <1>2 DEF IdsInv, Numbered, Remote

\* An execution that ends has no invocation under way.
LEMMA IdsEnd ==
    ASSUME IdsInv, NEW c \in Caller, OnlyOf(c), ClientQuiet, Ended(c), execs' = execs,
           Local(c) \/ (Remote(c) /\ exec[c].step = 1) \/ inv[c] = NoInv
    PROVE  IdsInv'
<1>1. /\ exec'[c] = NoExec /\ inv[c] = NoInv
      /\ inv' = inv /\ finished' = finished /\ executed' = executed
  BY DEF Ended, ClientQuiet, IdsInv, Numbered, Local, Remote
<1>2. \A d \in Caller : d # c => exec'[d] = exec[d]
  BY DEF OnlyOf
<1>. HIDE DEF NoExec, NoInv
<1>. QED
  BY <1>1, <1>2 DEF IdsInv, Numbered, Remote

\* An execution invokes the client in its first step.
LEMMA InvokeFacts ==
    ASSUME McpTypes, NEW c \in Caller, InvokeMCP(c)
    PROVE  \E q, t :
              /\ Remote(c) /\ exec[c].step = 1 /\ inv[c] = NoInv /\ configs # {}
              /\ Authorized(q, t) /\ UNCHANGED <<configs, executed, now>>
              /\ \/ /\ Others(c) /\ inv'[c] # NoInv /\ inv'[c].id = exec[c].id
                    /\ inv'[c].call = q /\ inv'[c].token = t /\ inv'[c].pc = "get"
                    /\ inv'[c].attempt = 0 /\ UNCHANGED finished
                 \/ /\ UNCHANGED inv
                    /\ \E r : /\ finished' = finished \cup {r} /\ r.id = exec[c].id
                              /\ r.call = q /\ r.token = t
<1>1. PICK q, t, i : q = CallOfSkill(exec[c].skill) /\ t = exec[c].token /\ i = exec[c].id
  OBVIOUS
<1>2. /\ Invoke(c, q, t, i) /\ Remote(c) /\ exec[c].step = 1 /\ now' = now
  BY <1>1 DEF InvokeMCP
<1>3. /\ inv[c] = NoInv /\ configs # {} /\ Authorized(q, t) /\ UNCHANGED <<configs, executed>>
  BY <1>2 DEF Invoke, Admissible
<1>4. PICK r : r = [pc |-> "get", id |-> i, call |-> q, token |-> t, attempt |-> 0, session |-> 0]
  OBVIOUS
<1>5. /\ r # NoInv /\ r.pc = "get" /\ r.attempt = 0 /\ r.id = i /\ r.call = q /\ r.token = t
  BY <1>4 DEF NoInv
<1>6. CASE inv' = [inv EXCEPT ![c] = r] /\ UNCHANGED finished
  <2>1. Others(c) /\ inv'[c] = r
    BY <1>6, InvSet
  <2>. QED
    BY <1>1, <1>2, <1>3, <1>5, <1>6, <2>1
<1>7. CASE /\ UNCHANGED inv
           /\ finished' = finished \cup {[id |-> i, call |-> q, token |-> t, ok |-> FALSE]}
  <2>1. PICK f : f = [id |-> i, call |-> q, token |-> t, ok |-> FALSE]
    OBVIOUS
  <2>2. f.id = i /\ f.call = q /\ f.token = t
    BY <2>1
  <2>. QED
    BY <1>1, <1>2, <1>3, <1>7, <2>1, <2>2
<1>. QED
  BY <1>2, <1>4, <1>6, <1>7 DEF Invoke

\* The first invocation of an execution is its only one.
LEMMA IdsInvoke ==
    ASSUME IdsInv, McpTypes, NEW c \in Caller, InvokeMCP(c), OnlyOf(c), Continued(c), execs' = execs
    PROVE  IdsInv'
<1>0. PICK i : i = exec[c].id
  OBVIOUS
<1>1. /\ Remote(c) /\ exec[c].step = 1 /\ inv[c] = NoInv /\ executed' = executed
      /\ \/ Others(c) /\ inv'[c] # NoInv /\ inv'[c].id = i /\ finished' = finished
         \/ inv' = inv /\ \E r : finished' = finished \cup {r} /\ r.id = i
  BY <1>0, InvokeFacts
<1>2. /\ exec[c] # NoExec /\ exec'[c] # NoExec /\ exec'[c].id = i /\ exec'[c].step = 2
      /\ exec'[c].skill = exec[c].skill
  BY <1>0, <1>1 DEF Continued
<1>3. \A d \in Caller : d # c => exec'[d] = exec[d]
  BY DEF OnlyOf
<1>4. \A d \in Caller : d # c => inv'[d] = inv[d]
  BY <1>1 DEF Others
<1>5. \A d \in Caller : d # c /\ exec[d] # NoExec => exec[d].id # i
  BY <1>0, <1>2 DEF IdsInv, Numbered
<1>6. /\ \A r \in finished : r.id # i
      /\ \A n \in DOMAIN executed : executed[n] # i
      /\ i \in 1 .. execs
  BY <1>0, <1>1, <1>2 DEF IdsInv, Numbered
<1>7. \A r \in finished' : r \in finished \/ r.id = i
  BY <1>1
<1>8. /\ \A d \in Caller : exec'[d] # NoExec => exec'[d].id \in 1 .. execs'
      /\ \A d, e \in Caller : (exec'[d] # NoExec /\ exec'[e] # NoExec /\ exec'[d].id = exec'[e].id) => d = e
  BY <1>2, <1>3, <1>5, <1>6 DEF IdsInv, Numbered
<1>9. \A d \in Caller : inv'[d] # NoInv =>
         Remote(d)' /\ exec'[d].step = 2 /\ inv'[d].id = exec'[d].id
  <2>. HIDE DEF NoInv
  <2>. QED
    BY <1>1, <1>2, <1>3, <1>4 DEF IdsInv, Numbered, Remote
<1>10. \A r \in finished' : r.id \in 1 .. execs'
  BY <1>6, <1>7 DEF IdsInv, Numbered
<1>11. \A d \in Caller : (Remote(d)' /\ exec'[d].step = 1) =>
          /\ \A r \in finished' : r.id # exec'[d].id
          /\ \A n \in DOMAIN executed : executed[n] # exec'[d].id
  BY <1>2, <1>3, <1>5, <1>7 DEF IdsInv, Numbered, Remote
<1>12. \A d \in Caller : inv'[d] # NoInv => \A r \in finished' : r.id # inv'[d].id
  <2>. HIDE DEF NoInv
  <2>1. ASSUME NEW d \in Caller, inv'[d] # NoInv, d # c PROVE \A r \in finished' : r.id # inv'[d].id
    <3>1. inv'[d] = inv[d] /\ inv[d].id = exec[d].id /\ exec[d] # NoExec
      BY <1>4, <2>1 DEF IdsInv, Numbered, Remote
    <3>. QED
      BY <1>5, <1>7, <2>1, <3>1 DEF IdsInv, Numbered
  <2>2. ASSUME inv'[c] # NoInv PROVE \A r \in finished' : r.id # inv'[c].id
    <3>1. finished' = finished /\ inv'[c].id = i
      BY <1>1, <2>2
    <3>. QED
      BY <1>6, <3>1
  <2>. QED
    BY <2>1, <2>2
<1>. QED
  BY <1>1, <1>8, <1>9, <1>10, <1>11, <1>12 DEF IdsInv, Numbered

\* The loop works for the execution that invoked it.
LEMMA IdsLoop ==
    ASSUME IdsInv, McpTypes, NEW c \in Caller, Loop(c), UNCHANGED <<exec, execs>>
    PROVE  IdsInv'
<1>. HIDE DEF NoInv
<1>0. PICK i : i = inv[c].id
  OBVIOUS
<1>1. inv[c] # NoInv /\ i = exec[c].id /\ Remote(c) /\ exec[c].step = 2 /\ i \in 1 .. execs
      /\ exec[c] # NoExec
  BY <1>0, LoopEffect DEF IdsInv, Numbered, Remote
<1>2. \A d \in Caller : d # c => inv'[d] = inv[d]
  BY LoopEffect DEF GoesOn, IsSent, TriesAgain, IsOver, Moves, Returns, Others
<1>3. \/ inv'[c] = NoInv /\ (\E r : finished' = finished \cup {r} /\ r.id = i)
      \/ inv'[c] # NoInv /\ inv'[c].id = i /\ finished' = finished
  BY <1>0, LoopEffect DEF GoesOn, IsSent, TriesAgain, IsOver, Moves, Returns
<1>4. \A n \in DOMAIN executed' : executed'[n] = i \/ (n \in DOMAIN executed /\ executed'[n] = executed[n])
  <2>1. executed' = executed \/ executed' = Append(executed, i)
    BY <1>0, LoopEffect DEF GoesOn, IsSent, TriesAgain, IsOver
  <2>2. CASE executed' = executed
    BY <2>2
  <2>3. CASE executed' = Append(executed, i)
    <3>1. IsSequence(executed)
      BY DEF McpTypes
    <3>2. /\ DOMAIN executed = 1 .. Len(executed) /\ Len(executed) \in Nat
          /\ DOMAIN Append(executed, i) = 1 .. Len(executed) + 1
          /\ \A n \in DOMAIN executed : Append(executed, i)[n] = executed[n]
          /\ Append(executed, i)[Len(executed) + 1] = i
      BY <3>1, AppendAny
    <3>3. 1 .. Len(executed) + 1 = (1 .. Len(executed)) \cup {Len(executed) + 1}
      BY <3>2
    <3>. QED
      BY <2>3, <3>2, <3>3
  <2>. QED
    BY <2>1, <2>2, <2>3
<1>5. \A r \in finished' : r \in finished \/ r.id = i
  BY <1>3
<1>6. \A d \in Caller : d # c /\ exec[d] # NoExec => exec[d].id # i
  BY <1>1 DEF IdsInv, Numbered
<1>7. \A d \in Caller : inv'[d] # NoInv => Remote(d) /\ exec[d].step = 2 /\ inv'[d].id = exec[d].id
  BY <1>1, <1>2, <1>3 DEF IdsInv, Numbered
<1>8. /\ \A r \in finished' : r.id \in 1 .. execs
      /\ \A n \in DOMAIN executed' : executed'[n] \in 1 .. execs
  BY <1>1, <1>4, <1>5 DEF IdsInv, Numbered
<1>9. \A d \in Caller : (Remote(d) /\ exec[d].step = 1) =>
          /\ \A r \in finished' : r.id # exec[d].id
          /\ \A n \in DOMAIN executed' : executed'[n] # exec[d].id
  BY <1>1, <1>4, <1>5, <1>6 DEF IdsInv, Numbered, Remote
<1>10. \A d \in Caller : inv'[d] # NoInv => \A r \in finished' : r.id # inv'[d].id
  <2>1. ASSUME NEW d \in Caller, inv'[d] # NoInv, d # c PROVE \A r \in finished' : r.id # inv'[d].id
    <3>1. inv'[d] = inv[d] /\ inv[d].id = exec[d].id /\ exec[d] # NoExec
      BY <1>2, <2>1 DEF IdsInv, Numbered, Remote
    <3>. QED
      BY <1>5, <1>6, <2>1, <3>1 DEF IdsInv, Numbered
  <2>2. ASSUME inv'[c] # NoInv PROVE \A r \in finished' : r.id # inv'[c].id
    BY <1>0, <1>1, <1>3, <2>2 DEF IdsInv, Numbered
  <2>. QED
    BY <2>1, <2>2
<1>. QED
  BY <1>7, <1>8, <1>9, <1>10 DEF IdsInv, Numbered, Remote

\* Numbers stay unique.
LEMMA IdsKept ==
    ASSUME IdsInv, McpTypes, ExecsOK, [Next]_vars
    PROVE  IdsInv'
BY IdsNext, IdsQuiet, IdsStart, IdsContinue, IdsEnd, IdsInvoke, IdsLoop DEF IdsEffect

\* A step that leaves the server's log alone, or adds the invocation of one caller.
LEMMA TimesTyped ==
    ASSUME McpTypes, NEW id
    PROVE  Times(id) \in Nat
<1>1. IsSequence(executed)
  BY DEF McpTypes
<1>. QED
  BY <1>1, OnceMore DEF Times

\* Each attempt reaches the server at most once.
LEMMA TimesKept ==
    ASSUME TimesInv, IdsInv, McpTypes, ExecsOK, [Next]_vars
    PROVE  TimesInv'
<1>. HIDE DEF NoInv
<1>0. configs # {} => configs' = configs /\ Config' = Config /\ Config.attempts \in 1 .. 2
  <2>1. configs # {} => configs' = configs
    BY McpNext, LoopQuiet DEF McpEffect, mcpVars, RegisterServer, CloseManager, InvokeMCP, Invoke
  <2>2. configs # {} => ValidServer(Config)
    BY DEF McpTypes
  <2>. QED
    BY <2>1, <2>2 DEF Config, ValidServer
<1>1. CASE ClientQuiet
  BY <1>0, <1>1 DEF ClientQuiet, TimesInv, Times
<1>2. ASSUME NEW c \in Caller, InvokeMCP(c) PROVE TimesInv'
  <2>0. PICK i : i = exec[c].id
    OBVIOUS
  <2>1. /\ Remote(c) /\ exec[c].step = 1 /\ configs # {} /\ executed' = executed
        /\ \/ /\ Others(c) /\ inv'[c] # NoInv /\ inv'[c].id = i /\ inv'[c].pc = "get"
              /\ inv'[c].attempt = 0 /\ finished' = finished
           \/ inv' = inv /\ \E r : finished' = finished \cup {r} /\ r.id = i
    BY <1>2, <2>0, InvokeFacts
  <2>2. Times(i) = 0
    <3>1. \A n \in DOMAIN executed : executed[n] # i
      BY <2>0, <2>1 DEF IdsInv, Numbered
    <3>. QED
      BY <3>1, NoTimes DEF Times
  <2>3. \A id : Times(id)' = Times(id)
    BY <2>1 DEF Times
  <2>4. \A r \in finished' : Times(r.id) <= Config.attempts
    <3>1. \A r \in finished' : r \in finished \/ r.id = i
      BY <2>1
    <3>2. 0 <= Config.attempts
      BY <1>0, <2>1
    <3>. QED
      BY <2>2, <3>1, <3>2 DEF TimesInv
  <2>5. \A d \in Caller : inv'[d] # NoInv =>
          /\ inv'[d].attempt < Config.attempts
          /\ Times(inv'[d].id) <= IF inv'[d].pc \in Fresh THEN inv'[d].attempt ELSE inv'[d].attempt + 1
    <3>1. 0 < Config.attempts
      BY <1>0, <2>1
    <3>2. inv' = inv \/ (/\ Others(c) /\ inv'[c].id = i /\ inv'[c].pc = "get" /\ inv'[c].attempt = 0)
      BY <2>1
    <3>3. CASE inv' = inv
      BY <3>3 DEF TimesInv
    <3>4. CASE /\ Others(c) /\ inv'[c].id = i /\ inv'[c].pc = "get" /\ inv'[c].attempt = 0
      <4>1. Times(inv'[c].id) <= 0 /\ "get" \in Fresh
        BY <2>2, <3>4 DEF Fresh
      <4>. QED
        BY <3>1, <3>4, <4>1 DEF TimesInv, Others
    <3>. QED
      BY <3>2, <3>3, <3>4
  <2>. QED
    BY <1>0, <2>1, <2>3, <2>4, <2>5 DEF TimesInv
<1>3. ASSUME NEW c \in Caller, Loop(c) PROVE TimesInv'
  <2>0. PICK i, a : i = inv[c].id /\ a = inv[c].attempt
    OBVIOUS
  <2>1. inv[c] # NoInv /\ configs # {} /\ configs' = configs /\ Config' = Config
    BY <1>0, <1>3, LoopEffect DEF TimesInv
  <2>2. /\ a \in Nat /\ a < Config.attempts /\ Config.attempts \in Nat /\ Times(i) \in Nat
        /\ Times(i) <= a + 1 /\ (inv[c].pc \in Fresh => Times(i) <= a)
    <3>1. a \in Nat
      BY <2>0, <2>1 DEF McpTypes
    <3>2. a < Config.attempts /\ Times(i) <= IF inv[c].pc \in Fresh THEN a ELSE a + 1
      BY <2>0, <2>1 DEF TimesInv
    <3>3. Times(i) \in Nat /\ Config.attempts \in Nat
      BY <1>0, <2>1, TimesTyped
    <3>. QED
      BY <3>1, <3>2, <3>3
  <2>3. \A d \in Caller : d # c => inv'[d] = inv[d] /\ (inv[d] # NoInv => inv[d].id # i)
    <3>1. \A d \in Caller : d # c => inv'[d] = inv[d]
      BY <1>3, LoopEffect DEF GoesOn, IsSent, TriesAgain, IsOver, Moves, Returns, Others
    <3>2. \A d \in Caller : d # c /\ inv[d] # NoInv => inv[d].id # i
      BY <2>0, <2>1 DEF IdsInv, Numbered, Remote
    <3>. QED
      BY <3>1, <3>2
  <2>4. \A r \in finished : r.id # i
    BY <2>0, <2>1 DEF IdsInv, Numbered
  <2>5. ASSUME \A id : id # i => Times(id)' = Times(id),
               \A r \in finished' : r \in finished \/ (r.id = i /\ Times(i)' <= Config.attempts),
               inv'[c] # NoInv =>
                   /\ inv'[c].id = i /\ inv'[c].attempt < Config.attempts
                   /\ Times(i)' <= IF inv'[c].pc \in Fresh THEN inv'[c].attempt
                                   ELSE inv'[c].attempt + 1
        PROVE  TimesInv'
    <3>1. \A r \in finished' : Times(r.id)' <= Config.attempts
      BY <2>4, <2>5 DEF TimesInv
    <3>2. \A d \in Caller : inv'[d] # NoInv =>
             /\ inv'[d].attempt < Config.attempts
             /\ TimesOf(executed', inv'[d].id) <= IF inv'[d].pc \in Fresh THEN inv'[d].attempt
                                                  ELSE inv'[d].attempt + 1
      <4>1. \A id : Times(id) = TimesOf(executed, id) /\ Times(id)' = TimesOf(executed', id)
        BY DEF Times
      <4>2. ASSUME NEW d \in Caller, inv'[d] # NoInv, d # c
            PROVE  /\ inv'[d].attempt < Config.attempts
                   /\ TimesOf(executed', inv'[d].id) <= IF inv'[d].pc \in Fresh THEN inv'[d].attempt
                                                        ELSE inv'[d].attempt + 1
        <5>1. inv'[d] = inv[d] /\ inv[d] # NoInv /\ inv[d].id # i
          BY <2>3, <4>2
        <5>2. TimesOf(executed', inv[d].id) = TimesOf(executed, inv[d].id)
          BY <2>5, <4>1, <5>1
        <5>. QED
          BY <4>1, <5>1, <5>2 DEF TimesInv
      <4>. QED
        BY <2>5, <4>1, <4>2
    <3>. QED
      BY <2>1, <3>1, <3>2 DEF TimesInv, Times
  <2>6. executed' = executed => \A id : Times(id)' = Times(id)
    BY DEF Times
  <2>7. CASE GoesOn(c)
    <3>1. PICK pc \in Fresh \cup Sent : /\ inv'[c].pc = pc /\ inv'[c].attempt = a /\ inv'[c].id = i
                                        /\ pc \in Fresh => inv[c].pc \in Fresh
      BY <2>0, <2>7 DEF GoesOn, Moves
    <3>2. executed' = executed /\ finished' = finished
      BY <2>7 DEF GoesOn
    <3>. QED
      BY <2>2, <2>5, <2>6, <3>1, <3>2
  <2>8. CASE IsSent(c)
    <3>1. /\ inv'[c].pc = "wait" /\ inv'[c].attempt = a /\ inv'[c].id = i /\ inv[c].pc = "call"
          /\ executed' = Append(executed, i) /\ finished' = finished
      BY <2>0, <2>8 DEF IsSent, Moves
    <3>2. IsSequence(executed)
      BY DEF McpTypes
    <3>3. /\ \A id : id # i => Times(id)' = Times(id)
          /\ Times(i)' <= Times(i) + 1 /\ Times(i)' \in Nat
      BY <3>1, <3>2, OnceMore DEF Times
    <3>4. inv[c].pc \in Fresh /\ inv'[c].pc \notin Fresh
      BY <3>1 DEF Fresh
    <3>5. Times(i)' <= a + 1
      BY <2>2, <3>3, <3>4
    <3>. QED
      BY <2>2, <2>5, <3>1, <3>3, <3>4, <3>5
  <2>9. CASE TriesAgain(c)
    <3>1. /\ inv'[c].pc = "get" /\ inv'[c].attempt = a + 1 /\ inv'[c].id = i
          /\ ~(a + 1 >= Config.attempts) /\ executed' = executed /\ finished' = finished
      BY <2>0, <2>9 DEF TriesAgain, Moves
    <3>2. inv'[c].pc \in Fresh /\ a + 1 < Config.attempts
      BY <2>2, <3>1 DEF Fresh
    <3>. QED
      BY <2>2, <2>5, <2>6, <3>1, <3>2
  <2>10. CASE IsOver(c)
    <3>1. inv'[c] = NoInv /\ executed' = executed /\ \E r : finished' = finished \cup {r} /\ r.id = i
      BY <2>0, <2>10 DEF IsOver, Returns
    <3>2. Times(i) <= Config.attempts
      BY <2>2
    <3>. QED
      BY <2>5, <2>6, <3>1, <3>2
  <2>. QED
    BY <1>3, <2>7, <2>8, <2>9, <2>10, LoopEffect
<1>. QED
  BY <1>1, <1>2, <1>3, IdsNext DEF IdsEffect

\* An approval of a decided binding, in use, stays what it is.
LEMMA CoverKept ==
    ASSUME CoverInv, TimesInv, McpTypes, ExecsOK, ApprovalInv, [Next]_vars
    PROVE  CoverInv'
<1>. HIDE DEF NoInv
<1>0. DecisionKept /\ DOMAIN uses \subseteq Token
  BY SkillsSteps, ApprovalKept DEF ApprovalInv, ApprovalTypes
<1>1. \A t \in DOMAIN uses : t \in DOMAIN uses' /\ requests'[t].bind = requests[t].bind
  BY <1>0 DEF DecisionKept
<1>2. ASSUME \A i, q, t : Invoked(i, q, t)' => Invoked(i, q, t), configs' = configs
      PROVE  CoverInv'
  <2>1. \A q : Under(q)' <=> Under(q)
    BY <1>2 DEF Under, Config
  <2>2. \A i, q, t : (Invoked(i, q, t)' /\ Under(q)') => t \in DOMAIN uses' /\ requests'[t].bind = BindOf(q)
    BY <1>1, <1>2, <2>1 DEF CoverInv
  <2>3. \A i, q, t, j, p : (Invoked(i, q, t)' /\ Under(q)' /\ Invoked(j, p, t)' /\ Under(p)') => i = j
    BY <1>2, <2>1 DEF CoverInv
  <2>. QED
    BY <2>2, <2>3 DEF CoverInv
<1>3. CASE ClientQuiet
  <2>1. CASE configs' = configs
    BY <1>2, <1>3, <2>1 DEF ClientQuiet, Invoked
  <2>2. CASE configs = {}
    <3>1. \A i, q, t : ~Invoked(i, q, t)'
      BY <1>3, <2>2 DEF ClientQuiet, Invoked, TimesInv
    <3>. QED
      BY <3>1 DEF CoverInv
  <2>. QED
    BY <2>1, <2>2, McpNext, LoopQuiet
       DEF McpEffect, mcpVars, RegisterServer, CloseManager, InvokeMCP, Invoke
<1>4. ASSUME NEW c \in Caller, Loop(c) PROVE CoverInv'
  <2>1. \A i, q, t : Invoked(i, q, t)' => Invoked(i, q, t)
    <3>1. inv[c] # NoInv
      BY <1>4, LoopEffect
    <3>2. CASE GoesOn(c) \/ IsSent(c) \/ TriesAgain(c)
      BY <3>1, <3>2 DEF GoesOn, IsSent, TriesAgain, Moves, Others, Invoked
    <3>3. CASE IsOver(c)
      BY <3>1, <3>3 DEF IsOver, Returns, Others, Invoked
    <3>. QED
      BY <1>4, <3>2, <3>3, LoopEffect
  <2>2. configs' = configs
    BY <1>4, LoopQuiet
  <2>. QED
    BY <1>2, <2>1, <2>2
<1>5. ASSUME NEW c \in Caller, InvokeMCP(c) PROVE CoverInv'
  <2>0. PICK q, t, i :
           /\ i = exec[c].id /\ configs' = configs
           /\ Authorized(q, t) /\ now' = now
           /\ \/ /\ Others(c) /\ inv'[c] # NoInv /\ inv'[c].id = i
                 /\ inv'[c].call = q /\ inv'[c].token = t /\ finished' = finished
              \/ /\ inv' = inv
                 /\ \E r : finished' = finished \cup {r} /\ r.id = i /\ r.call = q /\ r.token = t
    BY <1>5, InvokeFacts
  <2>1. \A j, p, u : Invoked(j, p, u)' => Invoked(j, p, u) \/ (j = i /\ p = q /\ u = t)
    <3>1. CASE /\ Others(c) /\ inv'[c].id = i
               /\ inv'[c].call = q /\ inv'[c].token = t /\ finished' = finished
      BY <3>1 DEF Others, Invoked
    <3>2. CASE /\ inv' = inv
               /\ \E r : finished' = finished \cup {r} /\ r.id = i /\ r.call = q /\ r.token = t
      BY <3>2 DEF Invoked
    <3>. QED
      BY <2>0, <3>1, <3>2
  <2>2. \A p : Under(p)' <=> Under(p)
    BY <2>0 DEF Under, Config
  <2>3. ASSUME Under(q)
        PROVE  /\ t \notin DOMAIN uses /\ t \in DOMAIN uses' /\ requests'[t].bind = BindOf(q)
    <3>1. AuthorizeReceipt(t, BindOf(q))
      BY <2>0, <2>3 DEF Authorized, Under
    <3>. QED
      BY <2>0, <3>1, AuthorizeKeeps
  <2>4. \A j, p, u : (Invoked(j, p, u)' /\ Under(p)') => u \in DOMAIN uses' /\ requests'[u].bind = BindOf(p)
    BY <1>1, <2>1, <2>2, <2>3 DEF CoverInv
  <2>5. \A j, p, u : (Invoked(j, p, u) /\ Under(p)) => u \in DOMAIN uses
    BY DEF CoverInv
  <2>6. \A j, p, u, k, o : (Invoked(j, p, u)' /\ Under(p)' /\ Invoked(k, o, u)' /\ Under(o)') => j = k
    <3>. SUFFICES ASSUME NEW j, NEW p, NEW u, NEW k, NEW o,
                         Invoked(j, p, u)', Under(p)', Invoked(k, o, u)', Under(o)'
                  PROVE  j = k
      OBVIOUS
    <3>1. Under(p) /\ Under(o)
      BY <2>2
    <3>2. CASE Invoked(j, p, u) /\ Invoked(k, o, u)
      BY <3>1, <3>2 DEF CoverInv
    <3>3. CASE ~Invoked(j, p, u)
      BY <2>1, <2>3, <2>5, <3>1, <3>3
    <3>4. CASE ~Invoked(k, o, u)
      BY <2>1, <2>3, <2>5, <3>1, <3>4
    <3>. QED
      BY <3>2, <3>3, <3>4
  <2>. QED
    BY <2>4, <2>6 DEF CoverInv
<1>. QED
  BY <1>3, <1>4, <1>5, IdsNext DEF IdsEffect

ServerInv == SkillsInv /\ SessionsInv /\ IdsInv /\ TimesInv /\ CoverInv

\* An MCP tool is executed no more often than MaxAttempts allows for an invocation, and
\* under approval only for the one invocation that used it up.
THEOREM ServerExecutionsAreCovered == Spec => []ExecutionsAreCovered
<1>1. Init => IdsInv /\ TimesInv /\ CoverInv
  <2>. SUFFICES ASSUME Init PROVE IdsInv /\ TimesInv /\ CoverInv
    OBVIOUS
  <2>1. /\ executed = <<>> /\ finished = {} /\ execs = 0
        /\ \A c \in Caller : exec[c] = NoExec /\ inv[c] = NoInv
    BY DEF Init, McpInit
  <2>2. DOMAIN executed = {}
    BY <2>1
  <2>3. IdsInv
    <3>. HIDE DEF NoExec, NoInv
    <3>. QED
      BY <2>1, <2>2 DEF IdsInv, Numbered, Remote
  <2>4. TimesInv /\ CoverInv
    <3>. HIDE DEF NoInv
    <3>. QED
      BY <2>1 DEF TimesInv, CoverInv, Invoked
  <2>. QED
    BY <2>3, <2>4
<1>2. SkillsInv /\ SessionsInv /\ IdsInv /\ TimesInv /\ CoverInv /\ [Next]_vars
         => IdsInv' /\ TimesInv' /\ CoverInv'
  BY IdsKept, TimesKept, CoverKept DEF SkillsInv, SessionsInv
<1>3. ServerInv => ExecutionsAreCovered
  <2>. SUFFICES ASSUME ServerInv PROVE ExecutionsAreCovered
    OBVIOUS
  <2>1. \A r \in Invocations : /\ Times(r.id) <= Config.attempts
                               /\ Invoked(r.id, r.call, r.token)
    <3>. SUFFICES ASSUME NEW r \in Invocations
                  PROVE  Times(r.id) <= Config.attempts /\ Invoked(r.id, r.call, r.token)
      OBVIOUS
    <3>1. CASE r \in finished
      BY <3>1 DEF ServerInv, TimesInv, Invoked
    <3>2. ASSUME NEW c \in Caller, inv[c] # NoInv,
                 r = [id |-> inv[c].id, call |-> inv[c].call, token |-> inv[c].token, ok |-> FALSE]
          PROVE  Times(r.id) <= Config.attempts /\ Invoked(r.id, r.call, r.token)
      <4>1. r.id = inv[c].id /\ r.call = inv[c].call /\ r.token = inv[c].token
        BY <3>2
      <4>2. PICK a : a = inv[c].attempt
        OBVIOUS
      <4>3. /\ a \in Nat /\ configs # {} /\ a < Config.attempts /\ Times(r.id) \in Nat
            /\ Times(r.id) <= a \/ Times(r.id) <= a + 1
        BY <3>2, <4>1, <4>2, TimesTyped DEF ServerInv, SessionsInv, McpTypes, TimesInv
      <4>4. Config.attempts \in Nat
        BY <4>3 DEF ServerInv, SessionsInv, McpTypes, ValidServer
      <4>5. Times(r.id) <= Config.attempts
        BY <4>3, <4>4
      <4>. QED
        BY <3>2, <4>1, <4>5 DEF Invoked
    <3>. QED
      BY <3>1, <3>2 DEF Invocations
  <2>2. \A r : UnderApproval(r) <=> Under(r.call)
    BY DEF UnderApproval, Under
  <2>3. ASSUME NEW r \in Invocations, UnderApproval(r)
        PROVE  /\ r.token \in DOMAIN uses /\ requests[r.token].bind = BindOf(r.call)
               /\ \A o \in Invocations : (UnderApproval(o) /\ o.token = r.token) => o.id = r.id
    BY <2>1, <2>2, <2>3 DEF ServerInv, CoverInv
  <2>. QED
    BY <2>1, <2>3 DEF ExecutionsAreCovered, Times, TimesOf
<1>. QED
  BY <1>1, <1>2, <1>3, SkillsInvariant, SessionsInvariant, PTL DEF Spec, ServerInv
=============================================================================
