----------------------------- MODULE AgentProofs -----------------------------
(***************************************************************************)
(* Theorems about Agent, with the approval manager and the tool registry   *)
(* it is composed with.                                                    *)
(***************************************************************************)
EXTENDS Agent, ToolsProofs, WellFoundedInduction

(***************************************************************************)
(* Approvals and tools: every step of the agent is a step of each.         *)
(***************************************************************************)
\* A step of Handle leaves the registry alone, and uses the approval manager
\* through ResolveToken if at all.
LEMMA HandleSteps ==
    ASSUME Handle
    PROVE  ApprovalStep /\ RegistryQuiet
<1>1. ASSUME NEW label, Query(label) PROVE ApprovalQuiet /\ RegistryQuiet
  BY <1>1 DEF Query, Step, ApprovalQuiet, RegistryQuiet, registry
<1>2. CASE Stop \/ Candidate \/ Approve \/ Forget \/ Chat \/ Ask \/ Store
  BY <1>2 DEF Stop, Candidate, Approve, Forget, Chat, Ask, Store, Step, ApprovalStep, ApprovalQuiet,
              RegistryQuiet, registry
<1>3. ASSUME NEW size, Answer(size) PROVE ApprovalQuiet /\ RegistryQuiet
  BY <1>3 DEF Answer, Step, ApprovalQuiet, RegistryQuiet, registry
<1>4. ASSUME NEW lost, Resolve(lost) PROVE ApprovalStep /\ RegistryQuiet
  <2>1. now' = now /\ registry' = registry
    BY <1>4 DEF Resolve, Step
  <2>2. \E decision \in {"approved", "denied"} :
           ResolveToken(text[cur].arg, Owner, decision, lost)
    BY <1>4 DEF Resolve
  <2>. QED
    BY <2>1, <2>2 DEF ApprovalStep, RegistryQuiet, registry
<1>. QED
  BY <1>1, <1>2, <1>3, <1>4 DEF Handle, ApprovalStep

\* A step of a caller of the registry.
LEMMA ToolsSteps ==
    ASSUME ToolsNext
    PROVE  ApprovalStep /\ RegistryStep
<1>1. ASSUME NEW x, Register(x) PROVE ApprovalQuiet
  BY <1>1 DEF Register, ApprovalQuiet
<1>2. ASSUME NEW c \in Caller, Run(c) PROVE ApprovalQuiet
  BY <1>2 DEF Run, ApprovalQuiet
<1>3. ASSUME NEW c \in Caller, NEW q, NEW t, ExecuteAllowed(c, q) \/ ExecuteRefused(c, q, t)
      PROVE  ApprovalQuiet
  BY <1>3 DEF ExecuteAllowed, ExecuteRefused, Enter, ApprovalQuiet
<1>4. ASSUME NEW c \in Caller, NEW q, NEW lost, RequestApproval(c, q, lost)
      PROVE  ApprovalStep
  BY <1>4 DEF RequestApproval, Enter, ApprovalStep
<1>5. ASSUME NEW c \in Caller, NEW q, NEW t, ExecuteApproved(c, q, t)
      PROVE  ApprovalStep
  BY <1>5 DEF ExecuteApproved, Enter, ApprovalStep
<1>6. RegistryStep
  BY DEF ToolsNext, RegistryStep
<1>. QED
  BY <1>1, <1>2, <1>3, <1>4, <1>5, <1>6 DEF ToolsNext, ApprovalStep

\* Every step is one that the approval manager and the registry allow.
LEMMA AgentSteps ==
    ASSUME [Next]_vars
    PROVE  ApprovalStep /\ RegistryStep
<1>1. CASE UNCHANGED vars
  BY <1>1 DEF vars, registry, ApprovalStep, ApprovalQuiet, RegistryStep, RegistryQuiet
<1>2. ASSUME NEW x, Write(x) PROVE ApprovalQuiet /\ RegistryQuiet
  BY <1>2 DEF Write, registry, ApprovalQuiet, RegistryQuiet
<1>3. ASSUME NEW m, Claim(m) PROVE ApprovalQuiet /\ RegistryQuiet
  BY <1>3 DEF Claim, registry, ApprovalQuiet, RegistryQuiet
<1>4. CASE Settle
  BY <1>4 DEF Settle, registry, ApprovalStep, ApprovalQuiet, RegistryStep, RegistryQuiet
<1>5. CASE Restart
  BY <1>5 DEF Restart, ApprovalStep, ApprovalQuiet, RegistryStep, Forgets
<1>6. CASE Tick /\ UNCHANGED <<approvals, registry, faults>> /\ Others
  BY <1>6 DEF Tick, registry, ApprovalStep, ApprovalQuiet, RegistryStep, RegistryQuiet
<1>7. ASSUME Anything PROVE ApprovalStep /\ RegistryStep
  BY <1>2, <1>3, <1>4, <1>5, <1>6, <1>7, HandleSteps, ToolsSteps
     DEF Anything, ApprovalStep, RegistryStep
<1>. QED
  BY <1>1, <1>7 DEF Next

AgentInv == ApprovalInv /\ RegistryInv /\ LogInv

\* AgentInv is inductive.
LEMMA AgentInvariant == Spec => []AgentInv
<1>1. Init => AgentInv
  BY ApprovalStarts, RegistryStarts DEF Init, AgentInv
<1>2. AgentInv /\ [Next]_vars => AgentInv'
  BY AgentSteps, ApprovalKept, RegistryKept, LogKept DEF AgentInv
<1>. QED
  BY <1>1, <1>2, PTL DEF Spec

\* Resolve and AuthorizeReceipt: nothing is used that was not approved, and both
\* happened in time, whatever is requested, decided and presented in between.
THEOREM ApprovalsAreUsedInTime == Spec => []UsedInTime
<1>1. AgentInv => UsedInTime
  BY DEF AgentInv, ApprovalInv
<1>. QED
  BY <1>1, AgentInvariant, PTL

\* Logger.Append and Verify: the chain verifies whichever appends were lost, and
\* shows every row that was taken out or replaced, but the last.
THEOREM AuditShowsTampering == Spec => []AuditIsTamperEvident
<1>1. AgentInv => AuditIsTamperEvident
  BY LogIsTamperEvident DEF AgentInv
<1>. QED
  BY <1>1, AgentInvariant, PTL

\* Resolve: what was decided, or used, stays so.
THEOREM DecisionsAreFinal == Spec => DecisionIsFinal
<1>1. AgentInv /\ [Next]_vars => [DecisionKept]_approvals
  BY AgentSteps, ApprovalKept DEF AgentInv
<1>. QED
  BY <1>1, AgentInvariant, PTL DEF Spec, DecisionIsFinal, DecisionKept

\* Registry.Execute: a handler under approval ran for a request that was approved
\* for exactly this call, and for no other; every other one because the policy
\* lets it.
THEOREM HandlersWereApproved == Spec => []RunsWereApproved
<1>1. AgentInv => RunsWereApproved
  BY CoveredRunsWereApproved DEF AgentInv
<1>. QED
  BY <1>1, AgentInvariant, PTL

(***************************************************************************)
(* Memory.  The invariant says which message Handle is working on, as far  *)
(* as its label tells, and that a reply to /remember has a memory behind   *)
(* it before it is stored.                                                 *)
(***************************************************************************)
Remembered(m) == \E n \in DOMAIN candidates : candidates[n] = [of |-> m, state |-> "approved"]

InboxTypes ==
    /\ scenario \in Scenarios
    /\ IsSequence(text) /\ IsSequence(status) /\ Len(status) = Len(text)
    /\ \A m \in DOMAIN text : text[m].kind \in Kinds

HandleInv ==
    /\ pc \in Kinds \cup {"idle", "approving", "asking", "model", "storing", "replied", "failed"}
    /\ pc # "idle" => cur \in DOMAIN text
    /\ pc \in Kinds => text[cur].kind = pc
    /\ pc \in {"asking", "model", "storing"} => text[cur].kind = "chat"
    /\ pc = "approving" =>
          /\ text[cur].kind = "remember" /\ candidates # <<>>
          /\ candidates[Len(candidates)] = [of |-> cur, state |-> "pending"]
    /\ (pc = "replied" /\ text[cur].kind = "remember") => Remembered(cur)

MemoryInv ==
    /\ IsSequence(candidates)
    /\ \A m \in DOMAIN text :
          (text[m].kind = "remember" /\ status[m] = "completed") => Remembered(m)
    /\ \A i \in DOMAIN items : /\ items[i] \in DOMAIN candidates /\ <<i, items[i]>> \in fts
                               /\ candidates[items[i]].state = "approved"

RememberInv == InboxTypes /\ HandleInv /\ MemoryInv

\* An approved candidate stays, whatever is done to the others.
LEMMA RememberedStays ==
    ASSUME NEW m, Remembered(m),
           \A n \in DOMAIN candidates : /\ n \in DOMAIN candidates'
                                        /\ candidates[n].state = "approved" =>
                                              candidates'[n] = candidates[n]
    PROVE  Remembered(m)'
BY DEF Remembered

\* The end of a step of Handle that is not about memory.
LEMMA HandlerMoves ==
    ASSUME RememberInv, UNCHANGED <<scenario, text, status, cur, candidates, items, fts>>,
           pc # "idle", text[cur].kind # "remember",
           pc' \in {"asking", "model", "storing", "replied", "failed"},
           pc' \in {"asking", "model", "storing"} => text[cur].kind = "chat"
    PROVE  RememberInv'
<1>1. InboxTypes'
  BY DEF RememberInv, InboxTypes
<1>2. MemoryInv'
  BY DEF RememberInv, MemoryInv, Remembered
<1>3. HandleInv'
  BY DEF RememberInv, HandleInv, Kinds
<1>. QED
  BY <1>1, <1>2, <1>3 DEF RememberInv

\* A step that leaves Handle and memory alone.
LEMMA NothingHandled ==
    ASSUME RememberInv, UNCHANGED <<scenario, text, status, pc, cur, candidates, items, fts>>
    PROVE  RememberInv'
<1>1. InboxTypes'
  BY DEF RememberInv, InboxTypes
<1>2. MemoryInv'
  BY DEF RememberInv, MemoryInv, Remembered
<1>3. HandleInv'
  BY DEF RememberInv, HandleInv, Remembered
<1>. QED
  BY <1>1, <1>2, <1>3 DEF RememberInv

\* A message is written.
LEMMA WriteKeeps ==
    ASSUME RememberInv, NEW x \in scenario.texts, Write(x), scenario' = scenario
    PROVE  RememberInv'
<1>1. /\ text' = Append(text, x) /\ status' = Append(status, "pending")
      /\ pc' = pc /\ cur' = cur /\ candidates' = candidates /\ items' = items /\ fts' = fts
  BY DEF Write, handleVars, memory
<1>2. IsSequence(text) /\ IsSequence(status) /\ Len(status) = Len(text)
  BY DEF RememberInv, InboxTypes
<1>3. /\ DOMAIN text = 1 .. Len(text) /\ DOMAIN text' = 1 .. Len(text) + 1 /\ Len(text) \in Nat
      /\ IsSequence(text') /\ \A n \in DOMAIN text : text'[n] = text[n]
      /\ text'[Len(text) + 1] = x
  BY <1>1, <1>2, AppendAny
<1>4. /\ DOMAIN status = 1 .. Len(text) /\ DOMAIN status' = 1 .. Len(text) + 1
      /\ IsSequence(status') /\ \A n \in DOMAIN status : status'[n] = status[n]
      /\ status'[Len(text) + 1] = "pending"
  BY <1>1, <1>2, AppendAny
<1>5. Len(text') = Len(text) + 1 /\ Len(status') = Len(text) + 1
  BY <1>3, <1>4, AppendAny
<1>6. x.kind \in Kinds
  BY TextsAssumption DEF RememberInv, InboxTypes
<1>7. InboxTypes'
  <2>1. \A m \in DOMAIN text' : m \in DOMAIN text \/ m = Len(text) + 1
    BY <1>3
  <2>. QED
    BY <1>3, <1>4, <1>5, <1>6, <2>1 DEF RememberInv, InboxTypes
<1>8. MemoryInv'
  <2>1. ASSUME NEW m \in DOMAIN text', text'[m].kind = "remember", status'[m] = "completed"
        PROVE  Remembered(m)'
    <3>1. m \in DOMAIN text /\ text'[m] = text[m] /\ status'[m] = status[m]
      BY <1>3, <1>4, <2>1
    <3>. QED
      BY <1>1, <2>1, <3>1 DEF RememberInv, MemoryInv, Remembered
  <2>. QED
    BY <1>1, <2>1 DEF RememberInv, MemoryInv
<1>9. HandleInv'
  <2>1. DOMAIN text \subseteq DOMAIN text'
    BY <1>3
  <2>2. pc # "idle" => cur \in DOMAIN text /\ text'[cur] = text[cur]
    BY <1>3 DEF RememberInv, HandleInv
  <2>. QED
    BY <1>1, <2>1, <2>2 DEF RememberInv, HandleInv, Remembered, Kinds
<1>. QED
  BY <1>7, <1>8, <1>9 DEF RememberInv

\* The inbox changes the state of a message, not to "completed" before a reply.
LEMMA StatusMoves ==
    ASSUME RememberInv, UNCHANGED <<scenario, text, candidates, items, fts>>,
           IsSequence(status'), DOMAIN status' = DOMAIN status,
           \A m \in DOMAIN status' : \/ status'[m] = status[m]
                                     \/ status'[m] # "completed"
                                     \/ text[m].kind = "remember" => Remembered(m)
    PROVE  InboxTypes' /\ MemoryInv'
<1>1. IsSequence(text) /\ IsSequence(status) /\ Len(status) = Len(text)
  BY DEF RememberInv, InboxTypes
<1>2. /\ DOMAIN text = 1 .. Len(text) /\ DOMAIN status = 1 .. Len(text)
      /\ DOMAIN status' = 1 .. Len(status') /\ Len(text) \in Nat /\ Len(status') \in Nat
  BY <1>1, AppendAny
<1>3. Len(status') = Len(text)
  BY <1>2
<1>4. InboxTypes'
  BY <1>3 DEF RememberInv, InboxTypes
<1>5. ASSUME NEW m \in DOMAIN text, text[m].kind = "remember", status'[m] = "completed"
      PROVE  Remembered(m)
  <2>1. m \in DOMAIN status'
    BY <1>2
  <2>. QED
    BY <1>5, <2>1 DEF RememberInv, MemoryInv
<1>6. MemoryInv'
  BY <1>5 DEF RememberInv, MemoryInv, Remembered
<1>. QED
  BY <1>4, <1>6

\* The worker claims a pending message.
LEMMA ClaimKeeps ==
    ASSUME RememberInv, NEW m \in DOMAIN text, Claim(m), scenario' = scenario
    PROVE  RememberInv'
<1>1. /\ status' = [status EXCEPT ![m] = "running"] /\ pc' = text[m].kind /\ cur' = m
      /\ UNCHANGED <<text, candidates, items, fts>>
  BY DEF Claim, memory
<1>2. IsSequence(text) /\ IsSequence(status) /\ Len(status) = Len(text)
  BY DEF RememberInv, InboxTypes
<1>3. m \in DOMAIN status
  BY <1>2, AppendAny
<1>4. /\ IsSequence(status') /\ DOMAIN status' = DOMAIN status /\ status'[m] = "running"
      /\ \A n \in DOMAIN status : n # m => status'[n] = status[n]
  BY <1>1, <1>2, <1>3, EditAny
<1>5. InboxTypes' /\ MemoryInv'
  BY <1>1, <1>4, StatusMoves
<1>6. text[m].kind \in Kinds
  BY DEF RememberInv, InboxTypes
<1>7. HandleInv'
  BY <1>1, <1>6 DEF HandleInv, Kinds
<1>. QED
  BY <1>5, <1>7 DEF RememberInv

\* It settles the one it has in hand.
LEMMA SettleKeeps ==
    ASSUME RememberInv, Settle, scenario' = scenario
    PROVE  RememberInv'
<1>1. /\ pc' = "idle" /\ UNCHANGED <<text, cur, candidates, items, fts>>
      /\ pc \in {"replied", "failed"}
  BY DEF Settle, memory
<1>2. PICK s : /\ status' = [status EXCEPT ![cur] = s]
               /\ s = "completed" => pc = "replied"
  <2>1. CASE pc = "replied" /\ status' = [status EXCEPT ![cur] = "completed"]
    BY <2>1
  <2>2. CASE status' = Retried
    <3>1. \/ status' = [status EXCEPT ![cur] = "dead"]
          \/ status' = [status EXCEPT ![cur] = "pending"]
      BY <2>2 DEF Retried
    <3>. QED
      BY <3>1
  <2>. QED
    BY <2>1, <2>2 DEF Settle
<1>3. IsSequence(text) /\ IsSequence(status) /\ Len(status) = Len(text)
  BY DEF RememberInv, InboxTypes
<1>4. cur \in DOMAIN text
  BY <1>1 DEF RememberInv, HandleInv
<1>5. cur \in DOMAIN status
  BY <1>3, <1>4, AppendAny
<1>6. /\ IsSequence(status') /\ DOMAIN status' = DOMAIN status /\ status'[cur] = s
      /\ \A n \in DOMAIN status : n # cur => status'[n] = status[n]
  BY <1>2, <1>3, <1>5, EditAny
<1>7. s = "completed" => (text[cur].kind = "remember" => Remembered(cur))
  BY <1>2 DEF RememberInv, HandleInv
<1>8. \A m \in DOMAIN status' : \/ status'[m] = status[m]
                                \/ status'[m] # "completed"
                                \/ text[m].kind = "remember" => Remembered(m)
  BY <1>6, <1>7
<1>9. InboxTypes' /\ MemoryInv'
  BY <1>1, <1>6, <1>8, StatusMoves
<1>10. HandleInv'
  BY <1>1 DEF HandleInv, Kinds
<1>. QED
  BY <1>9, <1>10 DEF RememberInv

\* A restart takes back what was running.
LEMMA RestartKeeps ==
    ASSUME RememberInv, Restart, scenario' = scenario
    PROVE  RememberInv'
<1>1. /\ status' = [m \in DOMAIN status |->
                       IF status[m] = "running" THEN "pending" ELSE status[m]]
      /\ pc' = "idle" /\ UNCHANGED <<text, candidates, items, fts>>
  BY DEF Restart, memory
<1>2. IsSequence(status)
  BY DEF RememberInv, InboxTypes
<1>3. IsSequence(status')
  <2>. DEFINE S == {status'[n] : n \in DOMAIN status'}
  <2>1. DOMAIN status = 1 .. Len(status) /\ Len(status) \in Nat
    BY <1>2, AppendAny
  <2>2. DOMAIN status' = DOMAIN status /\ \A n \in DOMAIN status : status'[n] \in S
    BY <1>1
  <2>3. status' = [n \in DOMAIN status |-> status'[n]]
    BY <1>1
  <2>. HIDE DEF S
  <2>4. status' \in [1 .. Len(status) -> S]
    BY <2>1, <2>2, <2>3
  <2>5. status' \in Seq(S)
    BY <2>1, <2>4
  <2>. QED
    BY <2>5 DEF IsSequence, S
<1>4. DOMAIN status' = DOMAIN status
      /\ \A m \in DOMAIN status' : status'[m] = status[m] \/ status'[m] = "pending"
  BY <1>1
<1>5. InboxTypes' /\ MemoryInv'
  BY <1>1, <1>3, <1>4, StatusMoves
<1>6. HandleInv'
  BY <1>1 DEF HandleInv, Kinds
<1>. QED
  BY <1>5, <1>6 DEF RememberInv

\* /remember inserts its candidate.
LEMMA CandidateKeeps ==
    ASSUME RememberInv, Candidate, scenario' = scenario
    PROVE  RememberInv'
<1>1. /\ pc = "remember" /\ UNCHANGED <<text, status, cur, items, fts>>
  BY DEF Candidate, Step, inboxVars
<1>2. cur \in DOMAIN text /\ text[cur].kind = "remember"
  BY <1>1 DEF RememberInv, HandleInv, Kinds
<1>3. InboxTypes'
  BY <1>1 DEF RememberInv, InboxTypes
<1>4. CASE pc' = "failed" /\ candidates' = candidates
  <2>1. MemoryInv'
    BY <1>1, <1>4 DEF RememberInv, MemoryInv, Remembered
  <2>2. HandleInv'
    BY <1>1, <1>2, <1>4 DEF HandleInv, Kinds
  <2>. QED
    BY <1>3, <2>1, <2>2 DEF RememberInv
<1>5. CASE /\ pc' = "approving"
           /\ candidates' = Append(candidates, [of |-> cur, state |-> "pending"])
  <2>1. PICK x : x = [of |-> cur, state |-> "pending"]
    OBVIOUS
  <2>2. candidates' = Append(candidates, x) /\ IsSequence(candidates)
    BY <1>5, <2>1 DEF RememberInv, MemoryInv
  <2>3. /\ IsSequence(candidates') /\ DOMAIN candidates = 1 .. Len(candidates)
        /\ DOMAIN candidates' = 1 .. Len(candidates) + 1 /\ Len(candidates) \in Nat
        /\ \A n \in DOMAIN candidates : candidates'[n] = candidates[n]
        /\ candidates'[Len(candidates) + 1] = x
    BY <2>2, AppendAny
  <2>4. Len(candidates') = Len(candidates) + 1 /\ candidates' # <<>>
    BY <2>3, AppendAny
  <2>5. DOMAIN candidates \subseteq DOMAIN candidates'
    BY <2>3
  <2>6. \A m : Remembered(m) => Remembered(m)'
    BY <2>3, <2>5, RememberedStays
  <2>7. MemoryInv'
    <3>1. \A m \in DOMAIN text' :
             (text'[m].kind = "remember" /\ status'[m] = "completed") => Remembered(m)'
      BY <1>1, <2>6 DEF RememberInv, MemoryInv
    <3>2. \A i \in DOMAIN items' : /\ items'[i] \in DOMAIN candidates' /\ <<i, items'[i]>> \in fts'
                                   /\ candidates'[items'[i]].state = "approved"
      BY <1>1, <2>3, <2>5 DEF RememberInv, MemoryInv
    <3>. QED
      BY <2>3, <3>1, <3>2 DEF MemoryInv
  <2>8. HandleInv'
    BY <1>1, <1>2, <1>5, <2>1, <2>3, <2>4 DEF HandleInv, Kinds
  <2>. QED
    BY <1>3, <2>7, <2>8 DEF RememberInv
<1>. QED
  BY <1>4, <1>5 DEF Candidate, Step

\* Memory.Approve moves it, in one transaction.
LEMMA ApproveKeeps ==
    ASSUME RememberInv, Approve, scenario' = scenario
    PROVE  RememberInv'
<1>1. pc = "approving" /\ UNCHANGED <<text, status, cur>>
  BY DEF Approve, Step, inboxVars
<1>2. /\ cur \in DOMAIN text /\ text[cur].kind = "remember" /\ candidates # <<>>
      /\ candidates[Len(candidates)] = [of |-> cur, state |-> "pending"]
      /\ IsSequence(candidates)
  BY <1>1 DEF RememberInv, HandleInv, MemoryInv
<1>3. InboxTypes'
  BY <1>1 DEF RememberInv, InboxTypes
<1>4. CASE pc' = "failed" /\ UNCHANGED memory
  <2>1. MemoryInv'
    BY <1>1, <1>4 DEF RememberInv, MemoryInv, Remembered, memory
  <2>2. HandleInv'
    BY <1>1, <1>2, <1>4 DEF HandleInv, Kinds
  <2>. QED
    BY <1>3, <2>1, <2>2 DEF RememberInv
<1>5. CASE /\ pc' = "replied"
           /\ candidates' = [candidates EXCEPT ![Len(candidates)].state = "approved"]
           /\ items' = [i \in DOMAIN items \cup {nextItem} |->
                           IF i = nextItem THEN Len(candidates) ELSE items[i]]
           /\ fts' = fts \cup {<<nextItem, Len(candidates)>>}
  <2>1. PICK k : k = Len(candidates)
    OBVIOUS
  <2>2. k \in DOMAIN candidates
    BY <1>2, <2>1, AppendAny
  <2>3. PICK x : x = [of |-> cur, state |-> "approved"]
    OBVIOUS
  <2>4. candidates' = [candidates EXCEPT ![k] = x]
    <3>1. [candidates[k] EXCEPT !.state = "approved"] = x
      BY <1>2, <2>1, <2>3
    <3>. QED
      BY <1>5, <2>1, <2>2, <3>1
  <2>5. /\ IsSequence(candidates') /\ DOMAIN candidates' = DOMAIN candidates
        /\ candidates'[k] = x
        /\ \A n \in DOMAIN candidates : n # k => candidates'[n] = candidates[n]
    BY <1>2, <2>2, <2>4, EditAny
  <2>6. x.state = "approved" /\ candidates[k].state # "approved"
    BY <1>2, <2>1, <2>3
  <2>7. \A m : Remembered(m) => Remembered(m)'
    BY <2>5, <2>6, RememberedStays
  <2>8. MemoryInv'
    <3>1. \A m \in DOMAIN text' :
             (text'[m].kind = "remember" /\ status'[m] = "completed") => Remembered(m)'
      BY <1>1, <2>7 DEF RememberInv, MemoryInv
    <3>2. ASSUME NEW i \in DOMAIN items'
          PROVE  /\ items'[i] \in DOMAIN candidates' /\ <<i, items'[i]>> \in fts'
                 /\ candidates'[items'[i]].state = "approved"
      <4>1. CASE i = nextItem
        <5>1. items'[i] = k
          BY <1>5, <2>1, <4>1
        <5>. QED
          BY <1>5, <2>2, <2>5, <2>6, <4>1, <5>1
      <4>2. CASE i # nextItem
        <5>1. i \in DOMAIN items /\ items'[i] = items[i]
          BY <1>5, <4>2
        <5>2. /\ items[i] \in DOMAIN candidates /\ <<i, items[i]>> \in fts
              /\ candidates[items[i]].state = "approved"
          BY <5>1 DEF RememberInv, MemoryInv
        <5>. QED
          BY <1>5, <2>5, <2>6, <5>1, <5>2
      <4>. QED
        BY <4>1, <4>2
    <3>. QED
      BY <2>5, <3>1, <3>2 DEF MemoryInv
  <2>9. Remembered(cur)'
    BY <1>1, <2>2, <2>3, <2>5 DEF Remembered
  <2>10. HandleInv'
    BY <1>1, <1>2, <1>5, <2>9 DEF HandleInv, Kinds
  <2>. QED
    BY <1>3, <2>8, <2>10 DEF RememberInv
<1>. QED
  BY <1>4, <1>5 DEF Approve, Step

\* /forget takes the memory and its row of the index, or leaves the row.
LEMMA ForgetKeeps ==
    ASSUME RememberInv, Forget, scenario' = scenario
    PROVE  RememberInv'
<1>1. /\ pc = "forget" /\ UNCHANGED <<text, status, cur, candidates>>
      /\ pc' \in {"replied", "failed"}
  BY DEF Forget, Step, inboxVars
<1>2. cur \in DOMAIN text /\ text[cur].kind = "forget"
  BY <1>1 DEF RememberInv, HandleInv, Kinds
<1>3. InboxTypes'
  BY <1>1 DEF RememberInv, InboxTypes
<1>4. HandleInv'
  BY <1>1, <1>2 DEF HandleInv, Kinds
<1>5. ASSUME NEW i \in DOMAIN items'
      PROVE  /\ i \in DOMAIN items /\ items'[i] = items[i]
             /\ <<i, items[i]>> \in fts => <<i, items[i]>> \in fts'
  <2>1. CASE UNCHANGED <<items, fts>>
    BY <1>5, <2>1
  <2>2. CASE Without(text[cur].arg) /\ (Unindexed(text[cur].arg) \/ fts' = fts)
    BY <1>5, <2>2 DEF Without, Unindexed
  <2>. QED
    BY <2>1, <2>2 DEF Forget
<1>6. MemoryInv'
  <2>1. IsSequence(candidates')
    BY <1>1 DEF RememberInv, MemoryInv
  <2>2. \A m \in DOMAIN text' :
           (text'[m].kind = "remember" /\ status'[m] = "completed") => Remembered(m)'
    BY <1>1 DEF RememberInv, MemoryInv, Remembered
  <2>. QED
    BY <1>1, <1>5, <2>1, <2>2 DEF RememberInv, MemoryInv
<1>. QED
  BY <1>3, <1>4, <1>6 DEF RememberInv

\* A step of Handle, whatever it is about.
LEMMA HandleKeeps ==
    ASSUME RememberInv, Handle, scenario' = scenario
    PROVE  RememberInv'
<1>1. CASE Candidate \/ Approve \/ Forget
  BY <1>1, CandidateKeeps, ApproveKeeps, ForgetKeeps
<1>2. ASSUME UNCHANGED <<text, status, cur, candidates, items, fts>>,
             \/ pc \in {"query", "stop", "approve", "deny"} /\ pc' \in {"replied", "failed"}
             \/ /\ pc \in {"chat", "asking", "model", "storing"}
                /\ pc' \in {"asking", "model", "storing", "replied", "failed"}
      PROVE  RememberInv'
  <2>1. pc # "idle"
    BY <1>2
  <2>2. pc \in Kinds => text[cur].kind = pc
    BY DEF RememberInv, HandleInv
  <2>3. pc \in {"asking", "model", "storing"} => text[cur].kind = "chat"
    BY DEF RememberInv, HandleInv
  <2>4. /\ text[cur].kind # "remember"
        /\ pc' \in {"asking", "model", "storing"} => text[cur].kind = "chat"
        /\ pc' \in {"asking", "model", "storing", "replied", "failed"}
    BY <1>2, <2>2, <2>3 DEF Kinds
  <2>. QED
    BY <1>2, <2>1, <2>4, HandlerMoves
<1>3. ASSUME NEW label \in {"replied", "failed"}, Query(label) PROVE RememberInv'
  BY <1>2, <1>3 DEF Query, Step, inboxVars, memory
<1>4. CASE Stop
  BY <1>2, <1>4 DEF Stop, Step, inboxVars, memory
<1>5. ASSUME NEW lost, Resolve(lost) PROVE RememberInv'
  BY <1>2, <1>5 DEF Resolve, Step, inboxVars, memory
<1>6. CASE Chat \/ Store
  BY <1>2, <1>6 DEF Chat, Store, Step, inboxVars, memory
<1>7. CASE Ask
  BY <1>2, <1>7 DEF Ask, Step, inboxVars, memory
<1>8. ASSUME NEW size, Answer(size) PROVE RememberInv'
  BY <1>2, <1>8 DEF Answer, Step, inboxVars, memory
<1>. QED
  BY <1>1, <1>3, <1>4, <1>5, <1>6, <1>7, <1>8 DEF Handle

\* RememberInv is inductive.
LEMMA MemoryInvariant == Spec => []RememberInv
<1>1. Init => RememberInv
  <2>1. ASSUME Init PROVE IsSequence(text) /\ IsSequence(status) /\ IsSequence(candidates)
    BY <2>1 DEF Init, IsSequence
  <2>2. ASSUME Init PROVE DOMAIN text = {} /\ Len(status) = Len(text) /\ scenario \in Scenarios
    BY <2>2 DEF Init
  <2>3. ASSUME Init PROVE DOMAIN items = {} /\ pc = "idle"
    BY <2>3 DEF Init
  <2>4. ASSUME Init PROVE InboxTypes
    BY <2>1, <2>2, <2>4 DEF InboxTypes
  <2>5. ASSUME Init PROVE MemoryInv /\ HandleInv
    BY <2>1, <2>2, <2>3, <2>5 DEF MemoryInv, HandleInv, Kinds
  <2>. QED
    BY <2>4, <2>5 DEF RememberInv
<1>2. RememberInv /\ [Next]_vars => RememberInv'
  <2>. SUFFICES ASSUME RememberInv, [Next]_vars PROVE RememberInv'
    OBVIOUS
  <2>1. CASE UNCHANGED vars
    BY <2>1, NothingHandled DEF vars, inboxVars, handleVars, memory
  <2>2. CASE Next
    <3>1. scenario' = scenario
      BY <2>2 DEF Next
    <3>2. CASE Others
      BY <3>1, <3>2, NothingHandled DEF Others, inboxVars, handleVars, memory
    <3>. QED
      BY <2>2, <3>1, <3>2, WriteKeeps, ClaimKeeps, HandleKeeps, SettleKeeps, RestartKeeps
         DEF Next, Anything
  <2>. QED
    BY <2>1, <2>2
<1>. QED
  BY <1>1, <1>2, PTL DEF Spec

(***************************************************************************)
(* The search index.  A row may outlive its memory; since ids are not used *)
(* again, it then belongs to nothing.                                      *)
(***************************************************************************)
IndexInv ==
    /\ nextItem \in Nat
    /\ \A row \in fts : /\ row[1] \in Nat /\ row[1] < nextItem
                        /\ row[1] \in DOMAIN items => items[row[1]] = row[2]

\* Approve, the only step that adds a row, takes an id that no row has.
LEMMA ApproveIndexes ==
    ASSUME IndexInv, Approve
    PROVE  IndexInv'
<1>1. CASE UNCHANGED memory
  BY <1>1 DEF IndexInv, memory
<1>2. CASE /\ items' = [i \in DOMAIN items \cup {nextItem} |->
                           IF i = nextItem THEN Len(candidates) ELSE items[i]]
           /\ fts' = fts \cup {<<nextItem, Len(candidates)>>}
           /\ nextItem' = nextItem + 1
  <2>1. PICK k : k = Len(candidates)
    OBVIOUS
  <2>2. nextItem' \in Nat
    BY <1>2 DEF IndexInv
  <2>3. ASSUME NEW row \in fts'
        PROVE  /\ row[1] \in Nat /\ row[1] < nextItem'
               /\ row[1] \in DOMAIN items' => items'[row[1]] = row[2]
    <3>1. CASE row = <<nextItem, k>>
      <4>1. row[1] = nextItem /\ row[2] = k
        BY <3>1
      <4>2. items'[nextItem] = k
        BY <1>2, <2>1
      <4>. QED
        BY <1>2, <4>1, <4>2 DEF IndexInv
    <3>2. CASE row \in fts
      <4>1. /\ row[1] \in Nat /\ row[1] < nextItem /\ nextItem \in Nat
            /\ row[1] \in DOMAIN items => items[row[1]] = row[2]
        BY <3>2 DEF IndexInv
      <4>2. row[1] # nextItem /\ row[1] < nextItem'
        BY <1>2, <4>1
      <4>. QED
        BY <1>2, <4>1, <4>2
    <3>. QED
      BY <1>2, <2>1, <2>3, <3>1, <3>2
  <2>. QED
    BY <2>2, <2>3 DEF IndexInv
<1>. QED
  BY <1>1, <1>2 DEF Approve

\* Forget only takes away.
LEMMA ForgetIndexes ==
    ASSUME IndexInv, Forget
    PROVE  IndexInv'
<1>1. nextItem' = nextItem
  BY DEF Forget
<1>2. fts' \subseteq fts
  BY DEF Forget, Unindexed
<1>3. \A i \in DOMAIN items' : i \in DOMAIN items /\ items'[i] = items[i]
  BY DEF Forget, Without
<1>4. ASSUME NEW row \in fts'
      PROVE  /\ row[1] \in Nat /\ row[1] < nextItem'
             /\ row[1] \in DOMAIN items' => items'[row[1]] = row[2]
  <2>1. /\ row[1] \in Nat /\ row[1] < nextItem
        /\ row[1] \in DOMAIN items => items[row[1]] = row[2]
    BY <1>2, <1>4 DEF IndexInv
  <2>. QED
    BY <1>1, <1>3, <2>1
<1>5. nextItem' \in Nat
  BY <1>1 DEF IndexInv
<1>. QED
  BY <1>4, <1>5 DEF IndexInv

\* IndexInv is inductive.
LEMMA IndexInvariant == Spec => []IndexInv
<1>1. Init => IndexInv
  BY DEF Init, IndexInv
<1>2. ASSUME IndexInv, [Next]_vars PROVE IndexInv'
  <2>1. CASE UNCHANGED <<items, nextItem, fts>>
    BY <1>2, <2>1 DEF IndexInv
  <2>2. CASE Approve
    BY <1>2, <2>2, ApproveIndexes
  <2>3. CASE Forget
    BY <1>2, <2>3, ForgetIndexes
  <2>4. ASSUME Candidate \/ Stop \/ Chat \/ Ask \/ Store
        PROVE  UNCHANGED <<items, nextItem, fts>>
    BY <2>4 DEF Candidate, Stop, Chat, Ask, Store, memory
  <2>5. ASSUME NEW label \in {"replied", "failed"}, Query(label)
        PROVE  UNCHANGED <<items, nextItem, fts>>
    BY <2>5 DEF Query, memory
  <2>6. ASSUME NEW lost \in BOOLEAN, Resolve(lost) PROVE UNCHANGED <<items, nextItem, fts>>
    BY <2>6 DEF Resolve, memory
  <2>7. ASSUME NEW size \in Answers, Answer(size) PROVE UNCHANGED <<items, nextItem, fts>>
    BY <2>7 DEF Answer, memory
  <2>8. CASE Handle
    BY <2>1, <2>2, <2>3, <2>4, <2>5, <2>6, <2>7, <2>8 DEF Handle
  <2>9. ASSUME NEW x, Write(x) PROVE UNCHANGED <<items, nextItem, fts>>
    BY <2>9 DEF Write, memory
  <2>10. ASSUME NEW m, Claim(m) PROVE UNCHANGED <<items, nextItem, fts>>
    BY <2>10 DEF Claim, memory
  <2>11. ASSUME Settle \/ Restart \/ Others \/ UNCHANGED vars PROVE UNCHANGED <<items, nextItem, fts>>
    BY <2>11 DEF Settle, Restart, Others, vars, memory
  <2>. QED
    BY <1>2, <2>1, <2>8, <2>9, <2>10, <2>11 DEF Next, Anything
<1>. QED
  BY <1>1, <1>2, PTL DEF Spec

\* Memory.Candidate, Approve and Forget: a completed /remember has an approved
\* memory behind it, every memory that is kept is found by the search index, and a
\* row left in the index stands for no other memory.
THEOREM MemoryIsFound == Spec => []RememberedIsFound
<1>1. RememberInv /\ IndexInv => RememberedIsFound
  BY DEF RememberInv, MemoryInv, IndexInv, RememberedIsFound, Remembered
<1>. QED
  BY <1>1, MemoryInvariant, IndexInvariant, PTL

(***************************************************************************)
(* The history.  Readable and Characters are recursive functions, so that  *)
(* what they compute is shown with a least counterexample.                 *)
(***************************************************************************)
\* A non-empty set of numbers has a least element.
LEMMA LeastElement ==
    ASSUME NEW T \in SUBSET Nat, T # {}
    PROVE  \E x \in T : \A y \in T : x <= y
<1>. DEFINE R == OpToRel(<, Nat)
<1>1. IsWellFoundedOn(R, Nat)
  BY NatLessThanWellFounded
<1>2. \A x, y \in Nat : y < x => <<y, x>> \in R
  BY DEF OpToRel
<1>. HIDE DEF R
<1>3. PICK x \in T : \A y \in T : ~(<<y, x>> \in R)
  BY <1>1, WFMin
<1>4. \A y \in T : x \in Nat /\ y \in Nat /\ ~(y < x)
  BY <1>2, <1>3
<1>. QED
  BY <1>4

\* What holds at 0 and is passed on holds everywhere up to N.
LEMMA Passes ==
    ASSUME NEW N \in Nat, NEW Good \in SUBSET (0 .. N), 0 \in Good,
           \A n \in 1 .. N : n - 1 \in Good => n \in Good
    PROVE  \A n \in 0 .. N : n \in Good
<1>. DEFINE Bad == {n \in 0 .. N : n \notin Good}
<1>1. SUFFICES ASSUME Bad # {} PROVE FALSE
  OBVIOUS
<1>2. PICK n \in Bad : \A m \in Bad : n <= m
  <2>1. Bad \in SUBSET Nat
    OBVIOUS
  <2>. HIDE DEF Bad
  <2>. QED
    BY <1>1, <2>1, LeastElement
<1>3. n \in 1 .. N /\ n - 1 \in 0 .. N /\ n - 1 \notin Bad
  BY <1>2
<1>. QED
  BY <1>3

\* f starts with b and takes the steps G[1] to G[n].
Follows(f, n, b, G) == f[0] = b /\ \A k \in 1 .. n : f[k] = G[k][f[k - 1]]

\* Recursion along 0 .. N: the function that a recursive definition chooses
\* exists.
LEMMA RecursionExists ==
    ASSUME NEW V, NEW b \in V, NEW N \in Nat, NEW G \in [1 .. N -> [V -> V]]
    PROVE  \E f \in [0 .. N -> V] : Follows(f, N, b, G)
<1>. DEFINE Good == {n \in 0 .. N : \E f \in [0 .. N -> V] : Follows(f, n, b, G)}
<1>1. 0 \in Good
  <2>. DEFINE f == [k \in 0 .. N |-> b]
  <2>1. f \in [0 .. N -> V] /\ f[0] = b /\ 1 .. 0 = {}
    OBVIOUS
  <2>. HIDE DEF f
  <2>2. Follows(f, 0, b, G)
    BY <2>1 DEF Follows
  <2>3. 0 \in 0 .. N
    OBVIOUS
  <2>. QED
    BY <2>1, <2>2, <2>3
<1>2. ASSUME NEW n \in 1 .. N, n - 1 \in Good PROVE n \in Good
  <2>1. PICK f \in [0 .. N -> V] : Follows(f, n - 1, b, G)
    BY <1>2
  <2>. DEFINE g == [f EXCEPT ![n] = G[n][f[n - 1]]]
  <2>2. G[n][f[n - 1]] \in V
    BY <1>2
  <2>3. g \in [0 .. N -> V] /\ g[n] = G[n][f[n - 1]] /\ \A k \in 0 .. n - 1 : g[k] = f[k]
    BY <1>2, <2>2
  <2>. HIDE DEF g
  <2>4. Follows(g, n, b, G)
    <3>1. g[0] = b
      BY <2>1, <2>3 DEF Follows
    <3>2. ASSUME NEW k \in 1 .. n PROVE g[k] = G[k][g[k - 1]]
      <4>1. CASE k = n
        BY <2>3, <4>1
      <4>2. CASE k # n
        <5>1. k \in 1 .. n - 1 /\ k - 1 \in 0 .. n - 1 /\ k \in 0 .. n - 1
          BY <4>2
        <5>2. f[k] = G[k][f[k - 1]]
          BY <2>1, <5>1 DEF Follows
        <5>. QED
          BY <2>3, <5>1, <5>2
      <4>. QED
        BY <4>1, <4>2
    <3>. QED
      BY <3>1, <3>2 DEF Follows
  <2>. QED
    BY <2>3, <2>4
<1>3. N \in Good
  <2>. HIDE DEF Good
  <2>1. Good \in SUBSET (0 .. N)
    BY DEF Good
  <2>2. \A n \in 0 .. N : n \in Good
    BY <1>1, <1>2, <2>1, Passes
  <2>. QED
    BY <2>2
<1>. QED
  BY <1>3

\* The lines of the session file.
Lines == [role : {"user", "assistant"}, of : Nat, size : Nat, state : {"ok", "torn", "glued"}]

\* The recursive functions behind Characters and Readable.
Sums(h) == LET sum[n \in 0 .. Len(h)] == IF n = 0 THEN 0 ELSE sum[n - 1] + h[n].size
           IN  sum
Reads(h) ==
    LET read[n \in 0 .. Len(h)] == IF n = 0 THEN <<>>
                                   ELSE IF h[n].state = "ok" THEN Append(read[n - 1], h[n])
                                   ELSE read[n - 1]
    IN  read

\* Characters counts.
LEMMA CharactersType ==
    ASSUME NEW h \in Seq(Lines)
    PROVE  Characters(h) \in Nat
<1>. DEFINE N == Len(h)
            step(f) == [n \in 0 .. N |-> IF n = 0 THEN 0 ELSE f[n - 1] + h[n].size]
            G == [n \in 1 .. N |-> [v \in Nat |-> v + h[n].size]]
<1>1. N \in Nat /\ \A n \in 1 .. N : h[n].size \in Nat
  <2>1. N \in Nat /\ \A n \in 1 .. N : h[n] \in Lines
    OBVIOUS
  <2>. QED
    BY <2>1 DEF Lines
<1>2. G \in [1 .. N -> [Nat -> Nat]] /\ \A n \in 1 .. N, v \in Nat : G[n][v] = v + h[n].size
  BY <1>1
<1>3. Sums(h) = CHOOSE f : f = step(f)
  BY DEF Sums
<1>4. Characters(h) = Sums(h)[N]
  BY DEF Characters, Sums
<1>. HIDE DEF N, G
<1>5. PICK f \in [0 .. N -> Nat] : f[0] = 0 /\ \A k \in 1 .. N : f[k] = G[k][f[k - 1]]
  <2>. DEFINE V == Nat  b == 0
  <2>1. b \in V /\ N \in Nat /\ G \in [1 .. N -> [V -> V]]
    BY <1>1, <1>2
  <2>. HIDE DEF V, b
  <2>2. \E f \in [0 .. N -> V] : Follows(f, N, b, G)
    BY <2>1, RecursionExists, Zenon
  <2>. QED
    BY <2>2 DEF V, b, Follows
<1>6. f = step(f)
  <2>1. \A n \in 0 .. N : f[n] = step(f)[n]
    <3>1. ASSUME NEW n \in 1 .. N PROVE f[n] = f[n - 1] + h[n].size
      <4>1. f[n - 1] \in Nat
        BY <1>1
      <4>. QED
        BY <1>2, <1>5, <4>1
    <3>. QED
      BY <1>1, <1>5, <3>1
  <2>. QED
    BY <2>1
<1>7. Sums(h) = step(Sums(h))
  <2>. HIDE DEF step
  <2>. QED
    BY <1>3, <1>6
<1>8. \A n \in 0 .. N : Sums(h)[n] \in Nat
  <2>. DEFINE Good == {n \in 0 .. N : Sums(h)[n] \in Nat}
  <2>1. 0 \in Good
    BY <1>1, <1>7
  <2>2. ASSUME NEW n \in 1 .. N, n - 1 \in Good PROVE n \in Good
    <3>1. Sums(h)[n - 1] \in Nat /\ h[n].size \in Nat
      BY <1>1, <2>2
    <3>2. n \in 0 .. N /\ n # 0
      BY <1>1
    <3>3. Sums(h)[n] = Sums(h)[n - 1] + h[n].size
      BY <1>7, <3>2
    <3>. QED
      BY <3>1, <3>2, <3>3
  <2>3. Good \in SUBSET (0 .. N)
    OBVIOUS
  <2>. HIDE DEF Good
  <2>4. \A n \in 0 .. N : n \in Good
    BY <1>1, <2>1, <2>2, <2>3, Passes
  <2>. QED
    BY <2>4 DEF Good
<1>. QED
  BY <1>1, <1>4, <1>8

\* Reads follows its definition.
LEMMA ReadsFacts ==
    ASSUME NEW h \in Seq(Lines)
    PROVE  /\ Readable(h) = Reads(h)[Len(h)]
           /\ Reads(h)[0] = <<>>
           /\ \A n \in 1 .. Len(h) :
                 Reads(h)[n] = IF h[n].state = "ok" THEN Append(Reads(h)[n - 1], h[n])
                               ELSE Reads(h)[n - 1]
           /\ \A n \in 0 .. Len(h) : Reads(h)[n] \in Seq(Lines)
<1>. DEFINE N == Len(h)
            L == Seq(Lines)
            step(f) == [n \in 0 .. N |-> IF n = 0 THEN <<>>
                                         ELSE IF h[n].state = "ok" THEN Append(f[n - 1], h[n])
                                         ELSE f[n - 1]]
            G == [n \in 1 .. N |-> [v \in L |-> IF h[n].state = "ok" THEN Append(v, h[n]) ELSE v]]
            b == <<>>
<1>1. N \in Nat /\ \A n \in 1 .. N : h[n] \in Lines
  OBVIOUS
<1>2. b \in L /\ \A n \in 1 .. N, v \in L : Append(v, h[n]) \in L
  BY <1>1
<1>3. Reads(h) = CHOOSE f : f = step(f)
  BY DEF Reads
<1>4. Readable(h) = Reads(h)[N]
  BY DEF Readable, Reads
<1>. HIDE DEF N, L
<1>5. /\ G \in [1 .. N -> [L -> L]]
      /\ \A n \in 1 .. N, v \in L : G[n][v] = IF h[n].state = "ok" THEN Append(v, h[n]) ELSE v
  BY <1>2
<1>. HIDE DEF G
<1>6. PICK f \in [0 .. N -> L] : f[0] = <<>> /\ \A k \in 1 .. N : f[k] = G[k][f[k - 1]]
  <2>1. b \in L /\ N \in Nat /\ G \in [1 .. N -> [L -> L]]
    BY <1>1, <1>2, <1>5
  <2>. HIDE DEF b
  <2>2. \E f \in [0 .. N -> L] : Follows(f, N, b, G)
    BY <2>1, RecursionExists, Zenon
  <2>. QED
    BY <2>2 DEF b, Follows
<1>7. f = step(f)
  <2>1. ASSUME NEW n \in 1 .. N
        PROVE  f[n] = IF h[n].state = "ok" THEN Append(f[n - 1], h[n]) ELSE f[n - 1]
    <3>1. f[n - 1] \in L
      BY <1>1
    <3>. QED
      BY <1>5, <1>6, <3>1
  <2>2. ASSUME NEW n \in 0 .. N PROVE f[n] = step(f)[n]
    <3>1. CASE n = 0
      BY <1>6, <3>1
    <3>2. CASE n # 0
      <4>1. n \in 1 .. N
        BY <1>1, <3>2
      <4>. QED
        BY <2>1, <3>2, <4>1
    <3>. QED
      BY <3>1, <3>2
  <2>. QED
    BY <2>2
<1>8. Reads(h) = step(Reads(h))
  <2>. HIDE DEF step
  <2>. QED
    BY <1>3, <1>7
<1>9. Reads(h)[0] = <<>>
  BY <1>1, <1>8
<1>10. \A n \in 1 .. N : Reads(h)[n] = IF h[n].state = "ok" THEN Append(Reads(h)[n - 1], h[n])
                                       ELSE Reads(h)[n - 1]
  <2>1. \A n \in 1 .. N : n \in 0 .. N /\ n # 0
    BY <1>1
  <2>. QED
    BY <1>8, <2>1
<1>11. \A n \in 0 .. N : Reads(h)[n] \in L
  <2>. DEFINE Good == {n \in 0 .. N : Reads(h)[n] \in L}
  <2>1. 0 \in Good
    BY <1>1, <1>2, <1>9
  <2>2. ASSUME NEW n \in 1 .. N, n - 1 \in Good PROVE n \in Good
    <3>1. Reads(h)[n - 1] \in L /\ n \in 0 .. N
      BY <1>1, <2>2
    <3>. QED
      BY <1>2, <1>10, <3>1
  <2>3. Good \in SUBSET (0 .. N)
    OBVIOUS
  <2>. HIDE DEF Good
  <2>4. \A n \in 0 .. N : n \in Good
    BY <1>1, <2>1, <2>2, <2>3, Passes
  <2>. QED
    BY <2>4 DEF Good
<1>. QED
  BY <1>4, <1>9, <1>10, <1>11 DEF N, L

\* A line at the end is read, or left out, and the lines before it are read as before.
LEMMA ReadableAppend ==
    ASSUME NEW h \in Seq(Lines), NEW x \in Lines
    PROVE  /\ Readable(h) \in Seq(Lines)
           /\ Readable(Append(h, x)) = IF x.state = "ok" THEN Append(Readable(h), x) ELSE Readable(h)
<1>. DEFINE g == Append(h, x)
            N == Len(h)
<1>1. /\ g \in Seq(Lines) /\ Len(g) = N + 1 /\ g[N + 1] = x /\ N \in Nat
      /\ \A n \in 1 .. N : g[n] = h[n]
  OBVIOUS
<1>. HIDE DEF g
<1>2. /\ Readable(h) = Reads(h)[N] /\ Reads(h)[0] = <<>>
      /\ \A n \in 1 .. N : Reads(h)[n] = IF h[n].state = "ok" THEN Append(Reads(h)[n - 1], h[n])
                                         ELSE Reads(h)[n - 1]
      /\ \A n \in 0 .. N : Reads(h)[n] \in Seq(Lines)
  BY ReadsFacts
<1>3. /\ Readable(g) = Reads(g)[N + 1] /\ Reads(g)[0] = <<>>
      /\ \A n \in 1 .. N + 1 : Reads(g)[n] = IF g[n].state = "ok" THEN Append(Reads(g)[n - 1], g[n])
                                             ELSE Reads(g)[n - 1]
  BY <1>1, ReadsFacts
<1>. HIDE DEF N
<1>4. \A n \in 0 .. N : Reads(g)[n] = Reads(h)[n]
  <2>. DEFINE Good == {n \in 0 .. N : Reads(g)[n] = Reads(h)[n]}
  <2>1. 0 \in Good
    BY <1>1, <1>2, <1>3
  <2>2. ASSUME NEW n \in 1 .. N, n - 1 \in Good PROVE n \in Good
    <3>1. Reads(g)[n - 1] = Reads(h)[n - 1] /\ n \in 0 .. N /\ n \in 1 .. N + 1
      BY <1>1, <2>2
    <3>. QED
      BY <1>1, <1>2, <1>3, <3>1
  <2>3. Good \in SUBSET (0 .. N)
    OBVIOUS
  <2>. HIDE DEF Good
  <2>4. \A n \in 0 .. N : n \in Good
    BY <1>1, <2>1, <2>2, <2>3, Passes
  <2>. QED
    BY <2>4 DEF Good
<1>5. Reads(g)[N + 1] = IF x.state = "ok" THEN Append(Reads(g)[N], x) ELSE Reads(g)[N]
  <2>1. N + 1 \in 1 .. N + 1 /\ (N + 1) - 1 = N
    BY <1>1
  <2>. QED
    BY <1>1, <1>3, <2>1
<1>6. Reads(g)[N] = Reads(h)[N] /\ Reads(h)[N] \in Seq(Lines)
  BY <1>1, <1>2, <1>4
<1>. QED
  BY <1>2, <1>3, <1>5, <1>6 DEF g

\* A file without damage is read as it is.
LEMMA ReadableAll ==
    ASSUME NEW h \in Seq(Lines), \A n \in DOMAIN h : h[n].state = "ok"
    PROVE  Readable(h) = h
<1>. DEFINE N == Len(h)
            Same(n) == Len(Reads(h)[n]) = n /\ \A k \in 1 .. n : Reads(h)[n][k] = h[k]
            Good == {n \in 0 .. N : Same(n)}
<1>1. N \in Nat /\ \A n \in 1 .. N : h[n] \in Lines /\ h[n].state = "ok"
  OBVIOUS
<1>2. /\ Readable(h) = Reads(h)[N] /\ Reads(h)[0] = <<>>
      /\ \A n \in 1 .. N : Reads(h)[n] = Append(Reads(h)[n - 1], h[n])
      /\ \A n \in 0 .. N : Reads(h)[n] \in Seq(Lines)
  BY <1>1, ReadsFacts
<1>. HIDE DEF N
<1>3. 0 \in Good
  <2>1. Len(Reads(h)[0]) = 0 /\ 1 .. 0 = {} /\ 0 \in 0 .. N
    BY <1>1, <1>2
  <2>. QED
    BY <2>1
<1>4. ASSUME NEW n \in 1 .. N, n - 1 \in Good PROVE n \in Good
  <2>. DEFINE r == Reads(h)[n - 1]  s == Reads(h)[n]
  <2>1. /\ n \in 0 .. N /\ r \in Seq(Lines) /\ Len(r) = n - 1
        /\ \A k \in 1 .. n - 1 : r[k] = h[k]
        /\ s = Append(r, h[n]) /\ h[n] \in Lines
    BY <1>1, <1>2, <1>4
  <2>. HIDE DEF r, s
  <2>2. Len(s) = n /\ \A k \in 1 .. n : s[k] = h[k]
    BY <2>1
  <2>. QED
    BY <2>1, <2>2 DEF s
<1>5. Same(N)
  <2>1. Good \in SUBSET (0 .. N)
    OBVIOUS
  <2>. HIDE DEF Good
  <2>2. \A n \in 0 .. N : n \in Good
    BY <1>1, <1>3, <1>4, <2>1, Passes
  <2>. QED
    BY <1>1, <2>2 DEF Good
<1>. DEFINE r == Reads(h)[N]
<1>6. r \in Seq(Lines) /\ Len(r) = Len(h) /\ \A k \in 1 .. Len(h) : r[k] = h[k]
  BY <1>1, <1>2, <1>5 DEF N
<1>. HIDE DEF r
<1>7. r = h
  BY <1>6
<1>. QED
  BY <1>2, <1>7 DEF r

\* The beginning of a file and its last line.
LEMMA LastLine ==
    ASSUME NEW h \in Seq(Lines), h # <<>>
    PROVE  \E front \in Seq(Lines) : \E last \in Lines :
              h = Append(front, last) /\ Len(front) = Len(h) - 1 /\ last = h[Len(h)]
<1>. DEFINE N == Len(h)
            front == [n \in 1 .. N - 1 |-> h[n]]
<1>1. N \in Nat /\ N # 0 /\ \A n \in 1 .. N : h[n] \in Lines
  OBVIOUS
<1>2. N - 1 \in Nat /\ front \in [1 .. N - 1 -> Lines]
  BY <1>1
<1>3. front \in Seq(Lines) /\ Len(front) = N - 1 /\ \A n \in 1 .. N - 1 : front[n] = h[n]
  BY <1>2
<1>. HIDE DEF front
<1>4. h[N] \in Lines
  BY <1>1
<1>. DEFINE g == Append(front, h[N])
<1>5. g \in Seq(Lines) /\ Len(g) = N /\ \A n \in 1 .. N : g[n] = h[n]
  BY <1>1, <1>3, <1>4
<1>. HIDE DEF g
<1>6. g = h
  BY <1>5
<1>. QED
  BY <1>3, <1>4, <1>6 DEF g

\* Another last line.
LEMMA OtherLast ==
    ASSUME NEW front \in Seq(Lines), NEW last \in Lines, NEW x \in Lines,
           NEW g, DOMAIN g = 1 .. Len(front) + 1, g = [n \in DOMAIN g |-> g[n]],
           \A n \in 1 .. Len(front) : g[n] = front[n], g[Len(front) + 1] = x
    PROVE  g = Append(front, x)
<1>. DEFINE N == Len(front)
            a == Append(front, x)
<1>1. N \in Nat /\ N + 1 \in Nat /\ \A n \in 1 .. N : front[n] \in Lines
  OBVIOUS
<1>2. \A n \in 1 .. N + 1 : g[n] \in Lines
  BY <1>1
<1>3. g \in [1 .. N + 1 -> Lines]
  BY <1>2
<1>4. g \in Seq(Lines) /\ Len(g) = N + 1
  BY <1>1, <1>3
<1>5. a \in Seq(Lines) /\ Len(a) = N + 1 /\ \A n \in 1 .. N + 1 : a[n] = g[n]
  BY <1>1
<1>. HIDE DEF a, N
<1>6. a = g
  BY <1>4, <1>5
<1>. QED
  BY <1>6 DEF a

\* Append, when it is not interrupted: the line is glued to what an earlier one
\* has left, or is the last line.
LEMMA WithLineFacts ==
    ASSUME NEW h \in Seq(Lines), NEW x \in Lines, x.state = "ok"
    PROVE  /\ WithLine(h, x) \in Seq(Lines) /\ ~Torn(WithLine(h, x))
           /\ Torn(h) => Readable(WithLine(h, x)) = Readable(h)
           /\ ~Torn(h) => WithLine(h, x) = Append(h, x)
<1>1. CASE Torn(h)
  <2>1. h # <<>> /\ h[Len(h)].state = "torn"
    BY <1>1 DEF Torn
  <2>2. PICK front \in Seq(Lines) : \E last \in Lines :
           h = Append(front, last) /\ Len(front) = Len(h) - 1 /\ last = h[Len(h)]
    BY <2>1, LastLine
  <2>3. PICK last \in Lines :
           h = Append(front, last) /\ Len(front) = Len(h) - 1 /\ last = h[Len(h)]
    BY <2>2
  <2>. DEFINE l1 == [last EXCEPT !.state = "glued"]
              y == [l1 EXCEPT !.size = l1.size + x.size]
              g == [h EXCEPT ![Len(h)].state = "glued", ![Len(h)].size = @ + x.size]
              N == Len(front)
  <2>4. y \in Lines /\ y.state = "glued"
    <3>1. l1 \in Lines /\ l1.state = "glued"
      BY DEF Lines
    <3>. HIDE DEF l1
    <3>2. l1.size + x.size \in Nat
      BY <3>1 DEF Lines
    <3>. QED
      BY <3>1, <3>2 DEF Lines
  <2>5. /\ Len(h) = N + 1 /\ DOMAIN h = 1 .. N + 1 /\ N \in Nat /\ h[N + 1] = last
        /\ \A n \in 1 .. N : h[n] = front[n]
    BY <2>3
  <2>6. WithLine(h, x) = g
    BY <1>1 DEF WithLine
  <2>7. /\ DOMAIN g = 1 .. N + 1 /\ g = [n \in DOMAIN g |-> g[n]]
        /\ \A n \in 1 .. N : g[n] = front[n]
        /\ g[N + 1] = y
    <3>. DEFINE h1 == [h EXCEPT ![N + 1] = l1]
    <3>1. g = [h1 EXCEPT ![N + 1] = y]
      BY <2>5
    <3>2. DOMAIN h1 = 1 .. N + 1 /\ \A n \in 1 .. N : h1[n] = front[n]
      BY <2>5
    <3>. HIDE DEF g, h1, l1, y, N
    <3>3. N \in Nat /\ N + 1 \in 1 .. N + 1 /\ \A n \in 1 .. N : n # N + 1 /\ n \in 1 .. N + 1
      BY <2>5
    <3>4. DOMAIN g = 1 .. N + 1 /\ g[N + 1] = y /\ \A n \in 1 .. N : g[n] = h1[n]
      BY <3>1, <3>2, <3>3
    <3>5. g = [n \in DOMAIN g |-> g[n]]
      BY <3>1
    <3>. QED
      BY <3>2, <3>4, <3>5
  <2>. HIDE DEF g, y
  <2>8. g = Append(front, y)
    BY <2>4, <2>7, OtherLast
  <2>9. g \in Seq(Lines) /\ g[Len(g)] = y
    BY <2>4, <2>8
  <2>10. Readable(g) = Readable(front) /\ Readable(h) = Readable(front)
    BY <2>1, <2>3, <2>4, <2>8, ReadableAppend
  <2>. QED
    BY <1>1, <2>4, <2>6, <2>9, <2>10 DEF Torn
<1>2. CASE ~Torn(h)
  <2>1. WithLine(h, x) = Append(h, x)
    BY <1>2 DEF WithLine
  <2>. DEFINE a == Append(h, x)
  <2>2. a \in Seq(Lines) /\ a[Len(a)] = x
    OBVIOUS
  <2>. HIDE DEF a
  <2>3. ~Torn(a)
    BY <2>2 DEF Torn
  <2>. QED
    BY <1>2, <2>1, <2>2, <2>3 DEF a
<1>. QED
  BY <1>1, <1>2

\* Append, when it is interrupted: the file ends in the beginning of a line.
LEMMA TornByFacts ==
    ASSUME NEW h \in Seq(Lines), NEW x \in Lines
    PROVE  /\ TornBy(h, x) \in Seq(Lines) /\ Torn(TornBy(h, x))
           /\ Readable(TornBy(h, x)) = Readable(h)
<1>. DEFINE y == [x EXCEPT !.size = 1, !.state = "torn"]
<1>1. CASE Torn(h)
  BY <1>1 DEF TornBy
<1>2. CASE ~Torn(h)
  <2>1. TornBy(h, x) = Append(h, y)
    BY <1>2 DEF TornBy
  <2>2. y \in Lines /\ y.state = "torn"
    BY DEF Lines
  <2>. HIDE DEF y
  <2>. DEFINE a == Append(h, y)
  <2>3. a \in Seq(Lines) /\ a[Len(a)] = y /\ a # <<>>
    BY <2>2
  <2>4. Readable(a) = Readable(h)
    BY <2>2, ReadableAppend
  <2>. HIDE DEF a
  <2>. QED
    BY <2>1, <2>2, <2>3, <2>4 DEF Torn, a
<1>. QED
  BY <1>1, <1>2

\* LastOf and SubSeq take lines from the file.
LEMMA PartOfFile ==
    ASSUME NEW h \in Seq(Lines), NEW x \in Lines
    PROVE  /\ LastOf(h, Window) \in Seq(Lines)
           /\ \A n \in DOMAIN h : SubSeq(h, 1, n - 1) \in Seq(Lines)
           /\ \A n \in DOMAIN h : SubSeq(Append(h, x), 1, n - 1) = SubSeq(h, 1, n - 1)
           /\ SubSeq(Append(h, x), 1, Len(h)) = h
<1>. DEFINE N == Len(h)
            a == Append(h, x)
<1>1. /\ N \in Nat /\ DOMAIN h = 1 .. N /\ Window \in Nat /\ Window # 0
      /\ \A n \in 1 .. N : h[n] \in Lines
  BY LimitsAssumption
<1>2. a \in Seq(Lines) /\ Len(a) = N + 1 /\ \A n \in 1 .. N : a[n] = h[n]
  OBVIOUS
<1>. HIDE DEF a
<1>3. LastOf(h, Window) \in Seq(Lines)
  BY <1>1 DEF LastOf
<1>4. ASSUME NEW m \in 0 .. N
      PROVE  /\ SubSeq(h, 1, m) \in Seq(Lines) /\ Len(SubSeq(h, 1, m)) = m
             /\ \A i \in 1 .. m : SubSeq(h, 1, m)[i] = h[i]
  BY <1>1
<1>5. ASSUME NEW m \in 0 .. N
      PROVE  /\ SubSeq(a, 1, m) \in Seq(Lines) /\ Len(SubSeq(a, 1, m)) = m
             /\ \A i \in 1 .. m : SubSeq(a, 1, m)[i] = h[i]
  BY <1>1, <1>2
<1>6. ASSUME NEW m \in 0 .. N PROVE SubSeq(a, 1, m) = SubSeq(h, 1, m)
  <2>. DEFINE s == SubSeq(a, 1, m)  t == SubSeq(h, 1, m)
  <2>1. s \in Seq(Lines) /\ t \in Seq(Lines) /\ Len(s) = Len(t) /\ \A i \in 1 .. Len(s) : s[i] = t[i]
    BY <1>4, <1>5
  <2>. HIDE DEF s, t
  <2>2. s = t
    BY <2>1
  <2>. QED
    BY <2>2 DEF s, t
<1>7. SubSeq(a, 1, N) = h
  <2>. DEFINE s == SubSeq(a, 1, N)
  <2>1. s \in Seq(Lines) /\ Len(s) = Len(h) /\ \A i \in 1 .. Len(s) : s[i] = h[i]
    BY <1>1, <1>5
  <2>. HIDE DEF s
  <2>2. s = h
    BY <2>1
  <2>. QED
    BY <2>2 DEF s
<1>8. \A n \in DOMAIN h : n - 1 \in 0 .. N
  BY <1>1
<1>. QED
  BY <1>3, <1>4, <1>6, <1>7, <1>8 DEF a

(***************************************************************************)
(* The request budget.                                                     *)
(***************************************************************************)
\* What a text uses: tokens and money, nothing else.
LEMMA UseFacts ==
    ASSUME NEW c \in Nat, NEW p \in Nat
    PROVE  TextUse(c, p) \in [Meters -> Nat] /\ TextUse(c, p)["ModelSteps"] = 0
<1>. DEFINE tokens == estimatedTokens(c)
            cost == TokenCostUSD(tokens, p)
<1>1. tokens \in Nat
  BY DEF estimatedTokens
<1>. HIDE DEF tokens
<1>2. cost \in Nat
  <2>1. tokens * p \in Nat
    BY <1>1
  <2>. QED
    BY <2>1 DEF TokenCostUSD
<1>. HIDE DEF cost
<1>3. TextUse(c, p) = Plus(Using("Tokens", tokens), Using("CostUSD", cost))
  BY DEF TextUse, tokens, cost
<1>4. /\ Using("Tokens", tokens) \in [Meters -> Nat] /\ Using("CostUSD", cost) \in [Meters -> Nat]
      /\ Using("Tokens", tokens)["ModelSteps"] = 0 /\ Using("CostUSD", cost)["ModelSteps"] = 0
  BY <1>1, <1>2 DEF Using, NothingUsed, Meters
<1>. HIDE DEF tokens, cost
<1>5. "ModelSteps" \in Meters
  BY DEF Meters
<1>. QED
  BY <1>3, <1>4, <1>5 DEF Plus

\* What a request has used when the model is asked with c characters.
AskedWith(c) == Plus(NothingUsed, Plus(Using("ModelSteps", 1), TextUse(c, InputPrice)))

\* An answer that such a request can pay for is paid for with its history.
LEMMA PaidTogether ==
    ASSUME NEW c \in Nat, NEW size \in Nat,
           Affordable(Limits, AskedWith(c), TextUse(size, OutputPrice))
    PROVE  Affordable(Limits, TextUse(c, InputPrice), TextUse(size, OutputPrice))
<1>. DEFINE in == TextUse(c, InputPrice)
            out == TextUse(size, OutputPrice)
            one == Using("ModelSteps", 1)
<1>1. in \in [Meters -> Nat] /\ out \in [Meters -> Nat]
  BY TextsAssumption, UseFacts
<1>2. one \in [Meters -> Nat]
  BY DEF Using, NothingUsed, Meters
<1>. HIDE DEF in, out, one
<1>3. ASSUME NEW m \in Meters PROVE in[m] + out[m] <= Limits[m]
  <2>1. /\ in[m] \in Nat /\ out[m] \in Nat /\ one[m] \in Nat /\ Limits[m] \in Int
    BY <1>1, <1>2, LimitsAssumption
  <2>2. AskedWith(c)[m] = 0 + (one[m] + in[m])
    BY DEF AskedWith, Plus, NothingUsed, one, in
  <2>3. AskedWith(c)[m] + out[m] <= Limits[m]
    BY DEF Affordable, Plus, out
  <2>. QED
    BY <2>1, <2>2, <2>3
<1>. QED
  BY <1>3 DEF Affordable, Plus, in, out

(***************************************************************************)
(* The session file and the request.  Two lines are lost for a write that  *)
(* failed, one of them only when the next line is glued to the torn one.   *)
(***************************************************************************)
HistoryTypes ==
    /\ history \in Seq(Lines) /\ appends \in Nat /\ answer \in Nat
    /\ faults \in Nat /\ scenario.faults \in Nat /\ faults <= scenario.faults
    /\ \A m \in DOMAIN text : text[m].arg \in Nat

LinesLost == appends - Len(Readable(history)) + (IF Torn(history) THEN 1 ELSE 0) <= 2 * Failures

PaidAnswers(h) ==
    \A n \in DOMAIN h : h[n].role = "assistant" =>
        Affordable(Limits, TextUse(Characters(LastOf(SubSeq(h, 1, n - 1), Window)), InputPrice),
                           TextUse(h[n].size, OutputPrice))

\* Without a failure.
Undisturbed ==
    /\ \A n \in DOMAIN history : history[n].state = "ok"
    /\ pc \in {"asking", "model"} =>
          /\ history # <<>> /\ history[Len(history)].of = cur
          /\ history[Len(history)].role = "user"
    /\ pc \in {"chat", "asking"} => spent = NothingUsed
    /\ pc = "model" => spent = AskedWith(Characters(LastOf(history, Window)))
    /\ pc = "storing" =>
          Affordable(Limits, TextUse(Characters(LastOf(history, Window)), InputPrice),
                             TextUse(answer, OutputPrice))
    /\ PaidAnswers(history)

HistoryInv == HistoryTypes /\ LinesLost /\ (Failures = 0 => Undisturbed)

\* The number of failures does not go down, and while it is zero nothing has failed.
LEMMA FailuresGrow ==
    ASSUME HistoryTypes, scenario' = scenario, faults' \in Nat, faults' \in {faults, faults - 1}
    PROVE  /\ Failures \in Nat /\ Failures' \in Nat /\ Failures <= Failures'
           /\ faults' <= scenario.faults
           /\ faults' = faults => Failures' = Failures
           /\ faults' # faults => Failures' = Failures + 1
BY DEF HistoryTypes, Failures

\* A step that leaves the session file alone and does not go on with a chat.
LEMMA FileUnchanged ==
    ASSUME HistoryInv, history' = history, appends' = appends, scenario' = scenario,
           faults' \in Nat, faults' \in {faults, faults - 1}, answer' \in Nat,
           \A m \in DOMAIN text' : text'[m].arg \in Nat,
           \/ UNCHANGED <<pc, cur, spent, answer>>
           \/ pc' \notin {"asking", "model", "storing"} /\ (pc' = "chat" => spent' = NothingUsed)
    PROVE  HistoryInv'
<1>1. HistoryTypes /\ LinesLost /\ (Failures = 0 => Undisturbed)
  BY DEF HistoryInv
<1>2. HistoryTypes'
  BY <1>1, FailuresGrow DEF HistoryTypes
<1>3. LinesLost'
  <2>. DEFINE lost == appends - Len(Readable(history)) + (IF Torn(history) THEN 1 ELSE 0)
  <2>1. lost \in Int
    <3>1. history \in Seq(Lines) /\ appends \in Nat
      BY <1>1 DEF HistoryTypes
    <3>2. Readable(history) \in Seq(Lines)
      BY <3>1, ReadsFacts
    <3>3. Len(Readable(history)) \in Nat
      BY <3>2
    <3>. QED
      BY <3>1, <3>3
  <2>2. lost <= 2 * Failures
    BY <1>1 DEF LinesLost
  <2>3. LinesLost' <=> lost <= 2 * Failures'
    BY DEF LinesLost, Readable, Torn
  <2>. HIDE DEF lost
  <2>4. Failures \in Nat /\ Failures' \in Nat /\ Failures <= Failures'
    BY <1>1, FailuresGrow
  <2>5. \A l \in Int, f, g \in Nat : l <= 2 * f /\ f <= g => l <= 2 * g
    OBVIOUS
  <2>6. lost <= 2 * Failures'
    BY <2>1, <2>2, <2>4, <2>5
  <2>. QED
    BY <2>3, <2>6
<1>4. ASSUME Failures' = 0 PROVE Undisturbed'
  <2>1. Undisturbed
    BY <1>1, <1>4, FailuresGrow
  <2>2. PaidAnswers(history)'
    BY <2>1 DEF Undisturbed, PaidAnswers
  <2>3. CASE UNCHANGED <<pc, cur, spent, answer>>
    BY <2>1, <2>2, <2>3 DEF Undisturbed
  <2>4. CASE pc' \notin {"asking", "model", "storing"} /\ (pc' = "chat" => spent' = NothingUsed)
    BY <2>1, <2>2, <2>4 DEF Undisturbed
  <2>. QED
    BY <2>3, <2>4
<1>. QED
  BY <1>2, <1>3, <1>4 DEF HistoryInv

\* Append, whatever becomes of it.
LEMMA LineAppended ==
    ASSUME HistoryInv, NEW x \in Lines, x.state = "ok", AppendLine(x), scenario' = scenario
    PROVE  /\ history' \in Seq(Lines) /\ appends' \in Nat
           /\ faults' \in Nat /\ faults' <= scenario.faults
           /\ LinesLost'
           /\ Failures' = 0 => /\ Undisturbed
                               /\ history' = Append(history, x)
                               /\ \A n \in DOMAIN history' : history'[n].state = "ok"
<1>1. HistoryTypes /\ LinesLost /\ (Failures = 0 => Undisturbed)
  BY DEF HistoryInv
<1>2. /\ history \in Seq(Lines) /\ appends \in Nat /\ appends' = appends + 1
      /\ faults \in Nat /\ Readable(history) \in Seq(Lines)
  BY <1>1, ReadsFacts DEF HistoryTypes, AppendLine
<1>. DEFINE R == Len(Readable(history))
            t == IF Torn(history) THEN 1 ELSE 0
            F == Failures
<1>3. R \in Nat /\ t \in {0, 1} /\ appends - R + t <= 2 * F
  BY <1>1, <1>2 DEF LinesLost
<1>4. CASE NoFault /\ history' = WithLine(history, x)
  <2>1. faults' = faults /\ faults' \in Nat
    BY <1>2, <1>4 DEF NoFault
  <2>2. F \in Nat /\ Failures' = F /\ faults' <= scenario.faults
    BY <1>1, <2>1, FailuresGrow
  <2>3. history' \in Seq(Lines) /\ ~Torn(history')
    BY <1>2, <1>4, WithLineFacts
  <2>4. CASE Torn(history)
    <3>1. Readable(history') = Readable(history)
      BY <1>2, <1>4, <2>4, WithLineFacts
    <3>2. LinesLost' <=> appends' - R + 0 <= 2 * F
      BY <2>2, <2>3, <3>1 DEF LinesLost
    <3>3. LinesLost'
      <4>1. t = 1
        BY <2>4
      <4>. HIDE DEF R, t, F
      <4>. QED
        BY <1>2, <1>3, <2>2, <3>2, <4>1
    <3>4. F # 0
      <4>. SUFFICES ASSUME F = 0 PROVE FALSE
        OBVIOUS
      <4>1. history # <<>> /\ history[Len(history)].state = "torn"
        BY <2>4 DEF Torn
      <4>2. Len(history) \in DOMAIN history
        BY <1>2, <4>1
      <4>. QED
        BY <1>1, <4>1, <4>2 DEF Undisturbed
    <3>. QED
      BY <1>2, <2>1, <2>2, <2>3, <3>3, <3>4
  <2>5. CASE ~Torn(history)
    <3>1. history' = Append(history, x)
      BY <1>2, <1>4, <2>5, WithLineFacts
    <3>2. Readable(history') = Append(Readable(history), x)
      BY <1>2, <3>1, ReadableAppend
    <3>3. Len(Readable(history')) = R + 1
      BY <1>2, <3>2
    <3>4. LinesLost' <=> appends' - (R + 1) + 0 <= 2 * F
      BY <2>2, <2>3, <3>3 DEF LinesLost
    <3>5. LinesLost'
      <4>1. t = 0
        BY <2>5
      <4>. HIDE DEF R, t, F
      <4>. QED
        BY <1>2, <1>3, <2>2, <3>4, <4>1
    <3>6. ASSUME F = 0 PROVE \A n \in DOMAIN history' : history'[n].state = "ok"
      <4>1. \A n \in DOMAIN history : history[n].state = "ok"
        BY <1>1, <3>6 DEF Undisturbed
      <4>2. \A n \in DOMAIN history' : \/ n \in DOMAIN history /\ history'[n] = history[n]
                                       \/ history'[n] = x
        BY <1>2, <3>1
      <4>. QED
        BY <4>1, <4>2
    <3>. QED
      BY <1>1, <1>2, <2>1, <2>2, <2>3, <3>1, <3>5, <3>6
  <2>. QED
    BY <2>4, <2>5
<1>5. CASE Fault /\ history' \in {history, TornBy(history, x)}
  <2>1. faults' = faults - 1 /\ faults' \in Nat /\ faults' # faults
    BY <1>2, <1>5 DEF Fault
  <2>2. F \in Nat /\ Failures' = F + 1 /\ faults' <= scenario.faults
    BY <1>1, <2>1, FailuresGrow
  <2>3. history' \in Seq(Lines) /\ Readable(history') = Readable(history)
    BY <1>2, <1>5, TornByFacts
  <2>. DEFINE u == IF Torn(history') THEN 1 ELSE 0
  <2>4. LinesLost' <=> appends' - R + u <= 2 * (F + 1)
    BY <2>2, <2>3 DEF LinesLost
  <2>5. u \in {0, 1}
    OBVIOUS
  <2>. HIDE DEF R, t, u, F
  <2>6. LinesLost'
    <3>1. appends' - R + u <= 2 * (F + 1)
      BY <1>2, <1>3, <2>2, <2>5
    <3>. QED
      BY <2>4, <3>1
  <2>7. Failures' # 0
    BY <2>2
  <2>. QED
    BY <1>2, <2>1, <2>2, <2>3, <2>6, <2>7
<1>. QED
  BY <1>4, <1>5 DEF AppendLine

\* The message that Handle works on.
LEMMA CurrentMessage ==
    ASSUME RememberInv, HistoryTypes, pc # "idle"
    PROVE  cur \in DOMAIN text /\ cur \in Nat /\ text[cur].arg \in Nat
<1>1. cur \in DOMAIN text /\ IsSequence(text)
  BY DEF RememberInv, HandleInv, InboxTypes
<1>2. DOMAIN text = 1 .. Len(text)
  BY <1>1, AppendAny
<1>. QED
  BY <1>1, <1>2 DEF HistoryTypes

\* The answers that were there stay paid for when a line is added.
LEMMA PaidBefore ==
    ASSUME NEW h \in Seq(Lines), NEW x \in Lines, PaidAnswers(h),
           x.role = "assistant" =>
              Affordable(Limits, TextUse(Characters(LastOf(h, Window)), InputPrice),
                                 TextUse(x.size, OutputPrice))
    PROVE  PaidAnswers(Append(h, x))
<1>. DEFINE a == Append(h, x)
<1>1. SUFFICES ASSUME NEW n \in DOMAIN a, a[n].role = "assistant"
               PROVE  Affordable(Limits, TextUse(Characters(LastOf(SubSeq(a, 1, n - 1), Window)), InputPrice),
                                         TextUse(a[n].size, OutputPrice))
  BY DEF PaidAnswers
<1>2. \/ n \in DOMAIN h /\ a[n] = h[n]
      \/ n - 1 = Len(h) /\ a[n] = x
  OBVIOUS
<1>3. CASE n \in DOMAIN h /\ a[n] = h[n]
  <2>1. SubSeq(a, 1, n - 1) = SubSeq(h, 1, n - 1)
    BY <1>3, PartOfFile
  <2>. HIDE DEF a
  <2>. QED
    BY <1>1, <1>3, <2>1 DEF PaidAnswers
<1>4. CASE n - 1 = Len(h) /\ a[n] = x
  <2>1. SubSeq(a, 1, n - 1) = h
    BY <1>4, PartOfFile
  <2>. HIDE DEF a
  <2>. QED
    BY <1>1, <1>4, <2>1
<1>. QED
  BY <1>2, <1>3, <1>4

\* Handle writes the owner's message into the session file.
LEMMA ChatKeeps ==
    ASSUME HistoryInv, RememberInv, Chat, scenario' = scenario
    PROVE  HistoryInv'
<1>. DEFINE x == Line("user", text[cur].arg)
<1>1. /\ pc = "chat" /\ pc' = "asking" /\ cur' = cur /\ text' = text /\ answer' = answer
      /\ spent' = spent /\ AppendLine(x)
  BY DEF Chat, Step, Quiet, inboxVars
<1>2. HistoryTypes /\ cur \in Nat /\ text[cur].arg \in Nat
  BY <1>1, CurrentMessage DEF HistoryInv
<1>3. x \in Lines /\ x.state = "ok" /\ x.of = cur /\ x.role = "user"
  BY <1>2 DEF Line, Lines
<1>. HIDE DEF x
<1>4. /\ history' \in Seq(Lines) /\ appends' \in Nat
      /\ faults' \in Nat /\ faults' <= scenario.faults /\ LinesLost'
      /\ Failures' = 0 => /\ Undisturbed
                          /\ history' = Append(history, x)
                          /\ \A n \in DOMAIN history' : history'[n].state = "ok"
  BY <1>1, <1>3, LineAppended
<1>5. HistoryTypes'
  BY <1>1, <1>2, <1>4 DEF HistoryTypes
<1>6. ASSUME Failures' = 0 PROVE Undisturbed'
  <2>1. Undisturbed /\ history' = Append(history, x) /\ history \in Seq(Lines)
    BY <1>2, <1>4, <1>6 DEF HistoryTypes
  <2>2. history' # <<>> /\ history'[Len(history')] = x
    BY <1>3, <2>1
  <2>3. PaidAnswers(Append(history, x))
    BY <1>3, <2>1, PaidBefore DEF Undisturbed
  <2>4. PaidAnswers(history')
    BY <2>1, <2>3
  <2>5. PaidAnswers(history)'
    BY <2>4 DEF PaidAnswers
  <2>. QED
    BY <1>1, <1>3, <1>4, <1>6, <2>1, <2>2, <2>5 DEF Undisturbed
<1>. QED
  BY <1>4, <1>5, <1>6 DEF HistoryInv

\* Handle writes the answer into the session file.
LEMMA StoreKeeps ==
    ASSUME HistoryInv, RememberInv, Store, scenario' = scenario
    PROVE  HistoryInv'
<1>. DEFINE x == Line("assistant", answer)
<1>1. /\ pc = "storing" /\ pc' = "replied" /\ cur' = cur /\ text' = text /\ answer' = answer
      /\ spent' = spent /\ AppendLine(x)
  BY DEF Store, Step, Quiet, inboxVars
<1>2. HistoryTypes /\ cur \in Nat /\ answer \in Nat
  BY <1>1, CurrentMessage DEF HistoryInv, HistoryTypes
<1>3. x \in Lines /\ x.state = "ok" /\ x.role = "assistant" /\ x.size = answer
  BY <1>2 DEF Line, Lines
<1>. HIDE DEF x
<1>4. /\ history' \in Seq(Lines) /\ appends' \in Nat
      /\ faults' \in Nat /\ faults' <= scenario.faults /\ LinesLost'
      /\ Failures' = 0 => /\ Undisturbed
                          /\ history' = Append(history, x)
                          /\ \A n \in DOMAIN history' : history'[n].state = "ok"
  BY <1>1, <1>3, LineAppended
<1>5. HistoryTypes'
  BY <1>1, <1>2, <1>4 DEF HistoryTypes
<1>6. ASSUME Failures' = 0 PROVE Undisturbed'
  <2>1. Undisturbed /\ history' = Append(history, x) /\ history \in Seq(Lines)
    BY <1>2, <1>4, <1>6 DEF HistoryTypes
  <2>2. Affordable(Limits, TextUse(Characters(LastOf(history, Window)), InputPrice),
                           TextUse(x.size, OutputPrice))
    BY <1>1, <1>3, <2>1 DEF Undisturbed
  <2>3. PaidAnswers(Append(history, x))
    BY <1>3, <2>1, <2>2, PaidBefore DEF Undisturbed
  <2>4. PaidAnswers(history')
    BY <2>1, <2>3
  <2>5. PaidAnswers(history)'
    BY <2>4 DEF PaidAnswers
  <2>. QED
    BY <1>1, <1>4, <1>6, <2>5 DEF Undisturbed
<1>. QED
  BY <1>4, <1>5, <1>6 DEF HistoryInv

\* A step of Handle between the two, in which nothing fails.
LEMMA RequestMoves ==
    ASSUME HistoryInv, UNCHANGED <<history, appends, scenario, faults, text, cur>>,
           answer' \in Nat,
           \/ pc' \in {"replied", "failed"}
           \/ /\ pc = "asking" /\ pc' = "model"
              /\ spent' = Plus(spent, Plus(Using("ModelSteps", 1),
                                           TextUse(Characters(Recent), InputPrice)))
           \/ /\ pc = "model" /\ pc' = "storing"
              /\ Affordable(Limits, spent, TextUse(answer', OutputPrice))
    PROVE  HistoryInv'
<1>1. HistoryTypes /\ LinesLost /\ (Failures = 0 => Undisturbed)
  BY DEF HistoryInv
<1>2. HistoryTypes'
  BY <1>1 DEF HistoryTypes
<1>3. LinesLost' /\ Failures' = Failures
  BY <1>1 DEF LinesLost, Failures, Readable, Torn
<1>4. ASSUME Failures = 0 PROVE Undisturbed'
  <2>1. Undisturbed /\ history \in Seq(Lines)
    BY <1>1, <1>4 DEF HistoryTypes
  <2>2. Recent = LastOf(history, Window)
    <3>1. Readable(history) = history
      BY <2>1, ReadableAll DEF Undisturbed
    <3>. QED
      BY <3>1 DEF Recent
  <2>. DEFINE c == Characters(LastOf(history, Window))
  <2>3. c \in Nat
    <3>1. LastOf(history, Window) \in Seq(Lines)
      <4>1. \A x \in Lines : LastOf(history, Window) \in Seq(Lines)
        BY <2>1, PartOfFile
      <4>2. [role |-> "user", of |-> 0, size |-> 0, state |-> "ok"] \in Lines
        BY DEF Lines
      <4>. QED
        BY <4>1, <4>2
    <3>. QED
      BY <3>1, CharactersType
  <2>4. /\ \A n \in DOMAIN history' : history'[n].state = "ok"
        /\ PaidAnswers(history)'
    BY <2>1 DEF Undisturbed, PaidAnswers
  <2>5. CASE pc' \in {"replied", "failed"}
    BY <2>4, <2>5 DEF Undisturbed
  <2>6. CASE /\ pc = "asking" /\ pc' = "model"
             /\ spent' = Plus(spent, Plus(Using("ModelSteps", 1),
                                          TextUse(Characters(Recent), InputPrice)))
    <3>1. spent' = AskedWith(c)
      BY <2>1, <2>2, <2>6 DEF Undisturbed, AskedWith
    <3>2. AskedWith(c)' = AskedWith(c)
      BY DEF AskedWith
    <3>. QED
      BY <2>1, <2>4, <2>6, <3>1 DEF Undisturbed
  <2>7. CASE /\ pc = "model" /\ pc' = "storing"
             /\ Affordable(Limits, spent, TextUse(answer', OutputPrice))
    <3>1. Affordable(Limits, AskedWith(c), TextUse(answer', OutputPrice))
      BY <2>1, <2>7 DEF Undisturbed
    <3>. HIDE DEF c
    <3>2. Affordable(Limits, TextUse(c, InputPrice), TextUse(answer', OutputPrice))
      BY <2>3, <3>1, PaidTogether
    <3>. QED
      BY <2>4, <2>7, <3>2 DEF Undisturbed, c
  <2>. QED
    BY <2>5, <2>6, <2>7
<1>. QED
  BY <1>2, <1>3, <1>4 DEF HistoryInv

\* A step of Handle.
LEMMA HandleKeepsHistory ==
    ASSUME HistoryInv, RememberInv, Handle, scenario' = scenario
    PROVE  HistoryInv'
<1>1. HistoryTypes
  BY DEF HistoryInv
<1>2. ASSUME UNCHANGED <<history, appends, text, answer>>,
             faults' = faults \/ Fault, pc' \in {"replied", "failed", "approving"}
      PROVE  HistoryInv'
  <2>1. /\ faults' \in Nat /\ faults' \in {faults, faults - 1} /\ answer' \in Nat
        /\ \A m \in DOMAIN text' : text'[m].arg \in Nat
    BY <1>1, <1>2 DEF HistoryTypes, Fault
  <2>. QED
    BY <1>2, <2>1, FileUnchanged
<1>3. ASSUME NEW label \in {"replied", "failed"}, Query(label) PROVE HistoryInv'
  BY <1>2, <1>3 DEF Query, Step, Quiet, inboxVars, session
<1>4. CASE Stop
  BY <1>2, <1>4 DEF Stop, Step, inboxVars, session
<1>5. CASE Candidate
  BY <1>2, <1>5 DEF Candidate, Step, Quiet, NoFault, inboxVars, session
<1>6. CASE Approve
  BY <1>2, <1>6 DEF Approve, Step, Quiet, NoFault, inboxVars, session
<1>7. CASE Forget
  BY <1>2, <1>7 DEF Forget, Step, Quiet, NoFault, inboxVars, session
<1>8. ASSUME NEW lost \in BOOLEAN, Resolve(lost) PROVE HistoryInv'
  <2>1. faults' = faults \/ Fault
    BY <1>8 DEF Resolve, MayLose, NoFault
  <2>. QED
    BY <1>2, <1>8, <2>1 DEF Resolve, Step, Quiet, inboxVars, session
<1>9. CASE Ask
  <2>1. UNCHANGED <<history, appends, scenario, faults, text, cur, answer>>
    BY <1>9 DEF Ask, Step, inboxVars, session
  <2>2. \/ pc' \in {"replied", "failed"}
        \/ /\ pc = "asking" /\ pc' = "model"
           /\ spent' = Plus(spent, Plus(Using("ModelSteps", 1),
                                        TextUse(Characters(Recent), InputPrice)))
    BY <1>9 DEF Ask, Step
  <2>3. answer' \in Nat
    BY <1>1, <2>1 DEF HistoryTypes
  <2>. QED
    BY <2>1, <2>2, <2>3, RequestMoves
<1>10. ASSUME NEW size \in Answers, Answer(size) PROVE HistoryInv'
  <2>1. UNCHANGED <<history, appends, scenario, faults, text, cur>> /\ answer' = size
    BY <1>10 DEF Answer, Step, inboxVars, session
  <2>2. \/ pc' \in {"replied", "failed"}
        \/ /\ pc = "model" /\ pc' = "storing"
           /\ Affordable(Limits, spent, TextUse(answer', OutputPrice))
    BY <1>10, <2>1 DEF Answer, Step
  <2>3. answer' \in Nat
    BY <2>1, TextsAssumption
  <2>. QED
    BY <2>1, <2>2, <2>3, RequestMoves
<1>. QED
  BY <1>3, <1>4, <1>5, <1>6, <1>7, <1>8, <1>9, <1>10, ChatKeeps, StoreKeeps DEF Handle

\* HistoryInv is inductive, given what RememberInv says of the current message.
LEMMA HistoryInvariant == Spec => []HistoryInv
<1>1. Init => HistoryInv
  <2>. SUFFICES ASSUME Init PROVE HistoryInv
    OBVIOUS
  <2>1. /\ history = <<>> /\ appends = 0 /\ answer = 0 /\ faults = scenario.faults
        /\ scenario \in Scenarios /\ text = <<>> /\ pc = "idle"
    BY DEF Init
  <2>2. scenario.faults \in Nat /\ DOMAIN text = {} /\ DOMAIN history = {} /\ history \in Seq(Lines)
    BY <2>1, TextsAssumption
  <2>3. HistoryTypes
    BY <2>1, <2>2 DEF HistoryTypes
  <2>4. Failures = 0
    BY <2>1, <2>2 DEF Failures
  <2>5. Readable(history) = <<>> /\ ~Torn(history)
    BY <2>1, <2>2, ReadableAll DEF Torn
  <2>6. LinesLost
    BY <2>1, <2>4, <2>5 DEF LinesLost
  <2>7. Undisturbed
    BY <2>1, <2>2 DEF Undisturbed, PaidAnswers
  <2>. QED
    BY <2>3, <2>6, <2>7 DEF HistoryInv
<1>2. RememberInv /\ HistoryInv /\ [Next]_vars => HistoryInv'
  <2>. SUFFICES ASSUME RememberInv, HistoryInv, [Next]_vars PROVE HistoryInv'
    OBVIOUS
  <2>1. HistoryTypes
    BY DEF HistoryInv
  <2>2. ASSUME history' = history, appends' = appends, scenario' = scenario, answer' \in Nat,
               faults' = faults \/ Fault, \A m \in DOMAIN text' : text'[m].arg \in Nat,
               \/ UNCHANGED <<pc, cur, spent, answer>>
               \/ /\ pc' \notin {"asking", "model", "storing"}
                  /\ pc' = "chat" => spent' = NothingUsed
        PROVE  HistoryInv'
    <3>1. faults' \in Nat /\ faults' \in {faults, faults - 1}
      BY <2>1, <2>2 DEF HistoryTypes, Fault
    <3>. QED
      BY <2>2, <3>1, FileUnchanged
  <2>3. CASE UNCHANGED vars
    BY <2>1, <2>2, <2>3 DEF vars, inboxVars, handleVars, session, HistoryTypes
  <2>4. ASSUME NEW x \in scenario.texts, Write(x), scenario' = scenario PROVE HistoryInv'
    <3>1. x.arg \in Nat
      BY TextsAssumption DEF RememberInv, InboxTypes
    <3>2. text' = Append(text, x) /\ IsSequence(text)
      BY <2>4 DEF Write, RememberInv, InboxTypes
    <3>3. \A m \in DOMAIN text' : (m \in DOMAIN text /\ text'[m] = text[m]) \/ text'[m] = x
      <4>1. /\ DOMAIN text = 1 .. Len(text) /\ Len(text) \in Nat /\ DOMAIN text' = 1 .. Len(text) + 1
            /\ \A m \in DOMAIN text : text'[m] = text[m]
            /\ text'[Len(text) + 1] = x
        BY <3>2, AppendAny
      <4>. QED
        BY <4>1
    <3>4. \A m \in DOMAIN text' : text'[m].arg \in Nat
      BY <2>1, <3>1, <3>3 DEF HistoryTypes
    <3>. QED
      BY <2>1, <2>2, <2>4, <3>4 DEF Write, handleVars, session, HistoryTypes
  <2>5. ASSUME NEW m \in DOMAIN text, Claim(m), scenario' = scenario PROVE HistoryInv'
    <3>1. pc' \in Kinds /\ spent' = NothingUsed
      BY <2>5 DEF Claim, RememberInv, InboxTypes
    <3>2. pc' \notin {"asking", "model", "storing"}
      BY <3>1 DEF Kinds
    <3>. QED
      BY <2>1, <2>2, <2>5, <3>1, <3>2 DEF Claim, session, HistoryTypes
  <2>6. CASE Settle /\ scenario' = scenario
    <3>1. faults' = faults \/ Fault
      BY <2>6 DEF Settle, NoFault
    <3>. QED
      BY <2>1, <2>2, <2>6, <3>1 DEF Settle, session, HistoryTypes
  <2>7. CASE Restart /\ scenario' = scenario
    BY <2>1, <2>2, <2>7 DEF Restart, session, HistoryTypes
  <2>8. CASE Others /\ scenario' = scenario /\ (faults' = faults \/ Fault)
    BY <2>1, <2>2, <2>8 DEF Others, inboxVars, handleVars, session, HistoryTypes
  <2>9. ASSUME ToolsNext PROVE faults' = faults \/ Fault
    BY <2>9 DEF ToolsNext, Register, RequestApproval, ExecuteAllowed, ExecuteApproved,
                ExecuteRefused, Run, Enter, MayLose, NoFault
  <2>. QED
    BY <2>3, <2>4, <2>5, <2>6, <2>7, <2>8, <2>9, HandleKeepsHistory DEF Next, Anything
<1>. QED
  BY <1>1, <1>2, MemoryInvariant, PTL DEF Spec

\* Session.Append and Recent: the model sees the message it is asked about, and a
\* write that fails costs two lines at most.
THEOREM HistoryKept == Spec => []HistoryIsKept
<1>1. HistoryInv => HistoryIsKept
  <2>. SUFFICES ASSUME HistoryInv PROVE HistoryIsKept
    OBVIOUS
  <2>1. HistoryTypes /\ LinesLost /\ (Failures = 0 => Undisturbed) /\ history \in Seq(Lines)
    BY DEF HistoryInv, HistoryTypes
  <2>2. appends - Len(Readable(history)) <= 2 * Failures
    <3>. DEFINE R == Len(Readable(history))
                t == IF Torn(history) THEN 1 ELSE 0
    <3>1. R \in Nat /\ appends \in Nat /\ t \in {0, 1} /\ Failures \in Int
      BY <2>1, ReadsFacts DEF HistoryTypes, Failures
    <3>2. appends - R + t <= 2 * Failures
      BY <2>1 DEF LinesLost
    <3>. HIDE DEF R, t
    <3>3. \A f \in Int : appends - R + t <= 2 * f => appends - R <= 2 * f
      BY <3>1
    <3>. QED
      BY <3>1, <3>2, <3>3 DEF R
  <2>3. ASSUME pc = "model", Failures = 0
        PROVE  LET h == Recent IN h # <<>> /\ h[Len(h)].of = cur /\ h[Len(h)].role = "user"
    <3>1. Undisturbed
      BY <2>1, <2>3
    <3>2. Recent = LastOf(history, Window)
      BY <2>1, <3>1, ReadableAll DEF Undisturbed, Recent
    <3>3. /\ history # <<>> /\ history[Len(history)].of = cur
          /\ history[Len(history)].role = "user"
      BY <2>3, <3>1 DEF Undisturbed
    <3>4. /\ LastOf(history, Window) # <<>>
          /\ LastOf(history, Window)[Len(LastOf(history, Window))] = history[Len(history)]
      <4>1. CASE Len(history) > Window
        <5>. DEFINE s == SubSeq(history, Len(history) - Window + 1, Len(history))
        <5>1. Window \in Nat /\ Window # 0
          BY LimitsAssumption
        <5>2. Len(s) = Window /\ s[Window] = history[Len(history)] /\ s \in Seq(Lines)
          <6>. DEFINE N == Len(history)  k == N - Window + 1
          <6>1. N \in Nat /\ k \in 1 .. N /\ N - k + 1 = Window /\ k + Window - 1 = N
            BY <2>1, <4>1, <5>1
          <6>2. \A i \in 1 .. N : history[i] \in Lines
            BY <2>1
          <6>. HIDE DEF k
          <6>3. /\ SubSeq(history, k, N) \in Seq(Lines) /\ Len(SubSeq(history, k, N)) = N - k + 1
                /\ \A i \in 1 .. N - k + 1 : SubSeq(history, k, N)[i] = history[k + i - 1]
            BY <2>1, <6>1, <6>2
          <6>4. Window \in 1 .. N - k + 1
            BY <5>1, <6>1
          <6>. QED
            BY <6>1, <6>3, <6>4 DEF k
        <5>. HIDE DEF s
        <5>3. LastOf(history, Window) = s
          BY <4>1 DEF LastOf, s
        <5>. QED
          BY <5>1, <5>2, <5>3
      <4>2. CASE ~(Len(history) > Window)
        BY <3>3, <4>2 DEF LastOf
      <4>. QED
        BY <4>1, <4>2
    <3>. QED
      BY <3>2, <3>3, <3>4
  <2>. QED
    BY <2>2, <2>3 DEF HistoryIsKept
<1>. QED
  BY <1>1, HistoryInvariant, PTL

\* Budget.Consume: an answer in the history was paid for together with the history
\* it answers.
THEOREM AnswersArePaidFor == Spec => []AnswersWithinBudget
<1>1. HistoryInv => AnswersWithinBudget
  BY DEF HistoryInv, Undisturbed, PaidAnswers, AnswersWithinBudget
<1>. QED
  BY <1>1, HistoryInvariant, PTL
=============================================================================
