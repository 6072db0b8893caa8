----------------------------- MODULE ToolsProofs -----------------------------
(***************************************************************************)
(* What each operation of the tool registry keeps, for whoever calls it:   *)
(* Agent and Skills are composed with Tools and use these facts.           *)
(***************************************************************************)
EXTENDS Tools, ApprovalProofs

(***************************************************************************)
(* The invariant of the registry: a handler that was started with a token  *)
(* has the approval behind it, and the token for itself.                   *)
(***************************************************************************)
WantsApproval(x, mode) == x.approval \/ x.risk \in {"high", "critical"} \/ mode = "publish"

Paid(r) ==
    /\ r.token \in DOMAIN uses
    /\ requests[r.token].state = "approved"
    /\ requests[r.token].bind = BindOf(r.call)

Covered(r) ==
    /\ r.token # NoToken => Paid(r)
    /\ \E x \in Registered(r.call.tool) :
          /\ r.call.mode \in x.modes
          /\ WantsApproval(x, r.call.mode) => Paid(r)

RegistryInv ==
    /\ calls \in Nat
    /\ running = [c \in Caller |-> running[c]]
    /\ \A r \in Started : Covered(r)
    /\ \A r, s \in Started : (r.token = s.token /\ r.token # NoToken) => r = s

(***************************************************************************)
(* The steps of the registry, as far as the invariant tells them apart.    *)
(***************************************************************************)
RegistryQuiet == UNCHANGED <<tools, running, ran, calls>>

Forgets ==          \* a restart
    /\ running' = [c \in Caller |-> None]
    /\ UNCHANGED <<tools, ran, calls>>

RegistryStep ==
    \/ RegistryQuiet
    \/ Forgets
    \/ \E x : Register(x)
    \/ \E c \in Caller : Run(c)
    \/ \E c \in Caller : \E q, t, lost :
          \/ ExecuteAllowed(c, q)
          \/ RequestApproval(c, q, lost)
          \/ ExecuteApproved(c, q, t)
          \/ ExecuteRefused(c, q, t)

\* The registry and the approval tables start empty.
LEMMA RegistryStarts ==
    ASSUME ToolsInit
    PROVE  RegistryInv
<1>1. Started = {}
  BY DEF ToolsInit, Started
<1>. QED
  BY <1>1 DEF ToolsInit, RegistryInv

\* The policy: what it lets pass, and what it wants an approval for.
LEMMA PolicyOutcomes ==
    ASSUME NEW x, NEW mode
    PROVE  /\ Evaluate(x, mode) = "allowed" => mode \in x.modes /\ ~WantsApproval(x, mode)
           /\ Evaluate(x, mode) = "needsApproval" => mode \in x.modes /\ WantsApproval(x, mode)
BY DEF Evaluate, WantsApproval

\* What covers a handler is not taken away from it.
LEMMA CoverStays ==
    ASSUME DecisionKept, tools \subseteq tools', DOMAIN uses \subseteq Token, NEW r, Covered(r)
    PROVE  Covered(r)'
<1>1. Paid(r) => Paid(r)'
  BY DEF Paid, DecisionKept, Token
<1>2. Registered(r.call.tool) \subseteq Registered(r.call.tool)'
  BY DEF Registered
<1>. QED
  BY <1>1, <1>2 DEF Covered

\* Steps that start no handler.
LEMMA NothingStarts ==
    ASSUME ApprovalInv, RegistryInv, DecisionKept, calls' \in Nat, tools \subseteq tools',
           running' = [c \in Caller |-> running'[c]], Started' \subseteq Started
    PROVE  RegistryInv'
<1>1. DOMAIN uses \subseteq Token
  BY DEF ApprovalInv, ApprovalTypes
<1>2. \A r \in Started' : Covered(r)'
  BY <1>1, CoverStays DEF RegistryInv
<1>. QED
  BY <1>2 DEF RegistryInv

\* A handler starts, with a token of its own or with none.
LEMMA OneStarts ==
    ASSUME ApprovalInv, RegistryInv, DecisionKept, tools' = tools, ran' = ran, calls' = calls + 1,
           NEW c \in Caller, NEW q, NEW t, Starts(c, q, t),
           t # NoToken => t \notin DOMAIN uses,
           \A n : (n.token = t /\ n.call = q) => Covered(n)'
    PROVE  RegistryInv'
<1>0. PICK n : n = [id |-> calls + 1, call |-> q, token |-> t]
  OBVIOUS
<1>1. running' = [running EXCEPT ![c] = n] /\ running = [d \in Caller |-> running[d]]
  BY <1>0 DEF Starts, RegistryInv
<1>2. running' = [d \in Caller |-> running'[d]] /\ running'[c] = n
      /\ \A d \in Caller : d # c => running'[d] = running[d]
  BY <1>1
<1>3. n.token = t /\ n.call = q
  BY <1>0
<1>4. Covered(n)'
  BY <1>3
<1>5. Started' \subseteq Started \cup {n}
  BY <1>2 DEF Started
<1>6. DOMAIN uses \subseteq Token
  BY DEF ApprovalInv, ApprovalTypes
<1>7. \A r \in Started : Covered(r)'
  BY <1>6, CoverStays DEF RegistryInv
<1>8. \A r \in Started : r.token # NoToken => r.token # t
  BY DEF RegistryInv, Covered, Paid
<1>9. \A r, s \in Started' : (r.token = s.token /\ r.token # NoToken) => r = s
  BY <1>3, <1>5, <1>8 DEF RegistryInv
<1>10. calls' \in Nat
  BY DEF RegistryInv
<1>11. \A r \in Started' : Covered(r)'
  BY <1>4, <1>5, <1>7
<1>. QED
  BY <1>2, <1>9, <1>10, <1>11 DEF RegistryInv

\* Whatever is composed with the registry keeps its invariant.
LEMMA RegistryKept ==
    ASSUME ApprovalInv, RegistryInv, ApprovalStep, RegistryStep
    PROVE  RegistryInv'
<1>1. DecisionKept /\ DOMAIN uses \subseteq Token
  BY ApprovalKept DEF ApprovalInv, ApprovalTypes
<1>2. calls \in Nat /\ calls + 1 \in Nat /\ running = [c \in Caller |-> running[c]]
  BY DEF RegistryInv
<1>3. CASE RegistryQuiet
  <2>1. tools' = tools /\ running' = running /\ ran' = ran /\ calls' = calls
    BY <1>3 DEF RegistryQuiet
  <2>2. Started' = Started
    BY <2>1 DEF Started
  <2>. QED
    BY <1>1, <1>2, <2>1, <2>2, NothingStarts
<1>4. CASE Forgets
  <2>1. tools' = tools /\ ran' = ran /\ calls' = calls /\ running' = [c \in Caller |-> None]
    BY <1>4 DEF Forgets
  <2>2. Started' \subseteq Started
    BY <2>1 DEF Started
  <2>. QED
    BY <1>1, <1>2, <2>1, <2>2, NothingStarts
<1>5. ASSUME NEW x, Register(x) PROVE RegistryInv'
  <2>1. tools \subseteq tools' /\ running' = running /\ ran' = ran /\ calls' = calls
    BY <1>5 DEF Register
  <2>2. Started' = Started
    BY <2>1 DEF Started
  <2>. QED
    BY <1>1, <1>2, <2>1, <2>2, NothingStarts
<1>6. ASSUME NEW c \in Caller, Run(c) PROVE RegistryInv'
  <2>1. /\ tools' = tools /\ calls' = calls /\ ran' = ran \cup {running[c]}
        /\ running' = [running EXCEPT ![c] = None]
    BY <1>6 DEF Run
  <2>2. running' = [d \in Caller |-> running'[d]] /\ running'[c] = None
        /\ \A d \in Caller : d # c => running'[d] = running[d]
    <3>. HIDE DEF None
    <3>. QED
      BY <1>2, <2>1
  <2>3. Started' \subseteq Started
    BY <2>1, <2>2 DEF Started
  <2>. QED
    BY <1>1, <1>2, <2>1, <2>2, <2>3, NothingStarts
<1>7. ASSUME NEW c \in Caller, NEW q, NEW t, NEW lost,
             RequestApproval(c, q, lost) \/ ExecuteRefused(c, q, t)
      PROVE  RegistryInv'
  <2>1. tools' = tools /\ running' = running /\ ran' = ran /\ calls' = calls + 1
    BY <1>7 DEF RequestApproval, ExecuteRefused, Enter
  <2>2. Started' = Started
    BY <2>1 DEF Started
  <2>. QED
    BY <1>1, <1>2, <2>1, <2>2, NothingStarts
<1>8. ASSUME NEW c \in Caller, NEW q, ExecuteAllowed(c, q) PROVE RegistryInv'
  <2>1. /\ tools' = tools /\ ran' = ran /\ calls' = calls + 1 /\ Starts(c, q, NoToken)
        /\ \E x \in Registered(q.tool) : Evaluate(x, q.mode) = "allowed"
    BY <1>8 DEF ExecuteAllowed, Enter
  <2>2. \E x \in Registered(q.tool) : q.mode \in x.modes /\ ~WantsApproval(x, q.mode)
    BY <2>1, PolicyOutcomes
  <2>3. \A n : (n.token = NoToken /\ n.call = q) => Covered(n)'
    BY <2>1, <2>2 DEF Covered, Registered
  <2>. QED
    BY <1>1, <2>1, <2>3, OneStarts
<1>9. ASSUME NEW c \in Caller, NEW q, NEW t, ExecuteApproved(c, q, t) PROVE RegistryInv'
  <2>1. /\ tools' = tools /\ ran' = ran /\ calls' = calls + 1 /\ Starts(c, q, t)
        /\ AuthorizeReceipt(t, BindOf(q)) /\ now' = now
        /\ \E x \in Registered(q.tool) : Evaluate(x, q.mode) = "needsApproval"
    BY <1>9 DEF ExecuteApproved, Enter
  <2>2. \E x \in Registered(q.tool) : q.mode \in x.modes
    BY <2>1, PolicyOutcomes
  <2>3. /\ t \notin DOMAIN uses /\ t \in DOMAIN uses' /\ requests' = requests
        /\ requests[t].state = "approved" /\ requests[t].bind = BindOf(q)
    BY <2>1, AuthorizeKeeps
  <2>4. ASSUME NEW n, n.token = t, n.call = q PROVE Covered(n)'
    <3>1. Paid(n)'
      BY <2>3, <2>4 DEF Paid
    <3>. QED
      BY <2>1, <2>2, <2>4, <3>1 DEF Covered, Registered
  <2>. QED
    BY <1>1, <2>1, <2>3, <2>4, OneStarts
<1>. QED
  BY <1>3, <1>4, <1>5, <1>6, <1>7, <1>8, <1>9 DEF RegistryStep

\* No handler runs without what Evaluate and AuthorizeReceipt ask for.
LEMMA CoveredRunsWereApproved ==
    ASSUME RegistryInv, ApprovalInv
    PROVE  RunsWereApproved
<1>1. NoToken \notin DOMAIN uses
  <2>1. IsSequence(requests) /\ DOMAIN uses \subseteq DOMAIN requests
    BY DEF ApprovalInv, ApprovalTypes, Token
  <2>2. DOMAIN requests = 1 .. Len(requests) /\ Len(requests) \in Nat
    BY <2>1, AppendAny
  <2>. QED
    BY <2>1, <2>2 DEF NoToken
<1>2. ASSUME NEW r \in Started
      PROVE  \E x \in Registered(r.call.tool) :
                /\ r.call.mode \in x.modes
                /\ WantsApproval(x, r.call.mode) =>
                     Paid(r) /\ \A s \in Started : s.token = r.token => s.id = r.id
  <2>1. PICK x \in Registered(r.call.tool) :
           r.call.mode \in x.modes /\ (WantsApproval(x, r.call.mode) => Paid(r))
    BY <1>2 DEF RegistryInv, Covered
  <2>2. Paid(r) => \A s \in Started : s.token = r.token => s.id = r.id
    BY <1>1 DEF RegistryInv, Paid
  <2>. QED
    BY <2>1, <2>2
<1>. QED
  BY <1>2 DEF RunsWereApproved, WantsApproval, Paid
=============================================================================
