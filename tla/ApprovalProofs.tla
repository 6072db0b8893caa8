--------------------------- MODULE ApprovalProofs ---------------------------
(***************************************************************************)
(* What each operation of the approval manager keeps, for whoever calls    *)
(* it: Agent, Instagram and Skills are composed with Approval and use      *)
(* these facts.                                                            *)
(***************************************************************************)
EXTENDS Approval, TLAPS

\* A sequence, of whatever it holds.
IsSequence(s) == s \in Seq({s[n] : n \in DOMAIN s})

RequestStates == {"pending", "approved", "denied", "expired"}

(***************************************************************************)
(* The invariant of the tables: a request that is approved was so no later *)
(* than now, and nothing else is used.                                     *)
(***************************************************************************)
ApprovalTypes ==
    /\ now \in Nat
    /\ IsSequence(requests)
    /\ \A t \in Token : requests[t] = [bind     |-> requests[t].bind,
                                       state    |-> requests[t].state,
                                       expires  |-> requests[t].expires,
                                       resolved |-> requests[t].resolved]
    /\ DOMAIN uses \subseteq Token

ApprovalInv ==
    /\ ApprovalTypes
    /\ \A t \in Token : requests[t].state = "approved" => requests[t].resolved \in 0 .. now
    /\ \A t \in DOMAIN uses : uses[t] \in Nat
    /\ UsedInTime

LogInv == IsSequence(trail) /\ Verifies(trail)

(***************************************************************************)
(* Any step of a specification that is composed with Approval.             *)
(***************************************************************************)
ApprovalQuiet == UNCHANGED approvals /\ now' \in {now, now + 1}

ApprovalStep ==
    \/ ApprovalQuiet
    \/ /\ now' = now
       /\ \/ \E bind, ttl, lost : Create(bind, ttl, lost)
          \/ \E t, user, decision, lost :
                decision \in {"approved", "denied"} /\ ResolveToken(t, user, decision, lost)
          \/ \E t, bind : AuthorizeReceipt(t, bind)

\* Appending to a sequence.
LEMMA AppendAny ==
    ASSUME NEW s, IsSequence(s), NEW x
    PROVE  /\ IsSequence(Append(s, x))
           /\ DOMAIN s = 1 .. Len(s) /\ Len(s) \in Nat
           /\ DOMAIN Append(s, x) = 1 .. Len(s) + 1
           /\ \A n \in DOMAIN s : Append(s, x)[n] = s[n]
           /\ Append(s, x)[Len(s) + 1] = x
           /\ s = <<>> <=> Len(s) = 0
<1>. DEFINE S == {s[n] : n \in DOMAIN s} \cup {x}
            a == Append(s, x)
<1>1. s \in Seq(S)
  BY DEF IsSequence
<1>. HIDE DEF S
<1>2. x \in S
  BY DEF S
<1>3. /\ DOMAIN s = 1 .. Len(s) /\ Len(s) \in Nat
      /\ DOMAIN a = 1 .. Len(s) + 1
      /\ \A n \in DOMAIN s : a[n] = s[n]
      /\ a[Len(s) + 1] = x
      /\ s = <<>> <=> Len(s) = 0
  BY <1>1, <1>2
<1>4. a \in Seq({a[n] : n \in DOMAIN a})
  <2>. DEFINE A == {a[n] : n \in DOMAIN a}
  <2>1. \A n \in 1 .. Len(s) + 1 : a[n] \in A
    BY <1>3
  <2>2. a \in Seq(S)
    BY <1>1, <1>2
  <2>. HIDE DEF A, a
  <2>3. a \in [1 .. Len(s) + 1 -> A]
    <3>1. a = [n \in DOMAIN a |-> a[n]]
      BY <2>2
    <3>. QED
      BY <1>3, <2>1, <3>1
  <2>4. a \in Seq(A)
    BY <1>3, <2>3
  <2>. QED
    BY <2>4 DEF A
<1>. QED
  BY <1>3, <1>4 DEF IsSequence

\* Writing an element of a sequence.
LEMMA EditAny ==
    ASSUME NEW s, IsSequence(s), NEW k \in DOMAIN s, NEW x
    PROVE  LET e == [s EXCEPT ![k] = x]
           IN  /\ IsSequence(e) /\ DOMAIN e = DOMAIN s /\ e[k] = x
               /\ \A n \in DOMAIN s : n # k => e[n] = s[n]
<1>. DEFINE S == {s[n] : n \in DOMAIN s}
            e == [s EXCEPT ![k] = x]
            E == {e[n] : n \in DOMAIN e}
<1>1. s \in Seq(S)
  BY DEF IsSequence
<1>2. DOMAIN s = 1 .. Len(s) /\ Len(s) \in Nat
  BY <1>1
<1>3. /\ DOMAIN e = DOMAIN s /\ e[k] = x
      /\ \A n \in DOMAIN s : n # k => e[n] = s[n]
  BY <1>1
<1>4. e \in [1 .. Len(s) -> E]
  BY <1>1, <1>2, <1>3
<1>. HIDE DEF e, E
<1>5. e \in Seq(E)
  BY <1>2, <1>4
<1>. QED
  BY <1>3, <1>5 DEF IsSequence, e, E

(***************************************************************************)
(* The audit chain.                                                        *)
(***************************************************************************)
LEMMA AppendedVerifies ==
    ASSUME NEW log, IsSequence(log), Verifies(log), NEW entry
    PROVE  IsSequence(Appended(log, entry)) /\ Verifies(Appended(log, entry))
<1>. DEFINE last == log[Len(log)]
            new == IF log = <<>> THEN Row(1, entry, Genesis)
                   ELSE Row(last.seq + 1, entry, last.hash)
            a == Append(log, new)
<1>1. Appended(log, entry) = a
  BY DEF Appended
<1>2. /\ IsSequence(a) /\ DOMAIN log = 1 .. Len(log) /\ Len(log) \in Nat
      /\ DOMAIN a = 1 .. Len(log) + 1
      /\ \A n \in DOMAIN log : a[n] = log[n]
      /\ a[Len(log) + 1] = new
      /\ log = <<>> <=> Len(log) = 0
  BY AppendAny
<1>. HIDE DEF a
<1>3. /\ new.seq = Len(log) + 1
      /\ new.prev = IF Len(log) + 1 = 1 THEN Genesis ELSE log[Len(log)].hash
      /\ new.hash = Hash(new.seq, new.entry, new.prev)
  <2>1. CASE log = <<>>
    <3>1. Len(log) = 0 /\ new = Row(1, entry, Genesis)
      BY <1>2, <2>1
    <3>. QED
      BY <3>1 DEF Row
  <2>2. CASE log # <<>>
    <3>1. Len(log) \in DOMAIN log /\ Len(log) + 1 # 1
      BY <1>2, <2>2
    <3>2. last.seq = Len(log)
      BY <3>1 DEF Verifies
    <3>. QED
      BY <2>2, <3>1, <3>2 DEF Row
  <2>. QED
    BY <2>1, <2>2
<1>. HIDE DEF new
<1>4. ASSUME NEW n \in DOMAIN a
      PROVE  /\ a[n].seq = n
             /\ a[n].prev = IF n = 1 THEN Genesis ELSE a[n - 1].hash
             /\ a[n].hash = Hash(a[n].seq, a[n].entry, a[n].prev)
  <2>1. CASE n \in DOMAIN log
    <3>1. n # 1 => n - 1 \in DOMAIN log
      BY <1>2, <2>1
    <3>. QED
      BY <1>2, <2>1, <3>1 DEF Verifies
  <2>2. CASE n = Len(log) + 1
    <3>1. n # 1 => n - 1 = Len(log) /\ n - 1 \in DOMAIN log
      BY <1>2, <2>2
    <3>. QED
      BY <1>2, <1>3, <2>2, <3>1
  <2>. QED
    BY <1>2, <2>1, <2>2
<1>. QED
  BY <1>1, <1>2, <1>4 DEF Verifies

\* Verify notices a row that is missing, or replaced, before the last one.
LEMMA TamperingIsNoticed ==
    ASSUME NEW log, IsSequence(log), Verifies(log), NEW n \in 1 .. Len(log) - 1
    PROVE  /\ ~Verifies(WithoutRow(log, n))
           /\ \A entry : entry # log[n].entry => ~Verifies(Edited(log, n, entry))
<1>. DEFINE S == {log[m] : m \in DOMAIN log}
<1>1. log \in Seq(S) /\ Len(log) \in Nat /\ DOMAIN log = 1 .. Len(log)
  BY DEF IsSequence
<1>2. n \in DOMAIN log /\ n + 1 \in DOMAIN log /\ n \in Nat /\ n >= 1
  BY <1>1
<1>. HIDE DEF S
<1>3. ~Verifies(WithoutRow(log, n))
  <2>. DEFINE front == SubSeq(log, 1, n - 1)
              back == SubSeq(log, n + 1, Len(log))
              w == WithoutRow(log, n)
  <2>1. /\ front \in Seq(S) /\ Len(front) = n - 1
    BY <1>1, <1>2
  <2>2. /\ back \in Seq(S) /\ Len(back) = Len(log) - n /\ back[1] = log[n + 1]
    BY <1>1, <1>2
  <2>. HIDE DEF front, back, w
  <2>3. w = front \o back
    BY DEF w, front, back, WithoutRow
  <2>4. n \in DOMAIN w /\ w[n] = back[1]
    BY <1>1, <1>2, <2>1, <2>2, <2>3
  <2>5. w[n].seq = n + 1
    BY <1>2, <2>2, <2>4 DEF Verifies
  <2>6. w[n].seq # n
    BY <1>2, <2>5
  <2>. QED
    BY <2>4, <2>6 DEF Verifies, w
<1>4. ASSUME NEW entry, entry # log[n].entry, Verifies(Edited(log, n, entry))
      PROVE  FALSE
  <2>. DEFINE e == Edited(log, n, entry)
  <2>1. e = [log EXCEPT ![n] = Row(n, entry, log[n].prev)]
    BY DEF Edited
  <2>. HIDE DEF e
  <2>2. /\ DOMAIN e = DOMAIN log /\ e[n] = Row(n, entry, log[n].prev)
        /\ e[n + 1] = log[n + 1]
    BY <1>2, <2>1
  <2>3. e[n].hash = <<n, entry, log[n].prev>>
    BY <2>2 DEF Row, Hash
  <2>4. n + 1 \in DOMAIN e /\ n + 1 # 1 /\ (n + 1) - 1 = n
    BY <1>2, <2>2
  <2>5. e[n + 1].prev = e[n].hash
    BY <1>4, <2>4 DEF Verifies, e
  <2>6. log[n + 1].prev = log[n].hash
    BY <1>2, <2>4 DEF Verifies
  <2>7. log[n].hash = <<n, log[n].entry, log[n].prev>>
    BY <1>2 DEF Verifies, Hash
  <2>8. <<n, entry, log[n].prev>> = <<n, log[n].entry, log[n].prev>>
    BY <2>2, <2>3, <2>5, <2>6, <2>7
  <2>. QED
    BY <1>4, <2>8
<1>. QED
  BY <1>3, <1>4

(***************************************************************************)
(* The operations.                                                         *)
(***************************************************************************)
LEMMA ApprovalStarts ==
    ASSUME ApprovalInit
    PROVE  ApprovalInv /\ LogInv
BY DEF ApprovalInit, ApprovalInv, ApprovalTypes, IsSequence, Token, UsedInTime, LogInv, Verifies

\* Writing the fields of a row.
LEMMA RowEdits ==
    ASSUME NEW b, NEW s, NEW e, NEW v, NEW x, NEW y
    PROVE  LET r == [bind |-> b, state |-> s, expires |-> e, resolved |-> v]
           IN  /\ [r EXCEPT !.state = x] = [bind |-> b, state |-> x, expires |-> e, resolved |-> v]
               /\ [r EXCEPT !.resolved = y] = [bind |-> b, state |-> s, expires |-> e, resolved |-> y]
OBVIOUS

\* What ResolveToken and Create make of a row.
LEMMA DecidedRow ==
    ASSUME ApprovalTypes, NEW t \in Token, NEW decision
    PROVE  LET r == [requests EXCEPT ![t].state = decision, ![t].resolved = now]
           IN  /\ IsSequence(r) /\ DOMAIN r = Token
               /\ \A u \in Token : u # t => r[u] = requests[u]
               /\ r[t] = [bind |-> requests[t].bind, state |-> decision,
                          expires |-> requests[t].expires, resolved |-> now]
<1>. DEFINE row == [bind |-> requests[t].bind, state |-> decision,
                    expires |-> requests[t].expires, resolved |-> now]
<1>1. [[requests[t] EXCEPT !.state = decision] EXCEPT !.resolved = now] = row
  <2>1. PICK b, s, e, v : requests[t] = [bind |-> b, state |-> s, expires |-> e, resolved |-> v]
    BY DEF ApprovalTypes
  <2>2. [requests[t] EXCEPT !.state = decision]
           = [bind |-> b, state |-> decision, expires |-> e, resolved |-> v]
    BY <2>1, RowEdits
  <2>3. row = [bind |-> b, state |-> decision, expires |-> e, resolved |-> now]
    BY <2>1
  <2>4. [[bind |-> b, state |-> decision, expires |-> e, resolved |-> v] EXCEPT !.resolved = now]
           = [bind |-> b, state |-> decision, expires |-> e, resolved |-> now]
    BY RowEdits
  <2>. HIDE DEF row
  <2>. QED
    BY <2>2, <2>3, <2>4, Zenon
<1>2. [requests EXCEPT ![t].state = decision, ![t].resolved = now] = [requests EXCEPT ![t] = row]
  BY <1>1 DEF Token
<1>. QED
  BY <1>2, EditAny DEF ApprovalTypes, Token

\* What a late ResolveToken makes of a row.
LEMMA ExpiredRow ==
    ASSUME ApprovalTypes, NEW t \in Token
    PROVE  LET r == [requests EXCEPT ![t].state = "expired"]
           IN  /\ IsSequence(r) /\ DOMAIN r = Token
               /\ \A u \in Token : u # t => r[u] = requests[u]
               /\ r[t] = [bind |-> requests[t].bind, state |-> "expired",
                          expires |-> requests[t].expires, resolved |-> requests[t].resolved]
<1>. DEFINE row == [bind |-> requests[t].bind, state |-> "expired",
                    expires |-> requests[t].expires, resolved |-> requests[t].resolved]
<1>1. [requests[t] EXCEPT !.state = "expired"] = row
  <2>1. PICK b, s, e, v : requests[t] = [bind |-> b, state |-> s, expires |-> e, resolved |-> v]
    BY DEF ApprovalTypes
  <2>2. row = [bind |-> b, state |-> "expired", expires |-> e, resolved |-> v]
    BY <2>1
  <2>. QED
    BY <2>1, <2>2, RowEdits
<1>2. [requests EXCEPT ![t].state = "expired"] = [requests EXCEPT ![t] = row]
  BY <1>1 DEF Token
<1>. QED
  BY <1>2, EditAny DEF ApprovalTypes, Token

\* The part of DecisionIsFinal that is about one step.
DecisionKept ==
    /\ \A t \in Token : /\ t \in DOMAIN requests'
                        /\ requests[t].state # "pending" => requests'[t] = requests[t]
                        /\ requests'[t].bind = requests[t].bind
    /\ \A t \in DOMAIN uses : t \in DOMAIN uses' /\ uses'[t] = uses[t]

\* Create adds a pending row.
LEMMA CreateKeeps ==
    ASSUME ApprovalInv, now' = now, NEW bind, NEW ttl, NEW lost, Create(bind, ttl, lost)
    PROVE  ApprovalInv' /\ DecisionKept
<1>. DEFINE row == [bind |-> bind, state |-> "pending", expires |-> now + ttl, resolved |-> Null]
<1>1. requests' = Append(requests, row) /\ uses' = uses
  BY DEF Create
<1>2. /\ IsSequence(requests') /\ Token' = Token \cup {Len(requests) + 1}
      /\ \A t \in Token : requests'[t] = requests[t]
      /\ requests'[Len(requests) + 1] = row
  <2>1. IsSequence(requests)
    BY DEF ApprovalInv, ApprovalTypes
  <2>2. 1 .. Len(requests) + 1 = (1 .. Len(requests)) \cup {Len(requests) + 1}
    BY <2>1, AppendAny
  <2>. QED
    BY <1>1, <2>1, <2>2, AppendAny DEF Token
<1>3. DecisionKept
  BY <1>1, <1>2 DEF DecisionKept, Token
<1>4. ApprovalTypes'
  BY <1>1, <1>2 DEF ApprovalInv, ApprovalTypes, Token
<1>5. UsedInTime'
  BY <1>1, <1>2 DEF ApprovalInv, ApprovalTypes, UsedInTime
<1>6. ASSUME NEW t \in Token', requests'[t].state = "approved"
      PROVE  requests'[t].resolved \in 0 .. now'
  <2>1. t # Len(requests) + 1
    BY <1>2, <1>6
  <2>. QED
    BY <1>2, <1>6, <2>1 DEF ApprovalInv
<1>7. \A t \in DOMAIN uses' : uses'[t] \in Nat
  BY <1>1 DEF ApprovalInv
<1>. QED
  BY <1>3, <1>4, <1>5, <1>6, <1>7 DEF ApprovalInv

\* ResolveToken writes a pending row, which nobody has used.
LEMMA ResolveKeeps ==
    ASSUME ApprovalInv, now' = now, NEW t, NEW user, NEW decision \in {"approved", "denied"},
           NEW lost, ResolveToken(t, user, decision, lost)
    PROVE  ApprovalInv' /\ DecisionKept
<1>. USE DEF ApprovalInv
<1>1. CASE UNCHANGED approvals
  BY <1>1 DEF approvals, ApprovalTypes, Token, UsedInTime, DecisionKept
<1>2. CASE Decide(t, user, decision, lost) \/ Expire(t, user)
  <2>1. t \in Token /\ requests[t].state = "pending" /\ uses' = uses
    BY <1>2 DEF Decide, Expire, Open
  <2>2. /\ IsSequence(requests') /\ Token' = Token
        /\ \A u \in Token : u # t => requests'[u] = requests[u]
        /\ requests'[t] = [bind     |-> requests[t].bind,
                           state    |-> requests'[t].state,
                           expires  |-> requests[t].expires,
                           resolved |-> requests'[t].resolved]
        /\ requests'[t].state = "approved" => requests'[t].resolved = now
    <3>1. CASE Decide(t, user, decision, lost)
      <4>1. requests' = [requests EXCEPT ![t].state = decision, ![t].resolved = now]
        BY <3>1 DEF Decide
      <4>2. /\ IsSequence(requests') /\ DOMAIN requests' = Token
            /\ \A u \in Token : u # t => requests'[u] = requests[u]
            /\ requests'[t] = [bind |-> requests[t].bind, state |-> decision,
                               expires |-> requests[t].expires, resolved |-> now]
        BY <2>1, <4>1, DecidedRow
      <4>. QED
        BY <4>2 DEF Token
    <3>2. CASE Expire(t, user)
      <4>1. requests' = [requests EXCEPT ![t].state = "expired"]
        BY <3>2 DEF Expire
      <4>2. /\ IsSequence(requests') /\ DOMAIN requests' = Token
            /\ \A u \in Token : u # t => requests'[u] = requests[u]
            /\ requests'[t] = [bind |-> requests[t].bind, state |-> "expired",
                               expires |-> requests[t].expires, resolved |-> requests[t].resolved]
        BY <2>1, <4>1, ExpiredRow
      <4>. QED
        BY <4>2 DEF Token
    <3>. QED
      BY <1>2, <3>1, <3>2
  <2>3. t \notin DOMAIN uses
    BY <2>1 DEF UsedInTime
  <2>4. DecisionKept
    BY <2>1, <2>2 DEF DecisionKept, Token
  <2>5. ApprovalTypes'
    BY <2>1, <2>2 DEF ApprovalTypes, Token
  <2>6. UsedInTime'
    BY <2>1, <2>2, <2>3 DEF ApprovalTypes, UsedInTime
  <2>7. \A u \in Token : requests'[u].state = "approved" => requests'[u].resolved \in 0 .. now
    BY <2>2 DEF ApprovalTypes
  <2>. QED
    BY <2>1, <2>2, <2>4, <2>5, <2>6, <2>7
<1>. QED
  BY <1>1, <1>2 DEF ResolveToken

\* AuthorizeReceipt records a use, of an approved request, in time.
LEMMA AuthorizeKeeps ==
    ASSUME ApprovalInv, now' = now, NEW t, NEW bind, AuthorizeReceipt(t, bind)
    PROVE  /\ ApprovalInv' /\ DecisionKept
           /\ t \in Token /\ requests[t].state = "approved" /\ requests[t].bind = bind
           /\ t \notin DOMAIN uses /\ DOMAIN uses' = DOMAIN uses \cup {t} /\ uses'[t] = now
           /\ now < requests[t].expires
           /\ requests' = requests /\ \A u \in DOMAIN uses : uses'[u] = uses[u]
<1>. USE DEF ApprovalInv
<1>1. /\ t \in Token /\ now < requests[t].expires /\ requests[t].state = "approved"
      /\ requests[t].bind = bind /\ t \notin DOMAIN uses /\ requests' = requests
      /\ uses' = [u \in DOMAIN uses \cup {t} |-> IF u = t THEN now ELSE uses[u]]
  BY DEF AuthorizeReceipt, Usable
<1>2. DOMAIN uses' = DOMAIN uses \cup {t} /\ uses'[t] = now
      /\ \A u \in DOMAIN uses : uses'[u] = uses[u]
  BY <1>1
<1>3. ApprovalTypes'
  BY <1>1, <1>2 DEF ApprovalTypes, Token
<1>4. UsedInTime'
  BY <1>1, <1>2 DEF UsedInTime
<1>5. DecisionKept
  BY <1>1, <1>2 DEF DecisionKept, Token
<1>. QED
  BY <1>1, <1>2, <1>3, <1>4, <1>5 DEF ApprovalTypes, Token

\* Time passes.
LEMMA QuietKeeps ==
    ASSUME ApprovalInv, ApprovalQuiet
    PROVE  ApprovalInv' /\ DecisionKept
<1>. USE DEF ApprovalInv
<1>1. requests' = requests /\ uses' = uses /\ (now' = now \/ now' = now + 1) /\ now \in Nat
  BY DEF ApprovalQuiet, approvals, ApprovalTypes
<1>2. ApprovalTypes'
  BY <1>1 DEF ApprovalTypes, Token
<1>3. UsedInTime' /\ DecisionKept
  BY <1>1 DEF UsedInTime, DecisionKept, Token
<1>4. 0 .. now \subseteq 0 .. now'
  BY <1>1
<1>. QED
  BY <1>1, <1>2, <1>3, <1>4 DEF Token

\* Whatever is composed with the approval manager keeps its tables and its log.
LEMMA ApprovalKept ==
    ASSUME ApprovalInv, ApprovalStep
    PROVE  ApprovalInv' /\ DecisionKept
BY QuietKeeps, CreateKeeps, ResolveKeeps, AuthorizeKeeps DEF ApprovalStep

\* The audit chain verifies after every operation, lost appends included.
LEMMA LogKept ==
    ASSUME LogInv, ApprovalStep
    PROVE  LogInv'
<1>1. trail' = trail \/ \E entry : trail' = Appended(trail, entry)
  <2>1. ASSUME NEW bind, NEW ttl, NEW lost, Create(bind, ttl, lost)
        PROVE  trail' = trail \/ \E entry : trail' = Appended(trail, entry)
    BY <2>1 DEF Create, Audited
  <2>2. ASSUME NEW t, NEW user, NEW decision, NEW lost, ResolveToken(t, user, decision, lost)
        PROVE  trail' = trail \/ \E entry : trail' = Appended(trail, entry)
    BY <2>2 DEF ResolveToken, Decide, Expire, Audited, approvals
  <2>3. ASSUME NEW t, NEW bind, AuthorizeReceipt(t, bind)
        PROVE  trail' = trail \/ \E entry : trail' = Appended(trail, entry)
    BY <2>3 DEF AuthorizeReceipt
  <2>4. ASSUME ApprovalQuiet PROVE trail' = trail
    BY <2>4 DEF ApprovalQuiet, approvals
  <2>. QED
    BY <2>1, <2>2, <2>3, <2>4 DEF ApprovalStep
<1>. QED
  BY <1>1, AppendedVerifies DEF LogInv

\* A chain that verifies shows the removal or the editing of a row.
LEMMA LogIsTamperEvident ==
    ASSUME LogInv
    PROVE  AuditIsTamperEvident
<1>1. \A n \in 1 .. Len(trail) - 1 :
         /\ ~Verifies(WithoutRow(trail, n))
         /\ \A entry : entry # trail[n].entry => ~Verifies(Edited(trail, n, entry))
  BY TamperingIsNoticed DEF LogInv
<1>. QED
  BY <1>1 DEF LogInv, AuditIsTamperEvident
=============================================================================
