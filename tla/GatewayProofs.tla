--------------------------- MODULE GatewayProofs ---------------------------
(***************************************************************************)
(* Theorems about Gateway, for every number and origin of updates, every   *)
(* batch limit and number of attempts, and however often the process dies  *)
(* or a call fails.                                                        *)
(***************************************************************************)
EXTENDS Gateway, FiniteSetTheorems, TLAPS

(***************************************************************************)
(* Enumerating a finite set of numbers in order.                           *)
(***************************************************************************)

\* A non-empty set of numbers has a least element.
LEMMA LeastElement ==
    ASSUME NEW T \in SUBSET Nat, T # {}
    PROVE  \E x \in T : \A y \in T : x <= y
<1>. DEFINE R == OpToRel(<, Nat)
<1>1. IsWellFoundedOn(R, Nat)
  BY NatLessThanWellFounded
<1>2. \A x, y \in Nat : y < x => <<y, x>> \in R
  BY DEF OpToRel
<1>. HIDE DEF R
<1>3. PICK x \in T : \A y \in T : ~(<<y, x>> \in R)
  BY <1>1, WFMin
<1>4. \A y \in T : x \in Nat /\ y \in Nat /\ ~(y < x)
  BY <1>2, <1>3
<1>. QED
  BY <1>4

IsAscending(s) == \A i, j \in DOMAIN s : i < j => s[i] < s[j]

\* The enumeration that Ascending chooses exists: there is no least number of
\* elements for which it fails.
LEMMA AscendingExists ==
    ASSUME NEW A \in SUBSET Nat, IsFiniteSet(A)
    PROVE  \E s \in [1 .. Cardinality(A) -> A] : IsAscending(s)
<1>. DEFINE Fails(n, S) == /\ IsFiniteSet(S) /\ Cardinality(S) = n
                           /\ \A s \in [1 .. n -> S] : ~IsAscending(s)
            Bad == {n \in Nat : \E S \in SUBSET Nat : Fails(n, S)}
<1>1. SUFFICES ASSUME Bad # {} PROVE FALSE
  BY FS_CardinalityType
<1>2. PICK n \in Bad : \A m \in Bad : n <= m
  BY <1>1, LeastElement
<1>3. PICK S \in SUBSET Nat : Fails(n, S)
  OBVIOUS
<1>4. n \in Nat
  OBVIOUS
<1>5. S # {}
  <2>1. SUFFICES ASSUME S = {} PROVE FALSE
    OBVIOUS
  <2>2. n = 0
    BY <1>3, <2>1, FS_EmptySet
  <2>3. [i \in 1 .. 0 |-> 0] \in [1 .. n -> S] /\ IsAscending([i \in 1 .. 0 |-> 0])
    BY <2>2 DEF IsAscending
  <2>. QED
    BY <1>3, <2>3
<1>6. PICK x \in S : \A y \in S : x <= y
  BY <1>5, LeastElement
<1>. DEFINE R == S \ {x}
<1>7. IsFiniteSet(R) /\ Cardinality(R) = n - 1
  BY <1>3, FS_RemoveElement
<1>8. n - 1 \in Nat
  BY <1>7, FS_CardinalityType
<1>9. n - 1 \notin Bad
  BY <1>2, <1>8
<1>10. PICK r \in [1 .. n - 1 -> R] : IsAscending(r)
  BY <1>7, <1>8, <1>9
<1>. DEFINE s == [i \in 1 .. n |-> IF i = 1 THEN x ELSE r[i - 1]]
<1>11. \A y \in R : y \in S /\ y > x
  BY <1>6
<1>. HIDE DEF R, Bad, Fails
<1>12. \A i \in 2 .. n : i - 1 \in 1 .. n - 1 /\ r[i - 1] \in R
  BY <1>4, <1>10
<1>13. s \in [1 .. n -> S]
  BY <1>6, <1>11, <1>12
<1>14. ASSUME NEW i \in 1 .. n, NEW j \in 1 .. n, i < j
       PROVE  s[i] < s[j]
  <2>1. CASE i = 1
    BY <1>4, <1>11, <1>12, <1>14, <2>1
  <2>2. CASE i # 1
    <3>1. i - 1 \in 1 .. n - 1 /\ j - 1 \in 1 .. n - 1 /\ i - 1 < j - 1
      BY <1>4, <1>14, <2>2
    <3>2. r[i - 1] < r[j - 1]
      BY <1>10, <3>1 DEF IsAscending
    <3>. QED
      BY <1>4, <1>14, <2>2, <3>2
  <2>. QED
    BY <2>1, <2>2
<1>15. IsAscending(s)
  BY <1>13, <1>14 DEF IsAscending
<1>. QED
  BY <1>3, <1>13, <1>15 DEF Fails

\* What Ascending returns holds every element of the set, in order.
LEMMA AscendingFacts ==
    ASSUME NEW A \in SUBSET Nat, IsFiniteSet(A)
    PROVE  /\ Ascending(A) \in Seq(A)
           /\ IsAscending(Ascending(A))
           /\ \A a \in A : \E i \in DOMAIN Ascending(A) : Ascending(A)[i] = a
<1>. DEFINE n == Cardinality(A)
            s == Ascending(A)
<1>1. n \in Nat
  BY FS_CardinalityType
<1>2. s \in [1 .. n -> A] /\ IsAscending(s)
  BY AscendingExists DEF Ascending, IsAscending
<1>. HIDE DEF n, s
<1>3. \A i, j \in 1 .. n : i # j => s[i] # s[j]
  <2>1. SUFFICES ASSUME NEW i \in 1 .. n, NEW j \in 1 .. n, i # j PROVE s[i] # s[j]
    OBVIOUS
  <2>2. s[i] \in A /\ s[j] \in A /\ (i < j \/ j < i) /\ DOMAIN s = 1 .. n
    <3>1. i < j \/ j < i
      BY <1>1, <2>1
    <3>. QED
      BY <1>2, <3>1
  <2>4. s[i] \in Nat /\ s[j] \in Nat
    BY <2>2
  <2>3. (i < j => s[i] < s[j]) /\ (j < i => s[j] < s[i])
    BY <1>2, <2>2 DEF IsAscending
  <2>. QED
    BY <2>2, <2>3, <2>4
<1>4. s \in Injection(1 .. n, A)
  BY <1>2, <1>3 DEF Injection, IsInjective
<1>5. Cardinality(1 .. n) = n
  BY <1>1, FS_Interval
<1>6. s \in Surjection(1 .. n, A)
  BY <1>4, <1>5, FS_Injection DEF n
<1>7. \A a \in A : \E i \in 1 .. n : s[i] = a
  BY <1>6 DEF Surjection
<1>. QED
  BY <1>1, <1>2, <1>7 DEF s

(***************************************************************************)
(* Rows and tables.  Both tables hold rows of the same form, with their    *)
(* own states.                                                             *)
(***************************************************************************)
Rows(states) == [update : Update, state : states, attempts : Nat, avail : Int]

InboxStates  == {"pending", "running", "completed", "dead"}
OutboxStates == {"pending", "sending", "sent", "dead"}

\* The rows of the inbox and the outbox.
LEMMA RowForms == InboxRow = Rows(InboxStates) /\ OutboxRow = Rows(OutboxStates)
BY DEF InboxRow, OutboxRow, Rows, InboxStates, OutboxStates

\* The fields of a row, and a row put together from them.
LEMMA RowFields ==
    ASSUME NEW states, NEW r \in Rows(states)
    PROVE  r.update \in Update /\ r.state \in states /\ r.attempts \in Nat /\ r.avail \in Int
BY DEF Rows

\* The delay of FailInbox and OutboxFailed is a number of ticks.
LEMMA RetryDelayType ==
    ASSUME NEW k \in Nat
    PROVE  RetryDelay(k) \in Nat
<1>. DEFINE m == IF k < 6 THEN k ELSE 6
            p == PowerOfTwo(m)
<1>1. m \in 0 .. 6
  OBVIOUS
<1>2. p \in Nat
  BY <1>1 DEF PowerOfTwo
<1>. HIDE DEF m, p
<1>3. TicksPerSecond * p \in Nat
  BY <1>2, TicksAssumption
<1>. QED
  BY <1>3 DEF RetryDelay, m, p

\* A fresh row, a claimed row, a failed row and a row whose state alone has
\* changed are rows for the same update.
LEMMA FreshFacts ==
    ASSUME NEW states, "pending" \in states, NEW u \in Update, now \in Nat
    PROVE  /\ Fresh(u) \in Rows(states)
           /\ Fresh(u).update = u /\ Fresh(u).state = "pending" /\ Fresh(u).attempts = 0
BY DEF Rows, Fresh

\* The row that a claim makes.
LEMMA ClaimedFacts ==
    ASSUME NEW states, NEW r \in Rows(states), NEW new \in states
    PROVE  LET c == ClaimedRow(r, new)
           IN  /\ c \in Rows(states) /\ c.update = r.update
               /\ c.state = new /\ c.attempts = r.attempts + 1
<1>. DEFINE k == r.attempts + 1
            c == ClaimedRow(r, new)
<1>1. k \in Nat
  BY RowFields
<1>2. c = [r EXCEPT !.state = new, !.attempts = k]
  BY DEF ClaimedRow
<1>. HIDE DEF k, c
<1>3. c \in Rows(states) /\ c.update = r.update /\ c.state = new /\ c.attempts = k
  BY <1>1, <1>2 DEF Rows
<1>. QED
  BY <1>3 DEF k, c

\* The row that a failure makes.
LEMMA FailedFacts ==
    ASSUME NEW states, {"pending", "dead"} \subseteq states, NEW r \in Rows(states),
           NEW k \in Nat, now \in Nat
    PROVE  LET f == FailedRow(r, k)
           IN  /\ f \in Rows(states) /\ f.update = r.update /\ f.attempts = r.attempts
               /\ f.state = IF k >= MaxAttempts THEN "dead" ELSE "pending"
<1>. DEFINE a == now + RetryDelay(k)
            new == IF k >= MaxAttempts THEN "dead" ELSE "pending"
            f == FailedRow(r, k)
<1>1. a \in Int
  BY RetryDelayType
<1>2. new \in states
  OBVIOUS
<1>3. f = [r EXCEPT !.state = new, !.avail = a]
  BY DEF FailedRow
<1>. HIDE DEF a, new, f
<1>4. f \in Rows(states) /\ f.update = r.update /\ f.attempts = r.attempts /\ f.state = new
  BY <1>1, <1>2, <1>3 DEF Rows
<1>. QED
  BY <1>4 DEF new, f

\* A row whose state alone changes.
LEMMA MovedFacts ==
    ASSUME NEW states, NEW r \in Rows(states), NEW new \in states
    PROVE  LET m == [r EXCEPT !.state = new]
           IN  /\ m \in Rows(states) /\ m.update = r.update
               /\ m.state = new /\ m.attempts = r.attempts
BY DEF Rows

\* Writing one row of a table leaves the others as they are.
LEMMA EditFacts ==
    ASSUME NEW R, NEW t \in Seq(R), NEW n \in DOMAIN t, NEW r \in R
    PROVE  LET e == [t EXCEPT ![n] = r]
           IN  /\ e \in Seq(R) /\ DOMAIN e = DOMAIN t /\ e[n] = r
               /\ \A m \in DOMAIN t : m # n => e[m] = t[m]
OBVIOUS

\* INSERT OR IGNORE keeps every row, and adds a fresh one where there was none.
LEMMA InsertedFacts ==
    ASSUME NEW R, NEW t \in Seq(R), NEW u, Fresh(u) \in R
    PROVE  LET s == Inserted(t, u)
           IN  /\ s \in Seq(R) /\ DOMAIN t \subseteq DOMAIN s
               /\ \A n \in DOMAIN t : s[n] = t[n]
               /\ HasRow(t, u) => s = t
               /\ ~HasRow(t, u) => \E k : /\ DOMAIN s = DOMAIN t \cup {k} /\ k \notin DOMAIN t
                                          /\ s[k] = Fresh(u)
<1>. DEFINE s == Inserted(t, u)
<1>1. CASE HasRow(t, u)
  BY <1>1 DEF Inserted
<1>2. CASE ~HasRow(t, u)
  <2>1. s = Append(t, Fresh(u))
    BY <1>2 DEF Inserted
  <2>. HIDE DEF s
  <2>2. /\ s \in Seq(R) /\ DOMAIN s = 1 .. Len(t) + 1 /\ DOMAIN t = 1 .. Len(t)
        /\ s[Len(t) + 1] = Fresh(u)
        /\ \A n \in DOMAIN t : s[n] = t[n]
    BY <2>1
  <2>3. Len(t) \in Nat
    OBVIOUS
  <2>4. Len(t) + 1 \notin DOMAIN t /\ DOMAIN s = DOMAIN t \cup {Len(t) + 1}
    BY <2>2, <2>3
  <2>. QED
    BY <1>2, <2>2, <2>4 DEF s
<1>. QED
  BY <1>1, <1>2

\* Open changes the state of the rows that were being worked on, nothing else.
LEMMA ReopenedFacts ==
    ASSUME NEW states, "pending" \in states, NEW t \in Seq(Rows(states)), NEW active
    PROVE  LET s == Reopened(t, active)
           IN  /\ s \in Seq(Rows(states)) /\ DOMAIN s = DOMAIN t
               /\ \A n \in DOMAIN t :
                     /\ s[n].update = t[n].update /\ s[n].attempts = t[n].attempts
                     /\ t[n].state = active => s[n].state = "pending"
                     /\ t[n].state # active => s[n] = t[n]
<1>. DEFINE s == Reopened(t, active)
<1>1. s = [n \in DOMAIN t |-> IF t[n].state = active THEN [t[n] EXCEPT !.state = "pending"]
                              ELSE t[n]]
  BY DEF Reopened
<1>. HIDE DEF s
<1>2. ASSUME NEW n \in DOMAIN t
      PROVE  /\ s[n] \in Rows(states)
             /\ s[n].update = t[n].update /\ s[n].attempts = t[n].attempts
             /\ t[n].state = active => s[n].state = "pending"
             /\ t[n].state # active => s[n] = t[n]
  <2>1. t[n] \in Rows(states)
    OBVIOUS
  <2>. QED
    BY <1>1, <2>1, MovedFacts
<1>3. DOMAIN s = DOMAIN t /\ DOMAIN t = 1 .. Len(t) /\ Len(t) \in Nat
  BY <1>1
<1>4. s \in Seq(Rows(states))
  BY <1>1, <1>2, <1>3
<1>. QED
  BY <1>2, <1>3, <1>4 DEF s

(***************************************************************************)
(* What a poll returns.                                                    *)
(***************************************************************************)
LEMMA ReturnedFacts ==
    ASSUME queue \subseteq Update
    PROVE  /\ Returned \in Seq(Update)
           /\ IsAscending(Returned)
           /\ \A i \in DOMAIN Returned : Returned[i] \in Unconfirmed
           /\ \A i \in DOMAIN Returned, v \in Unconfirmed :
                 (v < Returned[i] /\ Origin[v] # "nameless")
                     => \E j \in DOMAIN Returned : j < i /\ Returned[j] = v
<1>. DEFINE F == FirstOf(Unconfirmed)
            A == {u \in F : Origin[u] # "nameless"}
<1>1. Update \in SUBSET Nat /\ IsFiniteSet(Update)
  BY UpdatesAssumption, FS_Interval DEF Update
<1>2. A \subseteq F /\ F \subseteq Unconfirmed /\ Unconfirmed \subseteq Update
  BY DEF FirstOf, Unconfirmed
<1>3. A \in SUBSET Nat /\ IsFiniteSet(A)
  BY <1>1, <1>2, FS_Subset
<1>4. Returned = Ascending(A)
  BY DEF Returned
<1>. DEFINE s == Returned
<1>5. /\ s \in Seq(A) /\ IsAscending(s)
      /\ \A a \in A : \E i \in DOMAIN s : s[i] = a
  BY <1>3, <1>4, AscendingFacts
<1>6. ASSUME NEW w \in F, NEW v \in Unconfirmed, v < w
      PROVE  v \in F
  <2>. DEFINE V == {x \in Unconfirmed : x < v}
              W == {x \in Unconfirmed : x < w}
  <2>1. v \in Nat /\ w \in Nat /\ \A x \in Unconfirmed : x \in Nat
    BY <1>1, <1>2
  <2>2. V \in SUBSET W /\ W \in SUBSET Update
    <3>1. \A x \in Unconfirmed : x < v => x < w
      BY <1>6, <2>1
    <3>2. W \subseteq Update
      BY <1>2
    <3>. QED
      BY <3>1, <3>2
  <2>3. IsFiniteSet(W) /\ IsFiniteSet(V)
    BY <1>1, <2>2, FS_Subset
  <2>4. Cardinality(V) \in Nat /\ Cardinality(W) \in Nat /\ Cardinality(V) <= Cardinality(W)
    BY <2>2, <2>3, FS_Subset, FS_CardinalityType
  <2>5. Cardinality(W) < BatchLimit
    BY DEF FirstOf
  <2>6. Cardinality(V) < BatchLimit
    BY <2>4, <2>5, BoundsAssumption
  <2>. QED
    BY <2>6 DEF FirstOf
<1>. HIDE DEF A, F, s
<1>7. \A i \in DOMAIN s : s[i] \in A
  BY <1>5
<1>8. ASSUME NEW i \in DOMAIN s, NEW v \in Unconfirmed, v < s[i], Origin[v] # "nameless"
      PROVE  \E j \in DOMAIN s : j < i /\ s[j] = v
  <2>1. v \in A
    BY <1>2, <1>6, <1>7, <1>8 DEF A
  <2>2. PICK j \in DOMAIN s : s[j] = v
    BY <1>5, <2>1
  <2>3. v \in Nat /\ s[i] \in Nat /\ i \in Nat /\ j \in Nat
    <3>1. \A a \in A : a \in Nat
      BY <1>3
    <3>2. i \in Nat /\ j \in Nat
      BY <1>5
    <3>. QED
      BY <1>7, <2>1, <3>1, <3>2
  <2>4. ~(i = j) /\ ~(i < j)
    BY <1>5, <1>8, <2>2, <2>3 DEF IsAscending
  <2>. QED
    BY <2>2, <2>3, <2>4
<1>9. s \in Seq(Update)
  BY <1>2, <1>5
<1>. QED
  BY <1>2, <1>5, <1>7, <1>8, <1>9 DEF s

\* The rest of a batch.
LEMMA TailFacts ==
    ASSUME NEW R, NEW s \in Seq(R), s # <<>>
    PROVE  /\ Head(s) \in R /\ Head(s) = s[1] /\ 1 \in DOMAIN s
           /\ Tail(s) \in Seq(R)
           /\ \A i \in DOMAIN Tail(s) : i + 1 \in DOMAIN s /\ Tail(s)[i] = s[i + 1]
           /\ \A i \in DOMAIN s : i # 1 => i - 1 \in DOMAIN Tail(s)
OBVIOUS

(***************************************************************************)
(* Type correctness.                                                       *)
(***************************************************************************)
HandlingPcs == {"handling", "completing", "failing"}
SendingPcs  == {"sending", "sent", "unsent"}

\* What TypeOK says of the rows, one fact at a time.
LEMMA TypeFacts ==
    ASSUME TypeOK
    PROVE  /\ now \in Nat
           /\ inbox \in Seq(Rows(InboxStates)) /\ outbox \in Seq(Rows(OutboxStates))
           /\ \A n \in DOMAIN inbox : inbox[n] \in Rows(InboxStates)
           /\ \A n \in DOMAIN outbox : outbox[n] \in Rows(OutboxStates)
<1>1. now \in Nat
  BY BoundsAssumption DEF TypeOK
<1>2. inbox \in Seq(Rows(InboxStates)) /\ outbox \in Seq(Rows(OutboxStates))
  BY RowForms DEF TypeOK
<1>. QED
  BY <1>1, <1>2

\* The tables start empty.
LEMMA TypeStarts == Init => TypeOK
<1>. SUFFICES ASSUME Init PROVE TypeOK
  OBVIOUS
<1>. QED
  BY UpdatesAssumption, BoundsAssumption DEF Init, TypeOK

\* The tables after a step: what each action makes of them has the type of a
\* table.
LEMMA TablesType ==
    ASSUME TypeOK, Next
    PROVE  inbox' \in Seq(InboxRow) /\ outbox' \in Seq(OutboxRow)
<1>. DEFINE Goal == inbox' \in Seq(InboxRow) /\ outbox' \in Seq(OutboxRow)
<1>. USE RowForms, TypeFacts
<1>0. ASSUME UNCHANGED tables PROVE Goal
  BY <1>0 DEF TypeOK, tables
<1>1. CASE Write \/ Poll \/ PollFails \/ InboxDrained \/ Handle \/ CompleteFails
           \/ OutboxDrained \/ Send \/ Die \/ Tick
  BY <1>0, <1>1 DEF Write, Poll, PollFails, InboxDrained, Handle, CompleteFails, OutboxDrained,
                    Send, Die, Tick, OutboxStep, tables
<1>2. CASE Open
  BY <1>2, ReopenedFacts DEF Open, InboxStates, OutboxStates
<1>3. ASSUME NEW u \in Update, Refuse(u) \/ RateLimit(u) \/ IngestFails(u) PROVE Goal
  BY <1>0, <1>3 DEF Refuse, RateLimit, IngestFails, TakeUpdate, tables
<1>4. ASSUME NEW u \in Update, Ingest(u) PROVE Goal
  <2>1. Fresh(u) \in Rows(InboxStates)
    BY FreshFacts DEF InboxStates
  <2>2. inbox' = Inserted(inbox, u) /\ outbox' = outbox
    BY <1>4 DEF Ingest, TakeUpdate
  <2>. QED
    BY <2>1, <2>2, InsertedFacts
<1>5. CASE ClaimInbox
  <2>1. PICK n \in DOMAIN inbox : inbox' = [inbox EXCEPT ![n] = ClaimedRow(inbox[n], "running")]
    BY <1>5 DEF ClaimInbox, Ready
  <2>2. ClaimedRow(inbox[n], "running") \in Rows(InboxStates)
    BY ClaimedFacts DEF InboxStates
  <2>3. outbox' = outbox
    BY <1>5 DEF ClaimInbox
  <2>. QED
    BY <2>1, <2>2, <2>3, EditFacts
<1>6. CASE CompleteWithOutbox
  <2>1. cur \in DOMAIN inbox
    BY <1>6 DEF CompleteWithOutbox, TypeOK
  <2>2. inbox[cur].update \in Update
    BY <2>1, RowFields
  <2>3. Fresh(inbox[cur].update) \in Rows(OutboxStates)
    BY <2>2, FreshFacts DEF OutboxStates
  <2>4. outbox' \in Seq(OutboxRow)
    BY <1>6, <2>3, InsertedFacts DEF CompleteWithOutbox
  <2>5. [inbox[cur] EXCEPT !.state = "completed"] \in Rows(InboxStates)
    BY <2>1, MovedFacts DEF InboxStates
  <2>6. inbox' = [inbox EXCEPT ![cur] = [inbox[cur] EXCEPT !.state = "completed"]]
    BY <1>6 DEF CompleteWithOutbox, Completed
  <2>. QED
    BY <2>1, <2>4, <2>5, <2>6, EditFacts
<1>7. CASE FailInbox
  <2>1. cur \in DOMAIN inbox
    BY <1>7 DEF FailInbox, TypeOK
  <2>2. inbox[cur].attempts \in Nat
    BY <2>1, RowFields
  <2>3. /\ FailedRow(inbox[cur], inbox[cur].attempts) \in Rows(InboxStates)
        /\ FailedRow(inbox[cur], 0) \in Rows(InboxStates)
    BY <2>1, <2>2, FailedFacts DEF InboxStates
  <2>4. \/ inbox' = [inbox EXCEPT ![cur] = FailedRow(inbox[cur], inbox[cur].attempts)]
        \/ inbox' = [inbox EXCEPT ![cur] = FailedRow(inbox[cur], 0)]
        \/ inbox' = inbox
    BY <1>7 DEF FailInbox
  <2>5. outbox' = outbox
    BY <1>7 DEF FailInbox
  <2>. QED
    BY <2>1, <2>3, <2>4, <2>5, EditFacts
<1>8. CASE ClaimOutbox
  <2>1. PICK n \in DOMAIN outbox :
            outbox' = [outbox EXCEPT ![n] = ClaimedRow(outbox[n], "sending")]
    BY <1>8 DEF ClaimOutbox, Ready
  <2>2. ClaimedRow(outbox[n], "sending") \in Rows(OutboxStates)
    BY ClaimedFacts DEF OutboxStates
  <2>3. inbox' = inbox
    BY <1>8 DEF ClaimOutbox, OutboxStep
  <2>. QED
    BY <2>1, <2>2, <2>3, EditFacts
<1>9. CASE OutboxSent \/ OutboxFailed
  <2>1. cur \in DOMAIN outbox /\ inbox' = inbox
    BY <1>9 DEF OutboxSent, OutboxFailed, OutboxStep, TypeOK
  <2>2. outbox[cur].attempts \in Nat
    BY <2>1, RowFields
  <2>3. /\ FailedRow(outbox[cur], outbox[cur].attempts) \in Rows(OutboxStates)
        /\ FailedRow(outbox[cur], 0) \in Rows(OutboxStates)
        /\ [outbox[cur] EXCEPT !.state = "sent"] \in Rows(OutboxStates)
    BY <2>1, <2>2, FailedFacts, MovedFacts DEF OutboxStates
  <2>4. \/ outbox' = [outbox EXCEPT ![cur] = FailedRow(outbox[cur], outbox[cur].attempts)]
        \/ outbox' = [outbox EXCEPT ![cur] = FailedRow(outbox[cur], 0)]
        \/ outbox' = [outbox EXCEPT ![cur] = [outbox[cur] EXCEPT !.state = "sent"]]
        \/ outbox' = outbox
    BY <1>9 DEF OutboxSent, OutboxFailed
  <2>5. \A r \in Rows(OutboxStates) : [outbox EXCEPT ![cur] = r] \in Seq(Rows(OutboxStates))
    BY <2>1, EditFacts
  <2>. QED
    BY <2>1, <2>3, <2>4, <2>5
<1>. QED
  BY <1>1, <1>2, <1>3, <1>4, <1>5, <1>6, <1>7, <1>8, <1>9 DEF Next, Loop, Drain

\* A call fails or it does not; the failures are counted.
LEMMA FaultCount ==
    ASSUME TypeOK, Fault \/ NoFault
    PROVE  faults' \in 0 .. MaxFaults /\ faults <= faults' /\ (Fault => faults' = faults + 1)
<1>1. faults \in 0 .. MaxFaults /\ MaxFaults \in Nat
  BY BoundsAssumption DEF TypeOK
<1>. QED
  BY <1>1 DEF Fault, NoFault

\* Every step keeps the types.
LEMMA TypeStep ==
    ASSUME TypeOK, [Next]_vars
    PROVE  TypeOK'
<1>1. CASE UNCHANGED vars
  BY <1>1 DEF vars, outside, tables, memory, record, TypeOK
<1>2. SUFFICES ASSUME Next PROVE TypeOK'
  BY <1>1
<1>3. inbox' \in Seq(InboxRow) /\ outbox' \in Seq(OutboxRow)
  BY <1>2, TablesType
<1>4. CASE Write
  <2>1. written \in 0 .. MaxUpdates /\ MaxUpdates \in Nat /\ written < MaxUpdates
    BY <1>4, UpdatesAssumption DEF Write, TypeOK
  <2>2. written + 1 \in Update /\ written + 1 \in 0 .. MaxUpdates
    BY <2>1 DEF Update
  <2>3. written' \in 0 .. MaxUpdates /\ queue' \subseteq Update
    BY <1>4, <2>2 DEF Write, TypeOK
  <2>. QED
    BY <1>4, <2>3 DEF Write, tables, memory, record, TypeOK
<1>5. CASE Tick
  <2>1. now \in 0 .. MaxTime /\ MaxTime \in Nat /\ now < MaxTime
    BY <1>5, BoundsAssumption DEF Tick, TypeOK
  <2>2. now' \in 0 .. MaxTime
    BY <1>5, <2>1 DEF Tick
  <2>. QED
    BY <1>5, <2>2 DEF Tick, outside, tables, memory, record, TypeOK
<1>6. CASE Open
  BY <1>3, <1>6 DEF Open, Goto, outside, record, TypeOK
<1>7. CASE Die
  <2>1. restarts \in 0 .. MaxRestarts /\ MaxRestarts \in Nat /\ restarts < MaxRestarts
    BY <1>7, BoundsAssumption DEF Die, TypeOK
  <2>2. restarts' \in 0 .. MaxRestarts
    BY <1>7, <2>1 DEF Die
  <2>. QED
    BY <1>3, <1>7, <2>2 DEF Die, outside, record, TypeOK
<1>8. CASE Poll
  <2>1. Returned \in Seq(Update)
    BY ReturnedFacts DEF TypeOK
  <2>2. queue' \subseteq Update
    BY <1>8 DEF Poll, Unconfirmed, TypeOK
  <2>. QED
    BY <1>3, <1>8, <2>1, <2>2 DEF Poll, tables, record, TypeOK
<1>9. CASE PollFails
  <2>1. queue' \subseteq Update
    BY <1>9 DEF PollFails, Unconfirmed, TypeOK
  <2>. QED
    BY <1>3, <1>9, <2>1, FaultCount DEF PollFails, memory, tables, record, TypeOK
<1>10. ASSUME NEW u \in Update, Refuse(u) \/ RateLimit(u) \/ Ingest(u) \/ IngestFails(u)
      PROVE  TypeOK'
  <2>1. TakeUpdate(u)
    BY <1>10 DEF Refuse, RateLimit, Ingest, IngestFails
  <2>2. batch \in Seq(Update) /\ batch # <<>> /\ pc = "batch"
    BY <2>1 DEF TakeUpdate, TypeOK
  <2>3. batch' \in Seq(Update) /\ pc' = (IF batch' = <<>> THEN "inbox" ELSE "batch")
    BY <2>1, <2>2, TailFacts DEF TakeUpdate
  <2>4. offset' \in Nat
    <3>1. offset \in Nat /\ u \in Nat
      BY UpdatesAssumption DEF TypeOK, Update
    <3>. QED
      BY <2>1, <3>1 DEF TakeUpdate, NextOffset
  <2>5. limited' \subseteq Update /\ unstored' \subseteq Update /\ faults' \in 0 .. MaxFaults
    BY <1>10, FaultCount DEF Refuse, RateLimit, Ingest, IngestFails, NoFault, record, TypeOK
  <2>. QED
    BY <1>3, <2>1, <2>3, <2>4, <2>5 DEF TakeUpdate, outside, TypeOK
<1>11. CASE ClaimInbox
  <2>1. PICK n \in DOMAIN inbox :
           cur' = n /\ inbox' = [inbox EXCEPT ![n] = ClaimedRow(inbox[n], "running")]
    BY <1>11 DEF ClaimInbox, Ready
  <2>2. cur' \in DOMAIN inbox'
    BY <2>1 DEF TypeOK
  <2>. QED
    BY <1>3, <1>11, <2>2 DEF ClaimInbox, InboxStep, NoFault, outside, record, TypeOK
<1>12. CASE ClaimOutbox
  <2>1. PICK n \in DOMAIN outbox :
           cur' = n /\ outbox' = [outbox EXCEPT ![n] = ClaimedRow(outbox[n], "sending")]
    BY <1>12 DEF ClaimOutbox, Ready
  <2>2. cur' \in DOMAIN outbox'
    BY <2>1 DEF TypeOK
  <2>. QED
    BY <1>3, <1>12, <2>2 DEF ClaimOutbox, OutboxStep, NoFault, record, TypeOK
<1>13. CASE InboxDrained \/ Handle \/ CompleteWithOutbox \/ CompleteFails \/ FailInbox
  <2>1. faults' \in 0 .. MaxFaults
    BY <1>13, FaultCount DEF InboxDrained, Handle, CompleteWithOutbox, CompleteFails, FailInbox
  <2>2. pc' \in HandlingPcs => UNCHANGED <<tables, cur>> /\ pc \in HandlingPcs
    BY <1>13 DEF InboxDrained, Handle, CompleteWithOutbox, CompleteFails, FailInbox, HandlingPcs
  <2>3. pc' \in {"inbox", "outbox", "completing", "failing"}
    BY <1>13 DEF InboxDrained, Handle, CompleteWithOutbox, CompleteFails, FailInbox
  <2>4. UNCHANGED <<now, outside, offset, batch, record, restarts>>
    BY <1>13 DEF InboxDrained, Handle, CompleteWithOutbox, CompleteFails, FailInbox, InboxStep
  <2>. QED
    BY <1>3, <2>1, <2>2, <2>3, <2>4 DEF HandlingPcs, outside, record, tables, TypeOK
<1>14. CASE OutboxDrained \/ Send \/ OutboxSent \/ OutboxFailed
  <2>1. faults' \in 0 .. MaxFaults
    BY <1>14, FaultCount DEF OutboxDrained, Send, OutboxSent, OutboxFailed
  <2>2. pc' \in SendingPcs => UNCHANGED <<outbox, cur>> /\ pc \in SendingPcs
    BY <1>14 DEF OutboxDrained, Send, OutboxSent, OutboxFailed, SendingPcs
  <2>3. pc' \in {"poll", "outbox", "sent", "unsent"}
    BY <1>14 DEF OutboxDrained, Send, OutboxSent, OutboxFailed, SendFailsTo
  <2>4. UNCHANGED <<now, written, queue, inbox, offset, batch, record, restarts>>
    BY <1>14 DEF OutboxDrained, Send, OutboxSent, OutboxFailed, OutboxStep
  <2>5. delivered' \in [Update -> Nat]
    <3>1. CASE Send
      <4>1. cur \in DOMAIN outbox
        BY <3>1 DEF Send, TypeOK
      <4>2. outbox[cur].update \in Update
        BY <4>1, TypeFacts, RowFields
      <4>3. Delivered \in [Update -> Nat]
        BY <4>2 DEF Delivered, TypeOK
      <4>. QED
        BY <3>1, <4>3 DEF Send, TypeOK
    <3>2. CASE OutboxDrained \/ OutboxSent \/ OutboxFailed
      BY <3>2 DEF OutboxDrained, OutboxSent, OutboxFailed, TypeOK
    <3>. QED
      BY <1>14, <3>1, <3>2
  <2>. QED
    BY <1>3, <2>1, <2>2, <2>3, <2>4, <2>5 DEF SendingPcs, record, TypeOK
<1>. QED
  BY <1>2, <1>4, <1>5, <1>6, <1>7, <1>8, <1>9, <1>10, <1>11, <1>12, <1>13, <1>14
     DEF Next, Loop, Drain

\* Every behaviour of the gateway keeps its variables in their types, and the
\* row the loop is working on exists (Run, drainInbox, drainOutbox).
THEOREM GatewayTypes == Spec => []TypeOK
<1>1. TypeOK /\ [Next]_vars => TypeOK'
  BY TypeStep
<1>. QED
  BY <1>1, TypeStarts, PTL DEF Spec

----------------------------------------------------------------------------
(***************************************************************************)
(* The inductive invariants.                                               *)
(***************************************************************************)

\* Ingest and CompleteWithOutbox insert a row once.
UniqueRows(table) == \A m, n \in DOMAIN table : table[m].update = table[n].update => m = n

\* The two tables agree about which messages have been answered.
TablesAgree ==
    /\ \A m \in DOMAIN outbox : \E n \in DOMAIN inbox :
          inbox[n].update = outbox[m].update /\ inbox[n].state = "completed"
    /\ \A n \in DOMAIN inbox : inbox[n].state = "completed" => HasRow(outbox, inbox[n].update)

\* The row the loop holds is the one it has claimed, and its reply has been
\* delivered before it is recorded as sent.
RowInHand ==
    /\ pc \in HandlingPcs => inbox[cur].state = "running"
    /\ pc \in SendingPcs => outbox[cur].state = "sending"
    /\ pc = "sent" => delivered[outbox[cur].update] > 0

\* Attempts that are allowed to a row: MaxAttempts, and those that a death or a
\* failed call has paid for.
Limit == MaxAttempts + restarts + faults

\* A row that may be claimed again, now or after Open, has an attempt left.
Tries(table, active, held, limit) ==
    \A n \in DOMAIN table :
        /\ table[n].attempts <= limit
        /\ table[n].state = "dead" => table[n].attempts >= MaxAttempts
        /\ table[n].state = "pending" => table[n].attempts < limit
        /\ (table[n].state = active /\ n \notin held) => table[n].attempts < limit

InHand(pcs) == IF pc \in pcs THEN {cur} ELSE {}

TriesInv ==
    /\ Tries(inbox, "running", InHand(HandlingPcs), Limit)
    /\ Tries(outbox, "sending", InHand(SendingPcs), Limit)

RowsInv ==
    /\ UniqueRows(inbox) /\ UniqueRows(outbox)
    /\ TablesAgree /\ RowInHand /\ SentWasDelivered

Handled(u) == HasRow(inbox, u) \/ u \in limited \cup unstored

\* What the offset has passed, and what Telegram has forgotten, is dealt with;
\* so is what comes before an update of the batch, unless it is in the batch too.
PollInv ==
    /\ queue \subseteq 1 .. written
    /\ offset <= written + 1
    /\ \A i \in DOMAIN batch : batch[i] \in 1 .. written
    /\ \A u \in 1 .. written :
          (Origin[u] = "owner" /\ (u \notin queue \/ u < offset)) => Handled(u)
    /\ \A i \in DOMAIN batch, u \in 1 .. written :
          (Origin[u] = "owner" /\ u < batch[i])
              => Handled(u) \/ \E j \in DOMAIN batch : j < i /\ batch[j] = u

----------------------------------------------------------------------------
(***************************************************************************)
(* What a step does to the tables and to the row in hand.                  *)
(***************************************************************************)
EditRow(old, new, n) ==
    /\ n \in DOMAIN old /\ DOMAIN new = DOMAIN old
    /\ new[n].update = old[n].update
    /\ \A m \in DOMAIN old : m # n => new[m] = old[m]

ClaimRow(old, new, n, active) ==
    /\ EditRow(old, new, n)
    /\ old[n].state = "pending" /\ new[n].state = active
    /\ new[n].attempts = old[n].attempts + 1

FailRow(old, new, n) ==
    /\ EditRow(old, new, n)
    /\ new[n].attempts = old[n].attempts
    /\ \/ /\ faults' = faults
          /\ new[n].state = IF old[n].attempts >= MaxAttempts THEN "dead" ELSE "pending"
       \/ faults' = faults + 1 /\ new[n].state = "pending"

\* Nothing happens to the tables, and the loop goes on with what it holds.
Keeps ==
    /\ UNCHANGED <<inbox, outbox, delivered, cur, restarts>>
    /\ faults' \in {faults, faults + 1}
    /\ pc' = "down" <=> pc = "down"
    /\ pc' \in HandlingPcs <=> pc \in HandlingPcs
    /\ pc' \in SendingPcs <=> pc \in SendingPcs
    /\ pc' = "sent" <=> pc = "sent"

\* A row in hand is left as it is: by a death, or after a failed call.
Drops ==
    /\ UNCHANGED <<inbox, outbox, delivered>>
    /\ \/ pc' = "down" /\ restarts' = restarts + 1 /\ faults' = faults
       \/ /\ pc # "down" /\ pc' \in {"inbox", "outbox", "poll"}
          /\ restarts' = restarts /\ faults' = faults + 1

Reopens ==
    /\ pc = "down" /\ pc' = "poll"
    /\ inbox' = Reopened(inbox, "running") /\ outbox' = Reopened(outbox, "sending")
    /\ UNCHANGED <<delivered, restarts, faults>>

TakesIn(u) ==
    /\ Admitted(u)
    /\ pc = "batch" /\ pc' \in {"batch", "inbox"}
    /\ inbox' = Inserted(inbox, u)
    /\ UNCHANGED <<outbox, delivered, restarts, faults, cur>>

ClaimsInbox(n) ==
    /\ pc = "inbox" /\ pc' = "handling" /\ cur' = n
    /\ ClaimRow(inbox, inbox', n, "running")
    /\ UNCHANGED <<outbox, delivered, restarts, faults>>

Completes ==
    /\ pc = "completing" /\ pc' = "inbox" /\ cur \in DOMAIN inbox
    /\ EditRow(inbox, inbox', cur)
    /\ inbox'[cur].state = "completed" /\ inbox'[cur].attempts = inbox[cur].attempts
    /\ outbox' = Inserted(outbox, inbox[cur].update)
    /\ UNCHANGED <<delivered, restarts, faults, cur>>

FailsInbox ==
    /\ pc = "failing" /\ pc' = "inbox"
    /\ FailRow(inbox, inbox', cur)
    /\ UNCHANGED <<outbox, delivered, restarts, cur>>

ClaimsOutbox(n) ==
    /\ pc = "outbox" /\ pc' = "sending" /\ cur' = n
    /\ ClaimRow(outbox, outbox', n, "sending")
    /\ UNCHANGED <<inbox, delivered, restarts, faults>>

Sends ==
    /\ pc = "sending" /\ pc' \in {"sent", "unsent"} /\ cur \in DOMAIN outbox
    /\ delivered' \in {delivered, Delivered} /\ (pc' = "sent" => delivered' = Delivered)
    /\ UNCHANGED <<inbox, outbox, restarts, faults, cur>>

Records ==
    /\ pc = "sent" /\ pc' = "outbox"
    /\ EditRow(outbox, outbox', cur)
    /\ outbox'[cur].state = "sent" /\ outbox'[cur].attempts = outbox[cur].attempts
    /\ UNCHANGED <<inbox, delivered, restarts, faults, cur>>

FailsOutbox ==
    /\ pc = "unsent" /\ pc' = "poll"
    /\ FailRow(outbox, outbox', cur)
    /\ UNCHANGED <<inbox, delivered, restarts, cur>>

RowStep ==
    \/ Keeps \/ Drops \/ Reopens \/ Completes \/ FailsInbox \/ Sends \/ Records \/ FailsOutbox
    \/ \E u \in Update : TakesIn(u)
    \/ \E n \in DOMAIN inbox : ClaimsInbox(n)
    \/ \E n \in DOMAIN outbox : ClaimsOutbox(n)

\* What ClaimRow and FailRow say is what ClaimedRow and FailedRow do.
LEMMA ClaimRowFacts ==
    ASSUME NEW states, NEW t \in Seq(Rows(states)), NEW n \in DOMAIN t, NEW active \in states,
           t[n].state = "pending"
    PROVE  ClaimRow(t, [t EXCEPT ![n] = ClaimedRow(t[n], active)], n, active)
<1>. DEFINE c == ClaimedRow(t[n], active)
<1>1. t[n] \in Rows(states)
  OBVIOUS
<1>2. /\ c \in Rows(states) /\ c.update = t[n].update
      /\ c.state = active /\ c.attempts = t[n].attempts + 1
  BY <1>1, ClaimedFacts
<1>. HIDE DEF c
<1>. QED
  BY <1>2, EditFacts DEF ClaimRow, EditRow, c

\* FailInbox and FailOutbox, whether or not the counter is reset.
LEMMA FailRowFacts ==
    ASSUME NEW states, {"pending", "dead"} \subseteq states, NEW t \in Seq(Rows(states)),
           NEW n \in DOMAIN t, now \in Nat,
           NEW new,
           \/ NoFault /\ new = [t EXCEPT ![n] = FailedRow(t[n], t[n].attempts)]
           \/ Fault   /\ new = [t EXCEPT ![n] = FailedRow(t[n], 0)]
    PROVE  FailRow(t, new, n)
<1>1. t[n] \in Rows(states) /\ t[n].attempts \in Nat
  BY RowFields
<1>. DEFINE f == FailedRow(t[n], t[n].attempts)
            z == FailedRow(t[n], 0)
<1>2. /\ f \in Rows(states) /\ f.update = t[n].update /\ f.attempts = t[n].attempts
      /\ f.state = IF t[n].attempts >= MaxAttempts THEN "dead" ELSE "pending"
  BY <1>1, FailedFacts
<1>3. /\ z \in Rows(states) /\ z.update = t[n].update /\ z.attempts = t[n].attempts
      /\ z.state = IF 0 >= MaxAttempts THEN "dead" ELSE "pending"
  BY <1>1, FailedFacts
<1>4. z.state = "pending"
  BY <1>3, BoundsAssumption
<1>. HIDE DEF f, z
<1>5. CASE NoFault /\ new = [t EXCEPT ![n] = f]
  BY <1>2, <1>5, EditFacts DEF FailRow, EditRow, NoFault
<1>6. CASE Fault /\ new = [t EXCEPT ![n] = z]
  BY <1>3, <1>4, <1>6, EditFacts DEF FailRow, EditRow, Fault
<1>. QED
  BY <1>5, <1>6 DEF f, z

\* Every step is one of these.
LEMMA RowSteps ==
    ASSUME TypeOK, [Next]_vars
    PROVE  RowStep
<1>. USE TypeFacts
<1>1. CASE UNCHANGED vars
  BY <1>1 DEF vars, outside, tables, memory, RowStep, Keeps
<1>2. CASE Write \/ Tick \/ Poll
  BY <1>2 DEF Write, Tick, Poll, outside, tables, memory, HandlingPcs, SendingPcs, RowStep, Keeps
<1>3. CASE PollFails \/ InboxDrained \/ Handle \/ CompleteFails \/ OutboxDrained
  BY <1>3 DEF PollFails, InboxDrained, Handle, CompleteFails, OutboxDrained, InboxStep, OutboxStep,
              Fault, NoFault, outside, tables, memory, HandlingPcs, SendingPcs, RowStep, Keeps
<1>4. CASE Open
  BY <1>4 DEF Open, Goto, outside, RowStep, Reopens
<1>5. CASE Die
  BY <1>5 DEF Die, outside, tables, RowStep, Drops
<1>6. ASSUME NEW u \in Update, Refuse(u) \/ RateLimit(u) \/ IngestFails(u) PROVE RowStep
  BY <1>6 DEF Refuse, RateLimit, IngestFails, TakeUpdate, Fault, outside, HandlingPcs, SendingPcs,
              RowStep, Keeps
<1>7. ASSUME NEW u \in Update, Ingest(u) PROVE RowStep
  BY <1>7 DEF Ingest, TakeUpdate, outside, RowStep, TakesIn
<1>8. CASE ClaimInbox
  <2>1. PICK n \in DOMAIN inbox :
            /\ inbox[n].state = "pending" /\ cur' = n
            /\ inbox' = [inbox EXCEPT ![n] = ClaimedRow(inbox[n], "running")]
    BY <1>8 DEF ClaimInbox, Ready
  <2>2. ClaimRow(inbox, inbox', n, "running")
    BY <2>1, ClaimRowFacts DEF InboxStates
  <2>. QED
    BY <1>8, <2>1, <2>2 DEF ClaimInbox, InboxStep, NoFault, outside, RowStep, ClaimsInbox
<1>9. CASE CompleteWithOutbox
  <2>1. cur \in DOMAIN inbox
    BY <1>9 DEF CompleteWithOutbox, TypeOK
  <2>. DEFINE r == [inbox[cur] EXCEPT !.state = "completed"]
  <2>2. /\ r \in Rows(InboxStates) /\ r.update = inbox[cur].update
        /\ r.state = "completed" /\ r.attempts = inbox[cur].attempts
    BY <2>1, MovedFacts DEF InboxStates
  <2>3. inbox' = [inbox EXCEPT ![cur] = r]
    BY <1>9 DEF CompleteWithOutbox, Completed
  <2>. HIDE DEF r
  <2>4. EditRow(inbox, inbox', cur) /\ inbox'[cur] = r
    BY <2>1, <2>2, <2>3, EditFacts DEF EditRow
  <2>. QED
    BY <1>9, <2>1, <2>2, <2>4
       DEF CompleteWithOutbox, InboxStep, NoFault, outside, RowStep, Completes
<1>10. CASE FailInbox
  <2>1. cur \in DOMAIN inbox
    BY <1>10 DEF FailInbox, TypeOK
  <2>2. CASE Fault /\ UNCHANGED inbox
    BY <1>10, <2>2 DEF FailInbox, InboxStep, Fault, outside, RowStep, Drops
  <2>3. CASE ~(Fault /\ UNCHANGED inbox)
    <3>1. FailRow(inbox, inbox', cur)
      BY <1>10, <2>1, <2>3, FailRowFacts DEF FailInbox, InboxStates
    <3>. QED
      BY <1>10, <3>1 DEF FailInbox, InboxStep, outside, RowStep, FailsInbox
  <2>. QED
    BY <2>2, <2>3
<1>11. CASE ClaimOutbox
  <2>1. PICK n \in DOMAIN outbox :
            /\ outbox[n].state = "pending" /\ cur' = n
            /\ outbox' = [outbox EXCEPT ![n] = ClaimedRow(outbox[n], "sending")]
    BY <1>11 DEF ClaimOutbox, Ready
  <2>2. outbox \in Seq(Rows(OutboxStates)) /\ "sending" \in OutboxStates
    BY DEF OutboxStates
  <2>3. ClaimRow(outbox, outbox', n, "sending")
    BY <2>1, <2>2, ClaimRowFacts
  <2>. QED
    BY <1>11, <2>1, <2>3 DEF ClaimOutbox, OutboxStep, NoFault, RowStep, ClaimsOutbox
<1>12. CASE Send
  BY <1>12 DEF Send, SendFailsTo, OutboxStep, NoFault, TypeOK, RowStep, Sends
<1>13. CASE OutboxSent
  <2>1. cur \in DOMAIN outbox
    BY <1>13 DEF OutboxSent, TypeOK
  <2>2. CASE Fault /\ UNCHANGED outbox
    BY <1>13, <2>2 DEF OutboxSent, OutboxStep, Fault, RowStep, Drops
  <2>3. CASE ~(Fault /\ UNCHANGED outbox)
    <3>. DEFINE r == [outbox[cur] EXCEPT !.state = "sent"]
    <3>1. /\ r \in Rows(OutboxStates) /\ r.update = outbox[cur].update
          /\ r.state = "sent" /\ r.attempts = outbox[cur].attempts
      <4>1. outbox[cur] \in Rows(OutboxStates) /\ "sent" \in OutboxStates
        BY <2>1 DEF OutboxStates
      <4>. QED
        BY <4>1, MovedFacts
    <3>2. outbox' = [outbox EXCEPT ![cur] = r] /\ NoFault
      BY <1>13, <2>3 DEF OutboxSent
    <3>. HIDE DEF r
    <3>3. EditRow(outbox, outbox', cur) /\ outbox'[cur] = r
      BY <2>1, <3>1, <3>2, EditFacts DEF EditRow
    <3>. QED
      BY <1>13, <3>1, <3>2, <3>3 DEF OutboxSent, OutboxStep, NoFault, RowStep, Records
  <2>. QED
    BY <2>2, <2>3
<1>14. CASE OutboxFailed
  <2>1. cur \in DOMAIN outbox
    BY <1>14 DEF OutboxFailed, TypeOK
  <2>2. CASE Fault /\ UNCHANGED outbox
    BY <1>14, <2>2 DEF OutboxFailed, OutboxStep, Fault, RowStep, Drops
  <2>3. CASE ~(Fault /\ UNCHANGED outbox)
    <3>1. FailRow(outbox, outbox', cur)
      BY <1>14, <2>1, <2>3, FailRowFacts DEF OutboxFailed, OutboxStates
    <3>. QED
      BY <1>14, <3>1 DEF OutboxFailed, OutboxStep, RowStep, FailsOutbox
  <2>. QED
    BY <2>2, <2>3
<1>. QED
  BY <1>1, <1>2, <1>3, <1>4, <1>5, <1>6, <1>7, <1>8, <1>9, <1>10, <1>11, <1>12, <1>13, <1>14
     DEF Next, Loop, Drain

----------------------------------------------------------------------------
(***************************************************************************)
(* RowsInv.                                                                *)
(***************************************************************************)

\* An edited table has the updates it had.
LEMMA EditKeeps ==
    ASSUME NEW old, NEW new, NEW n, EditRow(old, new, n)
    PROVE  /\ \A m \in DOMAIN old : new[m].update = old[m].update
           /\ \A u : HasRow(new, u) <=> HasRow(old, u)
           /\ UniqueRows(old) => UniqueRows(new)
BY DEF EditRow, HasRow, UniqueRows

\* An INSERT OR IGNORE keeps the rows that are there.
LEMMA InsertKeeps ==
    ASSUME NEW states, NEW t \in Seq(Rows(states)), "pending" \in states, NEW u \in Update,
           now \in Nat
    PROVE  LET s == Inserted(t, u)
           IN  /\ DOMAIN t \subseteq DOMAIN s /\ \A n \in DOMAIN t : s[n] = t[n]
               /\ \A n \in DOMAIN s : n \notin DOMAIN t =>
                     /\ ~HasRow(t, u) /\ s[n].update = u
                     /\ s[n].state = "pending" /\ s[n].attempts = 0
               /\ \A v : HasRow(s, v) <=> HasRow(t, v) \/ v = u
               /\ UniqueRows(t) => UniqueRows(s)
<1>1. Fresh(u) \in Rows(states) /\ Fresh(u).update = u /\ Fresh(u).state = "pending"
      /\ Fresh(u).attempts = 0
  BY FreshFacts
<1>. DEFINE s == Inserted(t, u)
<1>2. /\ DOMAIN t \subseteq DOMAIN s
      /\ \A n \in DOMAIN t : s[n] = t[n]
      /\ HasRow(t, u) => s = t
      /\ ~HasRow(t, u) => \E k : /\ DOMAIN s = DOMAIN t \cup {k} /\ k \notin DOMAIN t
                                 /\ s[k] = Fresh(u)
  BY <1>1, InsertedFacts
<1>. HIDE DEF s
<1>3. CASE HasRow(t, u)
  BY <1>2, <1>3 DEF HasRow, s
<1>4. CASE ~HasRow(t, u)
  <2>1. PICK k : DOMAIN s = DOMAIN t \cup {k} /\ k \notin DOMAIN t /\ s[k] = Fresh(u)
    BY <1>2, <1>4
  <2>2. \A v : HasRow(s, v) <=> HasRow(t, v) \/ v = u
    BY <1>1, <1>2, <2>1 DEF HasRow
  <2>3. UniqueRows(t) => UniqueRows(s)
    BY <1>1, <1>2, <1>4, <2>1 DEF UniqueRows, HasRow
  <2>. QED
    BY <1>1, <1>2, <1>4, <2>1, <2>2, <2>3 DEF s
<1>. QED
  BY <1>3, <1>4

\* Empty tables satisfy RowsInv.
LEMMA RowsStarts == Init => RowsInv
BY DEF Init, RowsInv, UniqueRows, TablesAgree, RowInHand, SentWasDelivered, HandlingPcs, SendingPcs

\* Every kind of step keeps RowsInv.
LEMMA RowsInductive ==
    ASSUME TypeOK, RowsInv, RowStep
    PROVE  RowsInv'
<1>. USE TypeFacts
<1>. USE DEF RowsInv
<1>1. CASE Keeps
  BY <1>1 DEF Keeps, UniqueRows, TablesAgree, HasRow, RowInHand, SentWasDelivered
<1>2. CASE Drops
  BY <1>2 DEF Drops, UniqueRows, TablesAgree, HasRow, RowInHand, SentWasDelivered, HandlingPcs,
              SendingPcs
<1>3. CASE Reopens
  <2>1. /\ DOMAIN inbox' = DOMAIN inbox
        /\ \A n \in DOMAIN inbox : /\ inbox'[n].update = inbox[n].update
                                   /\ inbox'[n].state = "completed" <=> inbox[n].state = "completed"
    BY <1>3, ReopenedFacts DEF Reopens, InboxStates
  <2>2. /\ DOMAIN outbox' = DOMAIN outbox
        /\ \A n \in DOMAIN outbox : /\ outbox'[n].update = outbox[n].update
                                    /\ outbox'[n].state = "sent" <=> outbox[n].state = "sent"
    BY <1>3, ReopenedFacts DEF Reopens, OutboxStates
  <2>3. UniqueRows(inbox)' /\ UniqueRows(outbox)'
    BY <2>1, <2>2 DEF UniqueRows
  <2>4. TablesAgree'
    BY <2>1, <2>2 DEF TablesAgree, HasRow
  <2>5. RowInHand'
    BY <1>3 DEF Reopens, RowInHand, HandlingPcs, SendingPcs
  <2>6. SentWasDelivered'
    BY <1>3, <2>2 DEF Reopens, SentWasDelivered
  <2>. QED
    BY <2>3, <2>4, <2>5, <2>6
<1>4. ASSUME NEW u \in Update, TakesIn(u) PROVE RowsInv'
  <2>1. /\ DOMAIN inbox \subseteq DOMAIN inbox' /\ \A n \in DOMAIN inbox : inbox'[n] = inbox[n]
        /\ \A n \in DOMAIN inbox' : n \notin DOMAIN inbox =>
              inbox'[n].update = u /\ inbox'[n].state = "pending"
        /\ UniqueRows(inbox')
    BY <1>4, InsertKeeps DEF TakesIn, InboxStates
  <2>2. outbox' = outbox /\ delivered' = delivered /\ pc' \in {"batch", "inbox"}
    BY <1>4 DEF TakesIn
  <2>3. TablesAgree'
    BY <2>1, <2>2 DEF TablesAgree, HasRow
  <2>. QED
    BY <2>1, <2>2, <2>3 DEF UniqueRows, RowInHand, HandlingPcs, SendingPcs, SentWasDelivered
<1>5. ASSUME NEW n \in DOMAIN inbox, ClaimsInbox(n) PROVE RowsInv'
  <2>1. EditRow(inbox, inbox', n) /\ inbox[n].state = "pending" /\ inbox'[n].state = "running"
    BY <1>5 DEF ClaimsInbox, ClaimRow
  <2>2. UniqueRows(inbox)' /\ \A m \in DOMAIN inbox : inbox'[m].update = inbox[m].update
    BY <2>1, EditKeeps
  <2>3. TablesAgree'
    <3>1. /\ DOMAIN inbox' = DOMAIN inbox
          /\ \A m \in DOMAIN inbox :
                inbox'[m].state = "completed" <=> inbox[m].state = "completed"
      BY <2>1 DEF EditRow
    <3>2. outbox' = outbox
      BY <1>5 DEF ClaimsInbox
    <3>. QED
      BY <2>2, <3>1, <3>2 DEF TablesAgree, HasRow
  <2>. QED
    BY <1>5, <2>1, <2>2, <2>3
       DEF ClaimsInbox, UniqueRows, RowInHand, HandlingPcs, SendingPcs, SentWasDelivered
<1>6. CASE Completes
  <2>1. cur \in DOMAIN inbox /\ inbox[cur].update \in Update /\ inbox[cur].state = "running"
    BY <1>6, RowFields DEF Completes, RowInHand, HandlingPcs
  <2>. DEFINE u == inbox[cur].update
  <2>2. EditRow(inbox, inbox', cur) /\ inbox'[cur].state = "completed"
    BY <1>6 DEF Completes
  <2>3. /\ UniqueRows(inbox)' /\ \A m \in DOMAIN inbox : inbox'[m].update = inbox[m].update
    BY <2>2, EditKeeps
  <2>4. /\ DOMAIN outbox \subseteq DOMAIN outbox' /\ \A n \in DOMAIN outbox : outbox'[n] = outbox[n]
        /\ \A n \in DOMAIN outbox' : n \notin DOMAIN outbox =>
              outbox'[n].update = u /\ outbox'[n].state = "pending"
        /\ \A v : HasRow(outbox', v) <=> HasRow(outbox, v) \/ v = u
        /\ UniqueRows(outbox')
    BY <1>6, <2>1, InsertKeeps DEF Completes, OutboxStates
  <2>5. TablesAgree'
    <3>1. ASSUME NEW m \in DOMAIN outbox'
          PROVE  \E n \in DOMAIN inbox' :
                    inbox'[n].update = outbox'[m].update /\ inbox'[n].state = "completed"
      <4>1. CASE m \in DOMAIN outbox
        <5>1. PICK n \in DOMAIN inbox :
                 inbox[n].update = outbox[m].update /\ inbox[n].state = "completed"
          BY <4>1 DEF TablesAgree
        <5>. QED
          BY <2>1, <2>2, <2>4, <4>1, <5>1 DEF EditRow
      <4>2. CASE m \notin DOMAIN outbox
        BY <2>1, <2>2, <2>4, <4>2 DEF EditRow
      <4>. QED
        BY <4>1, <4>2
    <3>2. ASSUME NEW n \in DOMAIN inbox', inbox'[n].state = "completed"
          PROVE  HasRow(outbox', inbox'[n].update)
      <4>1. n = cur \/ (n \in DOMAIN inbox /\ inbox[n].state = "completed")
        BY <2>2, <3>2 DEF EditRow
      <4>. QED
        BY <2>1, <2>2, <2>3, <2>4, <4>1 DEF TablesAgree, EditRow
    <3>. QED
      BY <3>1, <3>2 DEF TablesAgree
  <2>6. SentWasDelivered'
    BY <1>6, <2>4 DEF Completes, SentWasDelivered
  <2>. QED
    BY <1>6, <2>3, <2>4, <2>5, <2>6 DEF Completes, UniqueRows, RowInHand, HandlingPcs, SendingPcs
<1>7. CASE FailsInbox
  <2>1. EditRow(inbox, inbox', cur) /\ inbox'[cur].state # "completed"
    BY <1>7 DEF FailsInbox, FailRow
  <2>2. inbox[cur].state = "running"
    BY <1>7 DEF FailsInbox, RowInHand, HandlingPcs
  <2>3. UniqueRows(inbox)' /\ \A m \in DOMAIN inbox : inbox'[m].update = inbox[m].update
    BY <2>1, EditKeeps
  <2>4. TablesAgree'
    <3>1. /\ DOMAIN inbox' = DOMAIN inbox
          /\ \A m \in DOMAIN inbox :
                inbox'[m].state = "completed" <=> inbox[m].state = "completed"
      BY <2>1, <2>2 DEF EditRow
    <3>2. outbox' = outbox
      BY <1>7 DEF FailsInbox
    <3>. QED
      BY <2>3, <3>1, <3>2 DEF TablesAgree, HasRow
  <2>. QED
    BY <1>7, <2>3, <2>4
       DEF FailsInbox, UniqueRows, RowInHand, HandlingPcs, SendingPcs, SentWasDelivered
<1>8. ASSUME NEW n \in DOMAIN outbox, ClaimsOutbox(n) PROVE RowsInv'
  <2>1. EditRow(outbox, outbox', n) /\ outbox'[n].state = "sending"
    BY <1>8 DEF ClaimsOutbox, ClaimRow
  <2>2. /\ UniqueRows(outbox)' /\ \A m \in DOMAIN outbox : outbox'[m].update = outbox[m].update
        /\ \A u : HasRow(outbox', u) <=> HasRow(outbox, u)
    BY <2>1, EditKeeps
  <2>3. TablesAgree'
    BY <1>8, <2>1, <2>2 DEF ClaimsOutbox, TablesAgree, EditRow
  <2>4. SentWasDelivered'
    BY <1>8, <2>1, <2>2 DEF ClaimsOutbox, SentWasDelivered, EditRow
  <2>. QED
    BY <1>8, <2>1, <2>2, <2>3, <2>4
       DEF ClaimsOutbox, UniqueRows, RowInHand, HandlingPcs, SendingPcs
<1>9. CASE Sends
  <2>1. outbox[cur].update \in Update /\ delivered \in [Update -> Nat]
    BY <1>9, RowFields DEF Sends, TypeOK
  <2>2. /\ \A u \in Update : delivered'[u] >= delivered[u] /\ delivered[u] \in Nat
        /\ pc' = "sent" => delivered'[outbox[cur].update] > 0
    BY <1>9, <2>1 DEF Sends, Delivered
  <2>3. \A n \in DOMAIN outbox : outbox[n].update \in Update
    BY RowFields
  <2>4. SentWasDelivered'
    <3>1. \A u \in Update : delivered[u] > 0 => delivered'[u] > 0
      BY <2>1, <1>9 DEF Sends, Delivered
    <3>2. outbox' = outbox
      BY <1>9 DEF Sends
    <3>. QED
      BY <2>3, <3>1, <3>2 DEF SentWasDelivered
  <2>5. RowInHand'
    BY <1>9, <2>2 DEF Sends, RowInHand, HandlingPcs, SendingPcs
  <2>. QED
    BY <1>9, <2>4, <2>5 DEF Sends, UniqueRows, TablesAgree, HasRow
<1>10. ASSUME Records \/ FailsOutbox PROVE RowsInv'
  <2>1. /\ EditRow(outbox, outbox', cur) /\ pc' \in {"outbox", "poll"}
        /\ outbox'[cur].state = "sent" => pc = "sent"
        /\ UNCHANGED <<inbox, delivered>>
    BY <1>10 DEF Records, FailsOutbox, FailRow
  <2>2. /\ UniqueRows(outbox)' /\ \A m \in DOMAIN outbox : outbox'[m].update = outbox[m].update
        /\ \A u : HasRow(outbox', u) <=> HasRow(outbox, u)
    BY <2>1, EditKeeps
  <2>3. TablesAgree'
    BY <2>1, <2>2 DEF TablesAgree, EditRow
  <2>4. SentWasDelivered'
    BY <2>1, <2>2 DEF SentWasDelivered, EditRow, RowInHand
  <2>. QED
    BY <2>1, <2>2, <2>3, <2>4 DEF UniqueRows, RowInHand, HandlingPcs, SendingPcs
<1>. QED
  BY <1>1, <1>2, <1>3, <1>4, <1>5, <1>6, <1>7, <1>8, <1>9, <1>10 DEF RowStep

\* RowsInv is an invariant.
LEMMA RowsInvHolds == Spec => []RowsInv
<1>1. TypeOK /\ RowsInv /\ [Next]_vars => RowsInv'
  BY RowSteps, RowsInductive
<1>. QED
  BY <1>1, RowsStarts, GatewayTypes, PTL DEF Spec

\* A message has at most one inbox row and one reply, and a reply exactly when
\* its row is completed, whatever was redelivered, handled again or interrupted
\* (Ingest, CompleteWithOutbox).
THEOREM OneReply == Spec => []ReplyIffCompleted
<1>1. ASSUME TypeOK, RowsInv PROVE ReplyIffCompleted
  <2>. SUFFICES ASSUME NEW u \in Update
                PROVE  /\ Cardinality(RowsOf(inbox, u)) <= 1
                       /\ Cardinality(RowsOf(outbox, u)) =
                             Cardinality({n \in RowsOf(inbox, u) : inbox[n].state = "completed"})
    BY DEF ReplyIffCompleted
  <2>. DEFINE I == RowsOf(inbox, u)
              O == RowsOf(outbox, u)
              C == {n \in I : inbox[n].state = "completed"}
  <2>1. Cardinality({}) = 0 /\ \A n : Cardinality({n}) = 1
    BY FS_EmptySet, FS_Singleton
  <2>2. I = {} \/ \E n : I = {n}
    BY <1>1 DEF RowsInv, UniqueRows, RowsOf
  <2>3. O = {} \/ \E n : O = {n}
    BY <1>1 DEF RowsInv, UniqueRows, RowsOf
  <2>4. C = {} \/ \E n : C = {n}
    BY <2>2
  <2>5. O = {} <=> C = {}
    BY <1>1 DEF RowsInv, TablesAgree, HasRow, RowsOf
  <2>. HIDE DEF I, O, C
  <2>6. Cardinality(I) <= 1
    <3>1. Cardinality(I) = 0 \/ Cardinality(I) = 1
      BY <2>1, <2>2
    <3>. QED
      BY <3>1
  <2>7. Cardinality(O) = Cardinality(C)
    BY <2>1, <2>3, <2>4, <2>5
  <2>. QED
    BY <2>6, <2>7 DEF I, O, C
<1>. QED
  BY <1>1, RowsInvHolds, GatewayTypes, PTL

\* A reply that the outbox records as sent has reached the chat, however many
\* sends have failed or gone unanswered before it (drainOutbox).
THEOREM SentReachedTheChat == Spec => []SentWasDelivered
<1>1. RowsInv => SentWasDelivered
  BY DEF RowsInv
<1>. QED
  BY <1>1, RowsInvHolds, PTL

----------------------------------------------------------------------------
(***************************************************************************)
(* TriesInv.                                                               *)
(***************************************************************************)
IsTable(t) == \A n \in DOMAIN t : t[n].attempts \in Nat

\* A larger bound is a weaker claim.
LEMMA TriesMore ==
    ASSUME NEW t, IsTable(t), NEW a, NEW h, NEW B \in Nat, NEW C \in Nat, B <= C,
           Tries(t, a, h, B)
    PROVE  Tries(t, a, h, C)
BY BoundsAssumption DEF Tries, IsTable

\* A row let go counts as one more death or fault.
LEMMA TriesDropped ==
    ASSUME NEW t, IsTable(t), NEW a, NEW h, NEW k, NEW B \in Nat, Tries(t, a, h, B)
    PROVE  Tries(t, a, k, B + 1)
BY BoundsAssumption DEF Tries, IsTable

\* A claim counts an attempt, and is in hand.
LEMMA TriesClaimed ==
    ASSUME NEW t, IsTable(t), NEW s, NEW a, a \notin {"pending", "dead"}, NEW n, NEW B \in Nat,
           Tries(t, a, {}, B), ClaimRow(t, s, n, a)
    PROVE  Tries(s, a, {n}, B)
<1>1. \A m \in DOMAIN t : m # n => s[m] = t[m]
  BY DEF ClaimRow, EditRow
<1>2. /\ n \in DOMAIN t /\ s[n].state = a /\ s[n].attempts = t[n].attempts + 1
      /\ t[n].attempts < B /\ t[n].attempts \in Nat /\ DOMAIN s = DOMAIN t
  BY DEF ClaimRow, EditRow, Tries, IsTable
<1>3. s[n].attempts <= B
  BY <1>2
<1>. QED
  BY <1>1, <1>2, <1>3 DEF Tries

\* A failure lets the row go, dead at the limit unless the counter was lost.
LEMMA TriesFailed ==
    ASSUME NEW t, IsTable(t), NEW s, NEW a, a \notin {"pending", "dead"}, NEW n,
           NEW B \in Nat, NEW C \in Nat, B >= MaxAttempts, C - B = faults' - faults, faults \in Nat,
           Tries(t, a, {n}, B), FailRow(t, s, n)
    PROVE  Tries(s, a, {}, C)
<1>1. \A m \in DOMAIN t : m # n => s[m] = t[m]
  BY DEF FailRow, EditRow
<1>2. /\ n \in DOMAIN t /\ s[n].attempts = t[n].attempts /\ DOMAIN s = DOMAIN t
      /\ t[n].attempts <= B /\ t[n].attempts \in Nat
  BY DEF FailRow, EditRow, Tries, IsTable
<1>3. B <= C /\ MaxAttempts \in Nat /\ MaxAttempts > 0
  BY BoundsAssumption DEF FailRow
<1>4. /\ s[n].attempts <= C
      /\ s[n].state = "dead" => s[n].attempts >= MaxAttempts
      /\ s[n].state = "pending" => s[n].attempts < C
      /\ s[n].state # a
  BY <1>2, <1>3 DEF FailRow
<1>5. Tries(t, a, {n}, C)
  BY <1>3, TriesMore
<1>. QED
  BY <1>1, <1>2, <1>4, <1>5 DEF Tries

\* A row that is completed or sent is not claimed again.
LEMMA TriesEnded ==
    ASSUME NEW t, IsTable(t), NEW s, NEW a, NEW n, NEW B \in Nat, EditRow(t, s, n),
           s[n].attempts = t[n].attempts, s[n].state \notin {"pending", "dead", a},
           Tries(t, a, {n}, B)
    PROVE  Tries(s, a, {}, B)
BY DEF Tries, EditRow

\* A new row has no attempts.
LEMMA TriesInserted ==
    ASSUME NEW states, NEW t \in Seq(Rows(states)), "pending" \in states, NEW u \in Update,
           now \in Nat, NEW a, a # "pending", NEW h, NEW B \in Nat, B > 0, Tries(t, a, h, B)
    PROVE  Tries(Inserted(t, u), a, h, B)
<1>. DEFINE s == Inserted(t, u)
<1>1. /\ \A n \in DOMAIN t : s[n] = t[n]
      /\ \A n \in DOMAIN s : n \notin DOMAIN t => s[n].state = "pending" /\ s[n].attempts = 0
  BY InsertKeeps
<1>. HIDE DEF s
<1>2. Tries(s, a, h, B)
  BY <1>1 DEF Tries
<1>. QED
  BY <1>2 DEF s

\* A restart lets every row go.
LEMMA TriesReopened ==
    ASSUME NEW states, NEW t \in Seq(Rows(states)), "pending" \in states, NEW a,
           a \notin {"pending", "dead"}, NEW B \in Nat, Tries(t, a, {}, B)
    PROVE  Tries(Reopened(t, a), a, {}, B)
<1>. DEFINE s == Reopened(t, a)
<1>1. /\ DOMAIN s = DOMAIN t
      /\ \A n \in DOMAIN t :
            /\ s[n].update = t[n].update /\ s[n].attempts = t[n].attempts
            /\ t[n].state = a => s[n].state = "pending"
            /\ t[n].state # a => s[n] = t[n]
  BY ReopenedFacts
<1>. HIDE DEF s
<1>2. Tries(s, a, {}, B)
  BY <1>1 DEF Tries
<1>. QED
  BY <1>2 DEF s

\* Empty tables satisfy TriesInv.
LEMMA TriesStarts == Init => TriesInv
BY DEF Init, TriesInv, Tries

\* Every kind of step keeps TriesInv.
LEMMA TriesInductive ==
    ASSUME TypeOK, TriesInv, RowStep
    PROVE  TriesInv'
<1>. USE TypeFacts DEF TriesInv
<1>a. /\ Limit \in Nat /\ Limit > 0 /\ Limit >= MaxAttempts
      /\ restarts \in Nat /\ faults \in Nat /\ MaxAttempts \in Nat
  BY BoundsAssumption DEF Limit, TypeOK
<1>b. IsTable(inbox) /\ IsTable(outbox)
  BY RowFields DEF IsTable
<1>c. Limit' = MaxAttempts + restarts' + faults'
  BY DEF Limit
<1>1. CASE Keeps
  <2>1. Limit' \in Nat /\ Limit <= Limit'
    <3>1. restarts' = restarts /\ (faults' = faults \/ faults' = faults + 1)
      BY <1>1 DEF Keeps
    <3>. QED
      BY <1>a, <1>c, <3>1 DEF Limit
  <2>2. InHand(HandlingPcs)' = InHand(HandlingPcs) /\ InHand(SendingPcs)' = InHand(SendingPcs)
    BY <1>1 DEF Keeps, InHand, HandlingPcs, SendingPcs
  <2>3. inbox' = inbox /\ outbox' = outbox
    BY <1>1 DEF Keeps
  <2>4. /\ Tries(inbox, "running", InHand(HandlingPcs), Limit')
        /\ Tries(outbox, "sending", InHand(SendingPcs), Limit')
    BY <1>a, <1>b, <2>1, TriesMore
  <2>. QED
    BY <2>2, <2>3, <2>4
<1>2. CASE Drops
  <2>1. Limit' = Limit + 1
    BY <1>2, <1>a, <1>c DEF Drops, Limit
  <2>2. /\ Tries(inbox, "running", InHand(HandlingPcs)', Limit + 1)
        /\ Tries(outbox, "sending", InHand(SendingPcs)', Limit + 1)
    BY <1>a, <1>b, TriesDropped
  <2>. QED
    BY <1>2, <2>1, <2>2 DEF Drops
<1>3. CASE Reopens
  <2>1. /\ InHand(HandlingPcs) = {} /\ InHand(HandlingPcs)' = {}
        /\ InHand(SendingPcs) = {} /\ InHand(SendingPcs)' = {}
        /\ Limit' = Limit
    BY <1>3 DEF Reopens, InHand, HandlingPcs, SendingPcs, Limit
  <2>2. Tries(Reopened(inbox, "running"), "running", {}, Limit)
    BY <1>a, <2>1, TriesReopened DEF InboxStates
  <2>3. Tries(Reopened(outbox, "sending"), "sending", {}, Limit)
    BY <1>a, <2>1, TriesReopened DEF OutboxStates
  <2>. QED
    BY <1>3, <2>1, <2>2, <2>3 DEF Reopens
<1>4. ASSUME NEW u \in Update, TakesIn(u) PROVE TriesInv'
  <2>1. /\ InHand(HandlingPcs)' = InHand(HandlingPcs) /\ InHand(SendingPcs)' = InHand(SendingPcs)
        /\ Limit' = Limit
    BY <1>4 DEF TakesIn, InHand, HandlingPcs, SendingPcs, Limit
  <2>2. Tries(Inserted(inbox, u), "running", InHand(HandlingPcs), Limit)
    BY <1>a, TriesInserted DEF InboxStates
  <2>. QED
    BY <1>4, <2>1, <2>2 DEF TakesIn
<1>5. ASSUME NEW n \in DOMAIN inbox, ClaimsInbox(n) PROVE TriesInv'
  <2>1. /\ InHand(HandlingPcs) = {} /\ InHand(HandlingPcs)' = {n}
        /\ InHand(SendingPcs) = {} /\ InHand(SendingPcs)' = {}
        /\ Limit' = Limit /\ outbox' = outbox
    BY <1>5 DEF ClaimsInbox, InHand, HandlingPcs, SendingPcs, Limit
  <2>2. ClaimRow(inbox, inbox', n, "running")
    BY <1>5 DEF ClaimsInbox
  <2>3. Tries(inbox', "running", {n}, Limit)
    BY <1>a, <1>b, <2>1, <2>2, TriesClaimed
  <2>. QED
    BY <2>1, <2>3
<1>6. CASE Completes
  <2>1. /\ InHand(HandlingPcs) = {cur} /\ InHand(HandlingPcs)' = {}
        /\ InHand(SendingPcs) = {} /\ InHand(SendingPcs)' = {}
        /\ Limit' = Limit
    BY <1>6 DEF Completes, InHand, HandlingPcs, SendingPcs, Limit
  <2>2. inbox[cur].update \in Update
    BY <1>6, RowFields DEF Completes
  <2>3. Tries(Inserted(outbox, inbox[cur].update), "sending", {}, Limit)
    BY <1>a, <2>1, <2>2, TriesInserted DEF OutboxStates
  <2>4. Tries(inbox', "running", {}, Limit)
    BY <1>6, <1>a, <1>b, <2>1, TriesEnded DEF Completes
  <2>. QED
    BY <1>6, <2>1, <2>3, <2>4 DEF Completes
<1>7. CASE FailsInbox
  <2>1. /\ InHand(HandlingPcs) = {cur} /\ InHand(HandlingPcs)' = {}
        /\ InHand(SendingPcs) = {} /\ InHand(SendingPcs)' = {}
        /\ outbox' = outbox /\ FailRow(inbox, inbox', cur)
    BY <1>7 DEF FailsInbox, InHand, HandlingPcs, SendingPcs
  <2>2. Limit' \in Nat /\ Limit <= Limit' /\ Limit' - Limit = faults' - faults
    BY <1>7, <1>a, <1>c DEF FailsInbox, FailRow, Limit
  <2>3. Tries(inbox', "running", {}, Limit')
    BY <1>a, <1>b, <2>1, <2>2, TriesFailed
  <2>4. Tries(outbox, "sending", {}, Limit')
    BY <1>a, <1>b, <2>1, <2>2, TriesMore
  <2>. QED
    BY <2>1, <2>3, <2>4
<1>8. ASSUME NEW n \in DOMAIN outbox, ClaimsOutbox(n) PROVE TriesInv'
  <2>1. /\ InHand(HandlingPcs) = {} /\ InHand(HandlingPcs)' = {}
        /\ InHand(SendingPcs) = {} /\ InHand(SendingPcs)' = {n}
        /\ Limit' = Limit /\ inbox' = inbox
    BY <1>8 DEF ClaimsOutbox, InHand, HandlingPcs, SendingPcs, Limit
  <2>2. ClaimRow(outbox, outbox', n, "sending")
    BY <1>8 DEF ClaimsOutbox
  <2>3. Tries(outbox', "sending", {n}, Limit)
    BY <1>a, <1>b, <2>1, <2>2, TriesClaimed
  <2>. QED
    BY <2>1, <2>3
<1>9. CASE Sends
  <2>1. /\ InHand(HandlingPcs)' = InHand(HandlingPcs) /\ InHand(SendingPcs)' = InHand(SendingPcs)
        /\ Limit' = Limit /\ inbox' = inbox /\ outbox' = outbox
    BY <1>9 DEF Sends, InHand, HandlingPcs, SendingPcs, Limit
  <2>. QED
    BY <2>1
<1>10. CASE Records
  <2>1. /\ InHand(HandlingPcs) = {} /\ InHand(HandlingPcs)' = {}
        /\ InHand(SendingPcs) = {cur} /\ InHand(SendingPcs)' = {}
        /\ Limit' = Limit /\ inbox' = inbox
    BY <1>10 DEF Records, InHand, HandlingPcs, SendingPcs, Limit
  <2>2. Tries(outbox', "sending", {}, Limit)
    BY <1>10, <1>a, <1>b, <2>1, TriesEnded DEF Records
  <2>. QED
    BY <2>1, <2>2
<1>11. CASE FailsOutbox
  <2>1. /\ InHand(HandlingPcs) = {} /\ InHand(HandlingPcs)' = {}
        /\ InHand(SendingPcs) = {cur} /\ InHand(SendingPcs)' = {}
        /\ inbox' = inbox /\ FailRow(outbox, outbox', cur)
    BY <1>11 DEF FailsOutbox, InHand, HandlingPcs, SendingPcs
  <2>2. Limit' \in Nat /\ Limit <= Limit' /\ Limit' - Limit = faults' - faults
    BY <1>11, <1>a, <1>c DEF FailsOutbox, FailRow, Limit
  <2>3. Tries(outbox', "sending", {}, Limit')
    BY <1>a, <1>b, <2>1, <2>2, TriesFailed
  <2>4. Tries(inbox, "running", {}, Limit')
    BY <1>a, <1>b, <2>1, <2>2, TriesMore
  <2>. QED
    BY <2>1, <2>3, <2>4
<1>. QED
  BY <1>1, <1>2, <1>3, <1>4, <1>5, <1>6, <1>7, <1>8, <1>9, <1>10, <1>11 DEF RowStep

\* An attempt beyond MaxAttempts is paid for by a death or a failed call, and a
\* row is given up only with its attempts used (FailInbox, OutboxFailed, Open).
THEOREM AttemptsArePaidFor == Spec => []AttemptsBounded
<1>1. TypeOK /\ TriesInv /\ [Next]_vars => TriesInv'
  BY RowSteps, TriesInductive
<1>2. TriesInv => AttemptsBounded
  BY DEF TriesInv, Tries, Limit, AttemptsBounded
<1>. QED
  BY <1>1, <1>2, TriesStarts, GatewayTypes, PTL DEF Spec

----------------------------------------------------------------------------
(***************************************************************************)
(* Claimed rows.                                                           *)
(***************************************************************************)

Running == Stranded(inbox, "running", HandlingPcs)
Sending == Stranded(outbox, "sending", SendingPcs)

HeldInv == pc # "down" => Cardinality(Running) + Cardinality(Sending) <= faults

\* The rows of a table are few enough to be counted.
LEMMA StrandedFinite ==
    ASSUME TypeOK
    PROVE  IsFiniteSet(Running) /\ IsFiniteSet(Sending)
<1>1. ASSUME NEW table, NEW active, NEW pcs, DOMAIN table = 1 .. Len(table), Len(table) \in Nat
      PROVE  IsFiniteSet(Stranded(table, active, pcs))
  <2>1. IsFiniteSet(1 .. Len(table))
    BY <1>1, FS_Interval
  <2>2. Stranded(table, active, pcs) \subseteq 1 .. Len(table)
    BY <1>1 DEF Stranded
  <2>. QED
    BY <2>1, <2>2, FS_Subset
<1>2. /\ DOMAIN inbox = 1 .. Len(inbox) /\ Len(inbox) \in Nat
      /\ DOMAIN outbox = 1 .. Len(outbox) /\ Len(outbox) \in Nat
  BY TypeFacts
<1>. QED
  BY <1>1, <1>2 DEF Running, Sending

\* A set that gains one element at most is larger by one at most.
LEMMA OneMoreElement ==
    ASSUME NEW S, IsFiniteSet(S), NEW x, NEW T, T \subseteq S \cup {x}
    PROVE  Cardinality(T) \in Nat /\ Cardinality(S) \in Nat /\ Cardinality(T) <= Cardinality(S) + 1
<1>1. IsFiniteSet(S \cup {x}) /\ Cardinality(S) \in Nat /\ Cardinality(S \cup {x}) \in Nat
      /\ Cardinality(S \cup {x}) <= Cardinality(S) + 1
  <2>1. IsFiniteSet(S \cup {x}) /\ Cardinality(S \cup {x}) = IF x \in S THEN Cardinality(S)
                                                             ELSE Cardinality(S) + 1
    BY FS_AddElement
  <2>2. Cardinality(S) \in Nat /\ Cardinality(S \cup {x}) \in Nat
    BY <2>1, FS_CardinalityType
  <2>. QED
    BY <2>1, <2>2
<1>2. IsFiniteSet(T) /\ Cardinality(T) <= Cardinality(S \cup {x})
  BY <1>1, FS_Subset
<1>3. Cardinality(T) \in Nat
  BY <1>2, FS_CardinalityType
<1>. QED
  BY <1>1, <1>2, <1>3

\* A row is stranded by a failed call, one at a time.
LEMMA StrandedStep ==
    ASSUME TypeOK, HeldInv, pc # "down", NEW R, NEW S,
           \/ R \subseteq Running /\ S \subseteq Sending /\ faults' \in {faults, faults + 1}
           \/ R \subseteq Running \cup {cur} /\ S \subseteq Sending /\ faults' = faults + 1
           \/ R \subseteq Running /\ S \subseteq Sending \cup {cur} /\ faults' = faults + 1
    PROVE  Cardinality(R) + Cardinality(S) <= faults'
<1>1. IsFiniteSet(Running) /\ IsFiniteSet(Sending) /\ faults \in Nat
  BY StrandedFinite DEF TypeOK
<1>2. Cardinality(Running) + Cardinality(Sending) <= faults
  BY DEF HeldInv
<1>3. \A A, B : IsFiniteSet(B) /\ A \subseteq B =>
          Cardinality(A) \in Nat /\ Cardinality(B) \in Nat /\ Cardinality(A) <= Cardinality(B)
  BY FS_Subset, FS_CardinalityType
<1>4. \A A, B, x : IsFiniteSet(B) /\ A \subseteq B \cup {x} =>
          Cardinality(A) \in Nat /\ Cardinality(B) \in Nat /\ Cardinality(A) <= Cardinality(B) + 1
  BY OneMoreElement
<1>5. CASE R \subseteq Running /\ S \subseteq Sending /\ faults' \in {faults, faults + 1}
  BY <1>1, <1>2, <1>3, <1>5
<1>6. CASE R \subseteq Running \cup {cur} /\ S \subseteq Sending /\ faults' = faults + 1
  <2>1. /\ Cardinality(R) \in Nat /\ Cardinality(Running) \in Nat
        /\ Cardinality(R) <= Cardinality(Running) + 1
    BY <1>1, <1>4, <1>6
  <2>2. /\ Cardinality(S) \in Nat /\ Cardinality(Sending) \in Nat /\ Cardinality(S) <= Cardinality(Sending)
    BY <1>1, <1>3, <1>6
  <2>. QED
    BY <1>1, <1>2, <1>6, <2>1, <2>2
<1>7. CASE R \subseteq Running /\ S \subseteq Sending \cup {cur} /\ faults' = faults + 1
  <2>1. /\ Cardinality(S) \in Nat /\ Cardinality(Sending) \in Nat
        /\ Cardinality(S) <= Cardinality(Sending) + 1
    BY <1>1, <1>4, <1>7
  <2>2. /\ Cardinality(R) \in Nat /\ Cardinality(Running) \in Nat /\ Cardinality(R) <= Cardinality(Running)
    BY <1>1, <1>3, <1>7
  <2>. QED
    BY <1>1, <1>2, <1>7, <2>1, <2>2
<1>. QED
  BY <1>5, <1>6, <1>7

\* Every kind of step keeps HeldInv.
LEMMA HeldInductive ==
    ASSUME TypeOK, HeldInv, RowStep
    PROVE  HeldInv'
<1>. USE TypeFacts DEF HandlingPcs, SendingPcs
<1>. DEFINE Fewer == /\ pc # "down" /\ Running' \subseteq Running /\ Sending' \subseteq Sending
                     /\ faults' \in {faults, faults + 1}
<1>0. Fewer => HeldInv'
  BY StrandedStep DEF HeldInv
<1>1. CASE Keeps
  <2>1. CASE pc = "down"
    BY <1>1, <2>1 DEF Keeps, HeldInv
  <2>2. CASE pc # "down"
    BY <1>0, <1>1, <2>2 DEF Keeps, Running, Sending, Stranded
  <2>. QED
    BY <2>1, <2>2
<1>2. CASE Drops
  <2>1. CASE pc' = "down"
    BY <2>1 DEF HeldInv
  <2>2. CASE pc # "down" /\ pc' \in {"inbox", "outbox", "poll"} /\ faults' = faults + 1
    <3>1. UNCHANGED <<inbox, outbox>>
      BY <1>2 DEF Drops
    <3>2. Running' \subseteq Running \cup {cur} /\ (pc \notin HandlingPcs => Running' \subseteq Running)
      BY <2>2, <3>1 DEF Running, Stranded
    <3>3. Sending' \subseteq Sending \cup {cur} /\ (pc \notin SendingPcs => Sending' \subseteq Sending)
      BY <2>2, <3>1 DEF Sending, Stranded
    <3>4. pc \notin HandlingPcs \/ pc \notin SendingPcs
      OBVIOUS
    <3>. QED
      BY <2>2, <3>2, <3>3, <3>4, StrandedStep DEF HeldInv
  <2>. QED
    BY <1>2, <2>1, <2>2 DEF Drops
<1>3. CASE Reopens
  <2>1. Running' = {} /\ Sending' = {}
    <3>1. \A n \in DOMAIN inbox' : inbox'[n].state # "running"
      BY <1>3, ReopenedFacts DEF Reopens, InboxStates
    <3>2. \A n \in DOMAIN outbox' : outbox'[n].state # "sending"
      BY <1>3, ReopenedFacts DEF Reopens, OutboxStates
    <3>. QED
      BY <3>1, <3>2 DEF Running, Sending, Stranded
  <2>2. faults' \in Nat
    BY <1>3 DEF Reopens, TypeOK
  <2>. QED
    BY <2>1, <2>2, FS_EmptySet DEF HeldInv
<1>4. ASSUME NEW u \in Update, TakesIn(u) PROVE HeldInv'
  <2>1. /\ \A n \in DOMAIN inbox : inbox'[n] = inbox[n]
        /\ \A n \in DOMAIN inbox' : n \notin DOMAIN inbox => inbox'[n].state = "pending"
    BY <1>4, InsertKeeps DEF TakesIn, InboxStates
  <2>. QED
    BY <1>0, <1>4, <2>1 DEF TakesIn, Running, Sending, Stranded
<1>5. ASSUME NEW n \in DOMAIN inbox, ClaimsInbox(n) PROVE HeldInv'
  BY <1>0, <1>5 DEF ClaimsInbox, ClaimRow, EditRow, Running, Sending, Stranded
<1>6. CASE Completes
  <2>1. inbox[cur].update \in Update
    BY <1>6, RowFields DEF Completes
  <2>2. /\ \A n \in DOMAIN outbox : outbox'[n] = outbox[n]
        /\ \A n \in DOMAIN outbox' : n \notin DOMAIN outbox => outbox'[n].state = "pending"
    BY <1>6, <2>1, InsertKeeps DEF Completes, OutboxStates
  <2>3. Running' \subseteq Running
    BY <1>6 DEF Completes, EditRow, Running, Stranded
  <2>4. Sending' \subseteq Sending
    BY <1>6, <2>2 DEF Completes, Sending, Stranded
  <2>. QED
    BY <1>0, <1>6, <2>3, <2>4 DEF Completes
<1>7. CASE FailsInbox
  <2>1. inbox'[cur].state # "running" /\ faults' \in {faults, faults + 1}
    BY <1>7 DEF FailsInbox, FailRow
  <2>. QED
    BY <1>0, <1>7, <2>1 DEF FailsInbox, FailRow, EditRow, Running, Sending, Stranded
<1>8. ASSUME NEW n \in DOMAIN outbox, ClaimsOutbox(n) PROVE HeldInv'
  BY <1>0, <1>8 DEF ClaimsOutbox, ClaimRow, EditRow, Running, Sending, Stranded
<1>9. CASE Sends
  BY <1>0, <1>9 DEF Sends, Running, Sending, Stranded
<1>10. CASE Records \/ FailsOutbox
  <2>1. /\ EditRow(outbox, outbox', cur) /\ outbox'[cur].state # "sending"
        /\ pc \in {"sent", "unsent"} /\ pc' \in {"outbox", "poll"} /\ inbox' = inbox
        /\ faults' \in {faults, faults + 1}
    BY <1>10 DEF Records, FailsOutbox, FailRow
  <2>. QED
    BY <1>0, <2>1 DEF EditRow, Running, Sending, Stranded
<1>. QED
  BY <1>1, <1>2, <1>3, <1>4, <1>5, <1>6, <1>7, <1>8, <1>9, <1>10 DEF RowStep

\* FailInbox, OutboxSent and OutboxFailed leave at most one row behind for each call
\* that fails, and Open leaves none.
THEOREM NoRowIsStranded == Spec => []ClaimedRowsAreHeld
<1>1. Init => HeldInv
  BY DEF Init, HeldInv
<1>2. TypeOK /\ HeldInv /\ [Next]_vars => HeldInv'
  BY RowSteps, HeldInductive
<1>3. HeldInv => ClaimedRowsAreHeld
  BY DEF HeldInv, Running, Sending, HandlingPcs, SendingPcs, ClaimedRowsAreHeld
<1>. QED
  BY <1>1, <1>2, <1>3, GatewayTypes, PTL DEF Spec

----------------------------------------------------------------------------
(***************************************************************************)
(* PollInv.                                                                *)
(***************************************************************************)
LEMMA PollStarts == Init => PollInv
BY DEF Init, PollInv

\* A message that is dealt with stays so.
LEMMA HandledKept ==
    ASSUME TypeOK, [Next]_vars, NEW v, Handled(v)
    PROVE  Handled(v)'
<1>. USE TypeFacts
<1>1. limited \subseteq limited' /\ unstored \subseteq unstored'
  <2>1. ASSUME NEW u \in Update, Refuse(u) \/ RateLimit(u) \/ Ingest(u) \/ IngestFails(u)
        PROVE  limited \subseteq limited' /\ unstored \subseteq unstored'
    BY <2>1 DEF Refuse, RateLimit, Ingest, IngestFails, record
  <2>2. CASE UNCHANGED vars \/ Write \/ Open \/ Poll \/ PollFails \/ Drain \/ Die \/ Tick
    <3>1. UNCHANGED record
      BY <2>2 DEF vars, Write, Open, Poll, PollFails, Die, Tick, Drain, ClaimInbox, InboxDrained,
                  Handle, CompleteWithOutbox, CompleteFails, FailInbox, ClaimOutbox, OutboxDrained,
                  Send, OutboxSent, OutboxFailed, InboxStep, OutboxStep
    <3>. QED
      BY <3>1 DEF record
  <2>. QED
    BY <2>1, <2>2 DEF Next, Loop
<1>2. HasRow(inbox, v) => HasRow(inbox', v)
  <2>1. RowStep
    BY RowSteps
  <2>2. CASE \/ Keeps \/ Drops \/ Sends \/ Records \/ FailsOutbox
             \/ \E n \in DOMAIN outbox : ClaimsOutbox(n)
    BY <2>2 DEF Keeps, Drops, Sends, Records, FailsOutbox, ClaimsOutbox
  <2>3. CASE Reopens
    BY <2>3, ReopenedFacts DEF Reopens, HasRow, InboxStates
  <2>4. ASSUME NEW u \in Update, TakesIn(u) PROVE HasRow(inbox, v) => HasRow(inbox', v)
    BY <2>4, InsertKeeps DEF TakesIn, InboxStates
  <2>5. ASSUME NEW n, EditRow(inbox, inbox', n) PROVE HasRow(inbox, v) => HasRow(inbox', v)
    BY <2>5, EditKeeps
  <2>6. CASE Completes \/ FailsInbox \/ \E n \in DOMAIN inbox : ClaimsInbox(n)
    BY <2>5, <2>6 DEF Completes, FailsInbox, FailRow, ClaimsInbox, ClaimRow
  <2>. QED
    BY <2>1, <2>2, <2>3, <2>4, <2>6 DEF RowStep
<1>. QED
  BY <1>1, <1>2 DEF Handled

\* Every update that the loop takes from the batch is dealt with, if it is the
\* owner's.
LEMMA TakenIsHandled ==
    ASSUME TypeOK, NEW u \in Update, Origin[u] = "owner",
           Refuse(u) \/ RateLimit(u) \/ Ingest(u) \/ IngestFails(u)
    PROVE  Handled(u)'
<1>1. ~Refuse(u)
  BY DEF Refuse, Admitted
<1>2. CASE RateLimit(u) \/ IngestFails(u)
  BY <1>2 DEF RateLimit, IngestFails, Handled
<1>3. CASE Ingest(u)
  BY <1>3, TypeFacts, InsertKeeps DEF Ingest, Handled, InboxStates
<1>. QED
  BY <1>1, <1>2, <1>3

\* Every step keeps PollInv.
LEMMA PollInductive ==
    ASSUME TypeOK, PollInv, [Next]_vars
    PROVE  PollInv'
<1>a. /\ written \in Nat /\ offset \in Nat /\ batch \in Seq(Update)
      /\ 1 .. written \subseteq Update /\ \A u \in Update : u \in Nat
  <2>1. written \in 0 .. MaxUpdates /\ MaxUpdates \in Nat
    BY UpdatesAssumption DEF TypeOK
  <2>. QED
    BY <2>1 DEF TypeOK, Update
<1>b. \A v : Handled(v) => Handled(v)'
  BY HandledKept
<1>1. CASE UNCHANGED <<written, queue, offset, batch>>
  BY <1>1, <1>b DEF PollInv
<1>2. CASE Write
  <2>1. /\ written' = written + 1 /\ queue' = queue \cup {written + 1}
        /\ offset' = offset /\ batch' = batch
    BY <1>2 DEF Write, memory
  <2>2. 1 .. written' = (1 .. written) \cup {written + 1}
    BY <1>a, <2>1
  <2>3. queue' \subseteq 1 .. written' /\ offset' <= written' + 1
    BY <1>a, <2>1, <2>2 DEF PollInv
  <2>4. \A i \in DOMAIN batch' : batch'[i] \in 1 .. written'
    BY <2>1, <2>2 DEF PollInv
  <2>5. ASSUME NEW u \in 1 .. written', Origin[u] = "owner", u \notin queue' \/ u < offset'
        PROVE  Handled(u)'
    <3>1. u # written + 1
      BY <1>a, <2>1, <2>5 DEF PollInv
    <3>. QED
      BY <1>b, <2>1, <2>2, <2>5, <3>1 DEF PollInv
  <2>6. ASSUME NEW i \in DOMAIN batch', NEW u \in 1 .. written', Origin[u] = "owner", u < batch'[i]
        PROVE  Handled(u)' \/ \E j \in DOMAIN batch' : j < i /\ batch'[j] = u
    <3>1. batch[i] \in 1 .. written
      BY <2>1 DEF PollInv
    <3>2. u # written + 1
      BY <1>a, <2>1, <2>6, <3>1
    <3>. QED
      BY <1>b, <2>1, <2>2, <2>6, <3>2 DEF PollInv
  <2>. QED
    BY <2>3, <2>4, <2>5, <2>6 DEF PollInv
<1>3. CASE Poll \/ PollFails
  <2>1. /\ written' = written /\ offset' = offset /\ queue' \in {queue, Unconfirmed}
        /\ batch' = batch \/ (batch' = Returned /\ queue' = Unconfirmed)
    BY <1>3 DEF Poll, PollFails, memory
  <2>2. \A u \in queue : u \in Unconfirmed \/ u < offset
    <3>1. \A u \in queue : u \in Nat
      BY <1>a DEF TypeOK
    <3>. QED
      BY <1>a, <3>1 DEF Unconfirmed
  <2>3. Unconfirmed \subseteq queue
    BY DEF Unconfirmed
  <2>4. queue' \subseteq 1 .. written'
    BY <2>1, <2>3 DEF PollInv
  <2>5. \A u \in 1 .. written :
           (Origin[u] = "owner" /\ (u \notin Unconfirmed \/ u < offset)) => Handled(u)
    BY <2>2 DEF PollInv
  <2>6. \A u \in 1 .. written' :
           (Origin[u] = "owner" /\ (u \notin queue' \/ u < offset')) => Handled(u)'
    BY <1>b, <2>1, <2>3, <2>5
  <2>7. CASE batch' = batch
    BY <1>b, <2>1, <2>4, <2>6, <2>7 DEF PollInv
  <2>8. CASE batch' = Returned
    <3>. DEFINE s == Returned
    <3>1. /\ \A i \in DOMAIN s : s[i] \in Unconfirmed
          /\ \A i \in DOMAIN s, v \in Unconfirmed :
                (v < s[i] /\ Origin[v] # "nameless") => \E j \in DOMAIN s : j < i /\ s[j] = v
      BY ReturnedFacts DEF TypeOK
    <3>. HIDE DEF s
    <3>2. \A i \in DOMAIN s : s[i] \in 1 .. written
      BY <2>3, <3>1 DEF PollInv
    <3>3. ASSUME NEW i \in DOMAIN s, NEW u \in 1 .. written, Origin[u] = "owner", u < s[i]
          PROVE  Handled(u) \/ \E j \in DOMAIN s : j < i /\ s[j] = u
      <4>1. CASE u \in Unconfirmed
        BY <3>1, <3>3, <4>1
      <4>2. CASE u \notin Unconfirmed
        BY <2>5, <3>3, <4>2
      <4>. QED
        BY <4>1, <4>2
    <3>4. batch' = s
      BY <2>8 DEF s
    <3>. QED
      BY <1>b, <2>1, <2>4, <2>6, <3>2, <3>3, <3>4 DEF PollInv
  <2>. QED
    BY <2>1, <2>7, <2>8
<1>4. ASSUME NEW h \in Update, Refuse(h) \/ RateLimit(h) \/ Ingest(h) \/ IngestFails(h)
      PROVE  PollInv'
  <2>1. TakeUpdate(h)
    BY <1>4 DEF Refuse, RateLimit, Ingest, IngestFails
  <2>2. /\ written' = written /\ queue' = queue /\ batch' = Tail(batch) /\ h = Head(batch)
        /\ offset' = (IF h >= offset THEN h + 1 ELSE offset)
        /\ batch # <<>>
    BY <2>1 DEF TakeUpdate, NextOffset, outside, TypeOK
  <2>3. /\ h = batch[1] /\ 1 \in DOMAIN batch
        /\ \A i \in DOMAIN batch' : i + 1 \in DOMAIN batch /\ batch'[i] = batch[i + 1]
        /\ \A i \in DOMAIN batch : i # 1 => i - 1 \in DOMAIN batch'
        /\ \A i \in DOMAIN batch : i \in Nat /\ i >= 1
        /\ \A i \in DOMAIN batch' : i \in Nat
    <3>1. batch' \in Seq(Update)
      BY <1>a, <2>2, TailFacts
    <3>2. (\A i \in DOMAIN batch : i \in Nat /\ i >= 1) /\ \A i \in DOMAIN batch' : i \in Nat
      BY <1>a, <3>1
    <3>. QED
      BY <1>a, <2>2, <3>2, TailFacts
  <2>4. h \in 1 .. written
    BY <2>3 DEF PollInv
  <2>5. offset' <= written' + 1 /\ offset' \in Nat
    BY <1>a, <2>2, <2>4 DEF PollInv
  <2>6. Origin[h] = "owner" => Handled(h)'
    BY <1>4, TakenIsHandled
  <2>7. \A u \in 1 .. written : (Origin[u] = "owner" /\ u < h) => Handled(u)
    BY <2>3 DEF PollInv
  <2>8. ASSUME NEW u \in 1 .. written, Origin[u] = "owner", u \notin queue \/ u < offset'
        PROVE  Handled(u)'
    <3>1. u \in Nat /\ h \in Nat
      BY <1>a
    <3>2. u \notin queue \/ u < offset \/ u < h \/ u = h
      BY <1>a, <2>2, <2>8, <3>1
    <3>. QED
      BY <1>b, <2>6, <2>7, <2>8, <3>2 DEF PollInv
  <2>9. ASSUME NEW i \in DOMAIN batch', NEW u \in 1 .. written, Origin[u] = "owner", u < batch'[i]
        PROVE  Handled(u)' \/ \E j \in DOMAIN batch' : j < i /\ batch'[j] = u
    <3>1. i + 1 \in DOMAIN batch /\ u < batch[i + 1]
      BY <2>3, <2>9
    <3>2. Handled(u) \/ \E j \in DOMAIN batch : j < i + 1 /\ batch[j] = u
      BY <2>9, <3>1 DEF PollInv
    <3>3. CASE Handled(u)
      BY <1>b, <3>3
    <3>4. ASSUME NEW j \in DOMAIN batch, j < i + 1, batch[j] = u
          PROVE  Handled(u)' \/ \E k \in DOMAIN batch' : k < i /\ batch'[k] = u
      <4>1. CASE j = 1
        BY <2>3, <2>6, <2>9, <3>4, <4>1
      <4>2. CASE j # 1
        <5>1. j - 1 \in DOMAIN batch' /\ j \in Nat /\ i \in Nat
          BY <2>3, <4>2
        <5>2. batch'[j - 1] = batch[(j - 1) + 1] /\ (j - 1) + 1 = j /\ j - 1 < i
          BY <2>3, <3>4, <5>1
        <5>. QED
          BY <3>4, <5>1, <5>2
      <4>. QED
        BY <4>1, <4>2
    <3>. QED
      BY <3>2, <3>3, <3>4
  <2>10. \A i \in DOMAIN batch' : batch'[i] \in 1 .. written
    BY <2>3 DEF PollInv
  <2>. QED
    BY <2>2, <2>5, <2>8, <2>9, <2>10 DEF PollInv
<1>5. CASE Open \/ Drain \/ Tick \/ UNCHANGED vars
  <2>1. UNCHANGED <<written, queue, offset, batch>>
    BY <1>5 DEF Open, Goto, Tick, vars, memory, outside, Drain, ClaimInbox, InboxDrained, Handle,
                CompleteWithOutbox, CompleteFails, FailInbox, ClaimOutbox, OutboxDrained,
                Send, OutboxSent, OutboxFailed, InboxStep, OutboxStep
  <2>. QED
    BY <1>1, <2>1
<1>6. CASE Die
  <2>1. written' = written /\ queue' = queue /\ offset' = 0 /\ batch' = <<>>
    BY <1>6 DEF Die, outside
  <2>2. \A u \in 1 .. written : ~(u < 0)
    BY <1>a
  <2>. QED
    BY <1>a, <1>b, <2>1, <2>2 DEF PollInv
<1>. QED
  BY <1>2, <1>3, <1>4, <1>5, <1>6 DEF Next, Loop

\* A message of the owner that Telegram has forgotten is in the inbox, or the
\* guard refused it, or its Ingest failed: the offset never runs ahead of what
\* Run has looked at, over restarts and lost polls (Run, Updates).
THEOREM OffsetIsSafe == Spec => []NothingForgotten
<1>1. TypeOK /\ PollInv /\ [Next]_vars => PollInv'
  BY PollInductive
<1>2. PollInv => NothingForgotten
  BY DEF PollInv, Handled, NothingForgotten
<1>. QED
  BY <1>1, <1>2, PollStarts, GatewayTypes, PTL DEF Spec

----------------------------------------------------------------------------
(***************************************************************************)
(* The tables implement Delivery.                                          *)
(***************************************************************************)

\* StatusOf, for any two tables.
StatusIn(ib, ob, u) ==
    IF ~HasRow(ib, u) THEN "new"
    ELSE LET i == ib[CHOOSE n \in RowsOf(ib, u) : TRUE]
         IN  CASE i.state \in {"pending", "running"} -> "accepted"
               [] i.state = "dead"                   -> "given up"
               [] i.state = "completed"              ->
                    LET o == ob[CHOOSE n \in RowsOf(ob, u) : TRUE]
                    IN  CASE o.state = "sent" -> "sent"
                          [] o.state = "dead" -> "abandoned"
                          [] OTHER            -> "answered"

\* What a row's state says of its message.
InboxStatus(state)  == IF state \in {"pending", "running"} THEN "accepted" ELSE "given up"
OutboxStatus(state) == CASE state = "sent" -> "sent"
                         [] state = "dead" -> "abandoned"
                         [] OTHER          -> "answered"

\* The status of a message as a function of the two tables.
LEMMA StatusForms == \A u : /\ StatusOf(u) = StatusIn(inbox, outbox, u)
                            /\ StatusOf(u)' = StatusIn(inbox', outbox', u)
BY DEF StatusOf, StatusIn

\* A message's row is the row that the status is read from.
LEMMA ChosenRow ==
    ASSUME NEW t, UniqueRows(t), NEW n \in DOMAIN t
    PROVE  HasRow(t, t[n].update) /\ (CHOOSE m \in RowsOf(t, t[n].update) : TRUE) = n
<1>1. RowsOf(t, t[n].update) = {n}
  BY DEF RowsOf, UniqueRows
<1>. QED
  BY <1>1 DEF HasRow

\* The status of a message that has no reply yet.
LEMMA StatusOpen ==
    ASSUME NEW ib, NEW ob, UniqueRows(ib), NEW n \in DOMAIN ib,
           ib[n].state \in {"pending", "running", "dead"}
    PROVE  StatusIn(ib, ob, ib[n].update) = InboxStatus(ib[n].state)
<1>. DEFINE u == ib[n].update
<1>1. HasRow(ib, u) /\ (CHOOSE m \in RowsOf(ib, u) : TRUE) = n
  BY ChosenRow
<1>. HIDE DEF u
<1>2. StatusIn(ib, ob, u) = IF ib[n].state \in {"pending", "running"} THEN "accepted" ELSE "given up"
  BY <1>1 DEF StatusIn
<1>. QED
  BY <1>2 DEF u, InboxStatus

\* The status of a message that has one.
LEMMA StatusAnswered ==
    ASSUME NEW ib, NEW ob, UniqueRows(ib), UniqueRows(ob),
           NEW n \in DOMAIN ib, ib[n].state = "completed",
           NEW m \in DOMAIN ob, ob[m].update = ib[n].update
    PROVE  StatusIn(ib, ob, ib[n].update) = OutboxStatus(ob[m].state)
<1>. DEFINE u == ib[n].update
<1>1. HasRow(ib, u) /\ (CHOOSE k \in RowsOf(ib, u) : TRUE) = n
  BY ChosenRow
<1>2. (CHOOSE k \in RowsOf(ob, u) : TRUE) = m
  BY ChosenRow
<1>. HIDE DEF u
<1>3. StatusIn(ib, ob, u) = CASE ob[m].state = "sent" -> "sent"
                              [] ob[m].state = "dead" -> "abandoned"
                              [] OTHER                -> "answered"
  BY <1>1, <1>2 DEF StatusIn
<1>. QED
  BY <1>3 DEF u, OutboxStatus

\* A change to the tables that leaves a message's rows where they were, as far
\* as the status can tell.
SameIn(ib, ic, u) ==
    /\ HasRow(ic, u) => HasRow(ib, u)
    /\ \A n \in DOMAIN ib : ib[n].update = u =>
          /\ n \in DOMAIN ic /\ ic[n].update = u
          /\ ic[n].state = "completed" <=> ib[n].state = "completed"
          /\ ic[n].state = "dead" <=> ib[n].state = "dead"

SameOut(ob, oc, u) ==
    \A n \in DOMAIN ob : ob[n].update = u =>
        /\ n \in DOMAIN oc /\ oc[n].update = u
        /\ OutboxStatus(oc[n].state) = OutboxStatus(ob[n].state)

\* Rows that stay as they are leave the status as it is.
LEMMA SameStatus ==
    ASSUME TypeOK, RowsInv, TypeOK', RowsInv', NEW u,
           SameIn(inbox, inbox', u), SameOut(outbox, outbox', u)
    PROVE  StatusOf(u)' = StatusOf(u)
<1>a. /\ UniqueRows(inbox) /\ UniqueRows(outbox) /\ UniqueRows(inbox') /\ UniqueRows(outbox')
  BY DEF RowsInv, UniqueRows
<1>b. /\ \A n \in DOMAIN inbox : inbox[n].state \in InboxStates
      /\ \A n \in DOMAIN inbox' : inbox'[n].state \in InboxStates
  <2>1. \A n \in DOMAIN inbox : inbox[n] \in Rows(InboxStates)
    BY TypeFacts
  <2>2. inbox' \in Seq(Rows(InboxStates))
    BY RowForms DEF TypeOK
  <2>. QED
    BY <2>1, <2>2, RowFields
<1>1. CASE ~HasRow(inbox, u)
  <2>1. ~HasRow(inbox', u)
    BY <1>1 DEF SameIn
  <2>. QED
    BY <1>1, <2>1, StatusForms DEF StatusIn
<1>2. ASSUME NEW n \in DOMAIN inbox, inbox[n].update = u PROVE StatusOf(u)' = StatusOf(u)
  <2>1. /\ n \in DOMAIN inbox' /\ inbox'[n].update = u
        /\ inbox'[n].state = "completed" <=> inbox[n].state = "completed"
        /\ inbox'[n].state = "dead" <=> inbox[n].state = "dead"
        /\ inbox[n].state \in InboxStates /\ inbox'[n].state \in InboxStates
    BY <1>2, <1>b DEF SameIn
  <2>2. CASE inbox[n].state = "completed"
    <3>1. PICK m \in DOMAIN outbox : outbox[m].update = u
      BY <1>2, <2>2 DEF RowsInv, TablesAgree, HasRow
    <3>2. /\ m \in DOMAIN outbox' /\ outbox'[m].update = u
          /\ OutboxStatus(outbox'[m].state) = OutboxStatus(outbox[m].state)
      BY <3>1 DEF SameOut
    <3>3. StatusIn(inbox, outbox, u) = OutboxStatus(outbox[m].state)
      BY <1>2, <1>a, <2>2, <3>1, StatusAnswered
    <3>4. StatusIn(inbox', outbox', u) = OutboxStatus(outbox'[m].state)
      BY <1>a, <2>1, <2>2, <3>2, StatusAnswered
    <3>. QED
      BY <3>2, <3>3, <3>4, StatusForms
  <2>3. CASE inbox[n].state # "completed"
    <3>1. /\ inbox[n].state \in {"pending", "running", "dead"}
          /\ inbox'[n].state \in {"pending", "running", "dead"}
      BY <2>1, <2>3 DEF InboxStates
    <3>2. InboxStatus(inbox'[n].state) = InboxStatus(inbox[n].state)
      BY <2>1, <3>1 DEF InboxStatus
    <3>3. StatusIn(inbox, outbox, u) = InboxStatus(inbox[n].state)
      BY <1>2, <1>a, <3>1, StatusOpen
    <3>4. StatusIn(inbox', outbox', u) = InboxStatus(inbox'[n].state)
      BY <1>a, <2>1, <3>1, StatusOpen
    <3>. QED
      BY <3>2, <3>3, <3>4, StatusForms
  <2>. QED
    BY <2>2, <2>3
<1>. QED
  BY <1>1, <1>2 DEF HasRow

\* Two tables with the same rows are the same to every message, and so is an
\* edited one to the messages of the other rows.
LEMMA SameTable ==
    ASSUME NEW t, NEW u
    PROVE  SameIn(t, t, u) /\ SameOut(t, t, u)
BY DEF SameIn, SameOut

\* Writing a row leaves the other messages as they are.
LEMMA SameElsewhere ==
    ASSUME NEW t, NEW s, NEW n, EditRow(t, s, n), NEW u, u # t[n].update
    PROVE  SameIn(t, s, u) /\ SameOut(t, s, u)
<1>1. HasRow(s, u) <=> HasRow(t, u)
  BY EditKeeps
<1>2. \A m \in DOMAIN t : t[m].update = u => m \in DOMAIN s /\ s[m] = t[m]
  BY DEF EditRow
<1>. QED
  BY <1>1, <1>2 DEF SameIn, SameOut

----------------------------------------------------------------------------
status == [u \in Update |-> StatusOf(u)]
seen   == {u \in Update : delivered[u] > 0}

\* One message's status changes, as a Move of Delivery.
LEMMA MoveStep ==
    ASSUME NEW u \in Update, NEW from, NEW to, StatusOf(u) = from, StatusOf(u)' = to,
           \A v \in Update : v # u => StatusOf(v)' = StatusOf(v),
           delivered' = delivered
    PROVE  Promise!Move(u, from, to)
<1>1. status' = [v \in Update |-> StatusOf(v)']
  BY DEF status
<1>2. status' = [status EXCEPT ![u] = to]
  BY <1>1 DEF status
<1>3. seen' = seen
  BY DEF seen
<1>. QED
  BY <1>2, <1>3 DEF Promise!Move, status, seen

\* A step that changes no status and delivers nothing is invisible to Delivery.
LEMMA StutterStep ==
    ASSUME \A v \in Update : StatusOf(v)' = StatusOf(v), delivered' = delivered
    PROVE  UNCHANGED Promise!deliveryVars
BY DEF Promise!deliveryVars

\* Every step of the gateway is a step of Delivery, or leaves it as it is.
LEMMA DeliveryStep ==
    ASSUME TypeOK, RowsInv, TypeOK', RowsInv', RowStep
    PROVE  Promise!Next \/ UNCHANGED Promise!deliveryVars
<1>. DEFINE Goal == Promise!Next \/ UNCHANGED Promise!deliveryVars
<1>. USE TypeFacts
<1>a. UniqueRows(inbox) /\ UniqueRows(outbox) /\ UniqueRows(inbox') /\ UniqueRows(outbox')
  BY DEF RowsInv, UniqueRows
<1>1. CASE Keeps \/ Drops
  <2>1. inbox' = inbox /\ outbox' = outbox /\ delivered' = delivered
    BY <1>1 DEF Keeps, Drops
  <2>2. \A v \in Update : StatusOf(v)' = StatusOf(v)
    BY <2>1, StatusForms
  <2>. QED
    BY <2>1, <2>2, StutterStep
<1>2. CASE Reopens
  <2>1. \A v \in Update : SameIn(inbox, inbox', v)
    BY <1>2, ReopenedFacts DEF Reopens, SameIn, HasRow, InboxStates
  <2>2. \A v \in Update : SameOut(outbox, outbox', v)
    <3>1. /\ DOMAIN outbox' = DOMAIN outbox
          /\ \A n \in DOMAIN outbox :
                /\ outbox'[n].update = outbox[n].update
                /\ outbox[n].state = "sending" => outbox'[n].state = "pending"
                /\ outbox[n].state # "sending" => outbox'[n] = outbox[n]
      BY <1>2, ReopenedFacts DEF Reopens, OutboxStates
    <3>2. \A n \in DOMAIN outbox : OutboxStatus(outbox'[n].state) = OutboxStatus(outbox[n].state)
      BY <3>1 DEF OutboxStatus
    <3>. QED
      BY <3>1, <3>2 DEF SameOut
  <2>3. \A v \in Update : StatusOf(v)' = StatusOf(v)
    BY <2>1, <2>2, SameStatus
  <2>. QED
    BY <1>2, <2>3, StutterStep DEF Reopens
<1>3. ASSUME NEW u \in Update, TakesIn(u) PROVE Goal
  <2>1. /\ DOMAIN inbox \subseteq DOMAIN inbox' /\ \A n \in DOMAIN inbox : inbox'[n] = inbox[n]
        /\ \A n \in DOMAIN inbox' : n \notin DOMAIN inbox =>
              ~HasRow(inbox, u) /\ inbox'[n].update = u /\ inbox'[n].state = "pending"
        /\ \A v : HasRow(inbox', v) <=> HasRow(inbox, v) \/ v = u
    BY <1>3, InsertKeeps DEF TakesIn, InboxStates
  <2>2. outbox' = outbox /\ delivered' = delivered
    BY <1>3 DEF TakesIn
  <2>3. ASSUME NEW v \in Update, HasRow(inbox', v) => HasRow(inbox, v)
        PROVE  StatusOf(v)' = StatusOf(v)
    <3>1. SameIn(inbox, inbox', v)
      BY <2>1, <2>3 DEF SameIn
    <3>2. SameOut(outbox, outbox', v)
      BY <2>2, SameTable
    <3>. QED
      BY <3>1, <3>2, SameStatus
  <2>4. CASE HasRow(inbox, u)
    BY <2>1, <2>2, <2>3, <2>4, StutterStep
  <2>5. CASE ~HasRow(inbox, u)
    <3>1. \A v \in Update : v # u => StatusOf(v)' = StatusOf(v)
      BY <2>1, <2>3
    <3>2. StatusOf(u) = "new"
      BY <2>5, StatusForms DEF StatusIn
    <3>3. PICK n \in DOMAIN inbox' : inbox'[n].update = u
      BY <2>1 DEF HasRow
    <3>4. inbox'[n].state = "pending"
      BY <2>1, <2>5, <3>3 DEF HasRow
    <3>5. StatusOf(u)' = "accepted"
      BY <1>a, <3>3, <3>4, StatusOpen, StatusForms DEF InboxStatus
    <3>6. Promise!Move(u, "new", "accepted")
      BY <2>2, <3>1, <3>2, <3>5, MoveStep
    <3>7. u \in {w \in Update : Origin[w] = "owner"}
      BY <1>3 DEF TakesIn, Admitted
    <3>. QED
      BY <3>6, <3>7 DEF Promise!Next, Promise!Accept
  <2>. QED
    BY <2>4, <2>5
<1>4. ASSUME NEW n \in DOMAIN inbox, ClaimsInbox(n) PROVE Goal
  <2>1. /\ EditRow(inbox, inbox', n) /\ inbox[n].state = "pending" /\ inbox'[n].state = "running"
        /\ outbox' = outbox /\ delivered' = delivered
    BY <1>4 DEF ClaimsInbox, ClaimRow
  <2>2. \A v \in Update : SameIn(inbox, inbox', v)
    BY <2>1, EditKeeps DEF SameIn, EditRow
  <2>3. \A v \in Update : SameOut(outbox, outbox', v)
    BY <2>1, SameTable
  <2>. QED
    BY <2>1, <2>2, <2>3, SameStatus, StutterStep
<1>5. CASE Completes
  <2>0. PICK u : u = inbox[cur].update
    OBVIOUS
  <2>. USE <2>0
  <2>1. /\ cur \in DOMAIN inbox /\ u \in Update /\ inbox[cur].state = "running"
        /\ delivered' = delivered
    BY <1>5, RowFields DEF Completes, RowsInv, RowInHand, HandlingPcs
  <2>2. EditRow(inbox, inbox', cur) /\ inbox'[cur].state = "completed"
    BY <1>5 DEF Completes
  <2>3. /\ DOMAIN outbox \subseteq DOMAIN outbox' /\ \A n \in DOMAIN outbox : outbox'[n] = outbox[n]
        /\ \A n \in DOMAIN outbox' : n \notin DOMAIN outbox =>
              outbox'[n].update = u /\ outbox'[n].state = "pending"
        /\ HasRow(outbox', u)
    BY <1>5, <2>1, InsertKeeps DEF Completes, OutboxStates
  <2>4. ASSUME NEW v \in Update, v # u PROVE StatusOf(v)' = StatusOf(v)
    <3>1. SameIn(inbox, inbox', v)
      BY <2>2, <2>4, SameElsewhere
    <3>2. SameOut(outbox, outbox', v)
      BY <2>3 DEF SameOut
    <3>. QED
      BY <3>1, <3>2, SameStatus
  <2>5. StatusOf(u) = "accepted"
    BY <1>a, <2>1, StatusOpen, StatusForms DEF InboxStatus
  <2>6. ~HasRow(outbox, u)
    BY <1>a, <2>1 DEF RowsInv, TablesAgree, HasRow, UniqueRows
  <2>7. PICK m \in DOMAIN outbox' : outbox'[m].update = u
    BY <2>3 DEF HasRow
  <2>8. outbox'[m].state = "pending"
    BY <2>3, <2>6, <2>7 DEF HasRow
  <2>9. cur \in DOMAIN inbox' /\ inbox'[cur].update = u
    BY <2>2 DEF EditRow
  <2>10. StatusIn(inbox', outbox', u) = OutboxStatus(outbox'[m].state)
    BY <1>a, <2>2, <2>7, <2>9, StatusAnswered
  <2>11. StatusOf(u)' = "answered"
    BY <2>8, <2>10, StatusForms DEF OutboxStatus
  <2>12. Promise!Move(u, "accepted", "answered")
    BY <2>1, <2>4, <2>5, <2>11, MoveStep
  <2>. QED
    BY <2>1, <2>12 DEF Promise!Next, Promise!Answer
<1>6. CASE FailsInbox
  <2>0. PICK u : u = inbox[cur].update
    OBVIOUS
  <2>. USE <2>0
  <2>1. /\ cur \in DOMAIN inbox /\ inbox[cur].state = "running" /\ EditRow(inbox, inbox', cur)
        /\ inbox'[cur].state \in {"pending", "dead"} /\ outbox' = outbox /\ delivered' = delivered
    BY <1>6 DEF FailsInbox, FailRow, EditRow, RowsInv, RowInHand, HandlingPcs
  <2>2. u \in Update
    BY <2>1, RowFields
  <2>3. \A v \in Update : SameOut(outbox, outbox', v)
    BY <2>1, SameTable
  <2>4. CASE inbox'[cur].state = "pending"
    <3>1. \A v \in Update : SameIn(inbox, inbox', v)
      BY <2>1, <2>4, EditKeeps DEF SameIn, EditRow
    <3>. QED
      BY <2>1, <2>3, <3>1, SameStatus, StutterStep
  <2>5. CASE inbox'[cur].state = "dead"
    <3>1. \A v \in Update : v # u => StatusOf(v)' = StatusOf(v)
      BY <2>1, <2>3, SameElsewhere, SameStatus
    <3>2. StatusOf(u) = "accepted"
      BY <1>a, <2>1, StatusOpen, StatusForms DEF InboxStatus
    <3>3. cur \in DOMAIN inbox' /\ inbox'[cur].update = u
      BY <2>1 DEF EditRow
    <3>4. StatusOf(u)' = "given up"
      BY <1>a, <2>5, <3>3, StatusOpen, StatusForms DEF InboxStatus
    <3>5. Promise!Move(u, "accepted", "given up")
      BY <2>1, <2>2, <3>1, <3>2, <3>4, MoveStep
    <3>. QED
      BY <2>2, <3>5 DEF Promise!Next, Promise!GiveUp
  <2>. QED
    BY <2>1, <2>4, <2>5
<1>7. ASSUME NEW n \in DOMAIN outbox, ClaimsOutbox(n) PROVE Goal
  <2>1. /\ EditRow(outbox, outbox', n) /\ outbox[n].state = "pending"
        /\ outbox'[n].state = "sending" /\ inbox' = inbox /\ delivered' = delivered
    BY <1>7 DEF ClaimsOutbox, ClaimRow
  <2>2. \A v \in Update : SameIn(inbox, inbox', v)
    BY <2>1, SameTable
  <2>3. \A v \in Update : SameOut(outbox, outbox', v)
    BY <2>1 DEF SameOut, EditRow, OutboxStatus
  <2>. QED
    BY <2>1, <2>2, <2>3, SameStatus, StutterStep
<1>b. ASSUME NEW m \in DOMAIN outbox, outbox[m].state = "sending"
      PROVE  outbox[m].update \in Update /\ StatusOf(outbox[m].update) = "answered"
  <2>1. outbox[m].update \in Update
    BY RowFields
  <2>2. PICK n \in DOMAIN inbox : inbox[n].update = outbox[m].update /\ inbox[n].state = "completed"
    BY DEF RowsInv, TablesAgree
  <2>3. StatusIn(inbox, outbox, inbox[n].update) = OutboxStatus(outbox[m].state)
    BY <1>a, <2>2, StatusAnswered
  <2>. QED
    BY <1>b, <2>1, <2>2, <2>3, StatusForms DEF OutboxStatus
<1>8. CASE Sends
  <2>0. PICK u : u = outbox[cur].update
    OBVIOUS
  <2>. USE <2>0
  <2>1. /\ cur \in DOMAIN outbox /\ outbox[cur].state = "sending"
        /\ inbox' = inbox /\ outbox' = outbox /\ delivered' \in {delivered, Delivered}
    BY <1>8 DEF Sends, RowsInv, RowInHand, SendingPcs
  <2>2. u \in Update /\ StatusOf(u) = "answered"
    BY <1>b, <2>1
  <2>3. \A v \in Update : StatusOf(v)' = StatusOf(v)
    BY <2>1, StatusForms
  <2>4. CASE delivered' = delivered
    BY <2>3, <2>4, StutterStep
  <2>5. CASE delivered' = Delivered
    <3>1. delivered \in [Update -> Nat]
      BY DEF TypeOK
    <3>2. \A v \in Update : delivered'[v] > 0 <=> (delivered[v] > 0 \/ v = u)
      BY <2>2, <2>5, <3>1 DEF Delivered
    <3>3. seen' = seen \cup {u}
      BY <2>2, <3>2 DEF seen
    <3>4. status' = status /\ status[u] = "answered"
      BY <2>2, <2>3 DEF status
    <3>5. Promise!Reach(u)
      BY <3>3, <3>4 DEF Promise!Reach, status, seen
    <3>. QED
      BY <2>2, <3>5 DEF Promise!Next
  <2>. QED
    BY <2>1, <2>4, <2>5
<1>9. ASSUME Records \/ FailsOutbox PROVE Goal
  <2>0. PICK u : u = outbox[cur].update
    OBVIOUS
  <2>. USE <2>0
  <2>1. /\ cur \in DOMAIN outbox /\ outbox[cur].state = "sending" /\ EditRow(outbox, outbox', cur)
        /\ inbox' = inbox /\ delivered' = delivered
    BY <1>9 DEF Records, FailsOutbox, FailRow, EditRow, RowsInv, RowInHand, SendingPcs
  <2>2. u \in Update /\ StatusOf(u) = "answered"
    BY <1>b, <2>1
  <2>3. \A v \in Update : SameIn(inbox, inbox', v)
    BY <2>1, SameTable
  <2>4. \A v \in Update : v # u => StatusOf(v)' = StatusOf(v)
    BY <2>1, <2>3, SameElsewhere, SameStatus
  <2>5. cur \in DOMAIN outbox' /\ outbox'[cur].update = u
    BY <2>1 DEF EditRow
  <2>6. PICK n \in DOMAIN inbox : inbox[n].update = u /\ inbox[n].state = "completed"
    BY <2>1 DEF RowsInv, TablesAgree
  <2>7. StatusOf(u)' = OutboxStatus(outbox'[cur].state)
    <3>1. StatusIn(inbox', outbox', inbox'[n].update) = OutboxStatus(outbox'[cur].state)
      BY <1>a, <2>1, <2>5, <2>6, StatusAnswered
    <3>. QED
      BY <2>1, <2>6, <3>1, StatusForms
  <2>8. CASE Records
    <3>1. StatusOf(u)' = "sent"
      BY <2>7, <2>8 DEF Records, OutboxStatus
    <3>2. Promise!Move(u, "answered", "sent")
      BY <2>1, <2>2, <2>4, <3>1, MoveStep
    <3>3. u \in {w \in Update : delivered[w] > 0}
      BY <2>2, <2>8 DEF Records, RowsInv, RowInHand
    <3>. QED
      BY <2>2, <3>2, <3>3 DEF Promise!Next, Promise!Confirm
  <2>9. CASE FailsOutbox /\ outbox'[cur].state = "pending"
    <3>1. StatusOf(u)' = "answered"
      BY <2>7, <2>9 DEF OutboxStatus
    <3>. QED
      BY <2>1, <2>2, <2>4, <3>1, StutterStep
  <2>10. CASE FailsOutbox /\ outbox'[cur].state # "pending"
    <3>1. outbox'[cur].state = "dead"
      BY <2>10 DEF FailsOutbox, FailRow
    <3>2. StatusOf(u)' = "abandoned"
      BY <2>7, <3>1 DEF OutboxStatus
    <3>3. Promise!Move(u, "answered", "abandoned")
      BY <2>1, <2>2, <2>4, <3>2, MoveStep
    <3>. QED
      BY <2>2, <3>3 DEF Promise!Next, Promise!Abandon
  <2>. QED
    BY <1>9, <2>8, <2>9, <2>10
<1>. QED
  BY <1>1, <1>2, <1>3, <1>4, <1>5, <1>6, <1>7, <1>8, <1>9 DEF RowStep

\* The gateway implements Delivery: only the owner's messages are accepted, each
\* once; a settled message or reply stays settled over restarts; nothing is
\* delivered before it is answered or after it is settled (Run, drainInbox,
\* drainOutbox, Open).
THEOREM GatewayImplementsDelivery == Spec => ImplementsDelivery
<1>1. Init => Promise!Init
  <2>. SUFFICES ASSUME Init PROVE Promise!Init
    OBVIOUS
  <2>1. \A u \in Update : StatusOf(u) = "new"
    BY DEF Init, StatusOf, HasRow
  <2>2. {u \in Update : delivered[u] > 0} = {}
    BY DEF Init
  <2>. QED
    BY <2>1, <2>2 DEF Promise!Init
<1>2. TypeOK /\ RowsInv /\ TypeOK' /\ RowsInv' /\ [Next]_vars
        => [Promise!Next]_(Promise!deliveryVars)
  BY RowSteps, DeliveryStep
<1>. QED
  BY <1>1, <1>2, GatewayTypes, RowsInvHolds, PTL DEF Spec, ImplementsDelivery, Promise!Spec
=============================================================================
