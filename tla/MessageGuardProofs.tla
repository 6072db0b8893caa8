------------------------- MODULE MessageGuardProofs -------------------------
(***************************************************************************)
(* MessageGuard.Allow keeps its rate and does not starve a patient sender, *)
(* for every rate, burst and resolution of the clock, and whatever the     *)
(* clock does; and the operators of SqlTime agree with the reference       *)
(* definitions of MCOperators.                                             *)
(***************************************************************************)
EXTENDS MCOperators, TLAPS

\* The units that the bucket gets when the guard looks at it next, the burst
\* aside; none while the clock is behind the last message.
Pending == IF clock < bucket.last THEN 0 ELSE (clock - bucket.last) * PerMinute

GuardTypeOK ==
    /\ clock \in Nat /\ admitted \in Nat /\ forward \in Nat /\ waited \in Nat
    /\ bucket \in [units : 0 .. Full, last : Nat]

\* What was let through, what is in the bucket and what is on its way to it have
\* been paid for by the burst and the time.
Paid == admitted * TicksPerMinute + bucket.units + Pending <= Full + forward * PerMinute

GuardInv == GuardTypeOK /\ Paid

\* The two constants the arithmetic is about.
LEMMA Constants ==
    /\ TicksPerMinute \in Nat \ {0} /\ PerMinute \in Nat \ {0} /\ Full \in Nat
    /\ Full >= TicksPerMinute
<1>1. TicksPerMinute \in Nat \ {0} /\ PerMinute \in Nat \ {0} /\ Burst \in Nat /\ Burst >= 1
  BY GuardAssumption
<1>2. \A b \in Nat, t \in Nat : b >= 1 => b * t \in Nat /\ b * t >= t
  OBVIOUS
<1>. QED  BY <1>1, <1>2 DEF Full

\* Products, for the provers.
LEMMA Product ==
    /\ \A a, p \in Nat : a * p \in Nat
    /\ \A a, p \in Nat : (a + 1) * p = a * p + p
    /\ \A a, b, p \in Nat : a <= b => a * p <= b * p
OBVIOUS

\* What Allow makes of the bucket: no more than it held and what was pending.
LEMMA Refilling ==
    ASSUME GuardTypeOK
    PROVE  /\ Pending \in Nat
           /\ Refilled(clock) \in [units : 0 .. Full, last : Nat]
           /\ Refilled(clock).last = clock
           /\ Refilled(clock).units <= bucket.units + Pending
<1>. DEFINE e == IF clock < bucket.last THEN 0 ELSE clock - bucket.last
<1>1. e \in Nat /\ bucket.units \in 0 .. Full /\ Full \in Nat /\ PerMinute \in Nat
  BY Constants DEF GuardTypeOK
<1>2. e * PerMinute \in Nat /\ Pending = e * PerMinute
  BY <1>1, Product, Constants DEF Pending, GuardTypeOK
<1>3. Refilled(clock) = [units |-> IF bucket.units + e * PerMinute > Full THEN Full
                                   ELSE bucket.units + e * PerMinute,
                         last |-> clock]
  BY DEF Refilled
<1>. HIDE DEF e
<1>. QED  BY <1>1, <1>2, <1>3 DEF GuardTypeOK

\* The burst pays for the first messages.
LEMMA GuardStarts == GuardInit => GuardInv
<1>. SUFFICES ASSUME GuardInit PROVE GuardInv
  OBVIOUS
<1>1. GuardTypeOK
  BY Constants DEF GuardInit, GuardTypeOK
<1>2. Pending = 0
  BY Constants, Product DEF GuardInit, Pending
<1>. QED  BY <1>1, <1>2, Constants DEF GuardInit, GuardInv, Paid

\* Every step is paid for.
LEMMA GuardStep == GuardInv /\ [GuardNext]_guardVars => GuardInv'
<1>. SUFFICES ASSUME GuardInv, [GuardNext]_guardVars PROVE GuardInv'
  OBVIOUS
<1>. USE Constants DEF GuardInv
<1>1. CASE Admit
  <2>1. GuardTypeOK'
    BY <1>1, Refilling DEF Admit, Allows, GuardTypeOK
  <2>2. Pending' = 0 /\ bucket'.units = Refilled(clock).units - TicksPerMinute
    BY <1>1, Refilling DEF Admit, Pending, GuardTypeOK
  <2>3. admitted' * TicksPerMinute = admitted * TicksPerMinute + TicksPerMinute
    BY <1>1, Product DEF Admit, GuardTypeOK
  <2>4. forward' = forward
    BY <1>1 DEF Admit
  <2>5. admitted * TicksPerMinute \in Nat /\ forward * PerMinute \in Nat
    BY Product DEF GuardTypeOK
  <2>. DEFINE x == admitted * TicksPerMinute  y == forward * PerMinute
  <2>6. x + bucket.units + Pending <= Full + y
    BY DEF Paid
  <2>7. Paid' <=> (x + TicksPerMinute) + bucket'.units + 0 <= Full + y
    BY <2>2, <2>3, <2>4 DEF Paid
  <2>8. x \in Nat /\ y \in Nat
    BY <2>5
  <2>. HIDE DEF x, y
  <2>. QED  BY <2>1, <2>2, <2>6, <2>7, <2>8, Refilling DEF GuardTypeOK
<1>2. CASE Refuse
  <2>1. GuardTypeOK'
    BY <1>2, Refilling DEF Refuse, GuardTypeOK
  <2>2. Pending' = 0 /\ bucket'.units = Refilled(clock).units
    BY <1>2, Refilling DEF Refuse, Pending, GuardTypeOK
  <2>3. admitted' = admitted /\ forward' = forward
    BY <1>2 DEF Refuse
  <2>4. admitted * TicksPerMinute \in Nat /\ forward * PerMinute \in Nat
    BY Product DEF GuardTypeOK
  <2>. QED  BY <2>1, <2>2, <2>3, <2>4, Refilling DEF Paid, GuardTypeOK
<1>3. CASE Forward
  <2>1. GuardTypeOK'
    BY <1>3 DEF Forward, GuardTypeOK
  <2>2. Pending' <= Pending + PerMinute /\ Pending \in Nat /\ Pending' \in Nat
    <3>1. CASE clock < bucket.last
      <4>1. Pending = 0
        BY <3>1 DEF Pending
      <4>2. clock' <= bucket'.last /\ clock' \in Nat /\ bucket'.last \in Nat
        BY <1>3, <3>1 DEF Forward, GuardTypeOK
      <4>3. Pending' = 0
        BY <4>2, Product DEF Pending
      <4>. QED  BY <4>1, <4>3
    <3>2. CASE ~(clock < bucket.last)
      <4>. DEFINE d == clock - bucket.last
      <4>1. d \in Nat /\ Pending = d * PerMinute
        BY <3>2 DEF Pending, GuardTypeOK
      <4>2. Pending' = (d + 1) * PerMinute
        BY <1>3, <3>2 DEF Forward, Pending, GuardTypeOK
      <4>. HIDE DEF d
      <4>. QED  BY <4>1, <4>2, Product
    <3>. QED  BY <3>1, <3>2
  <2>3. forward' * PerMinute = forward * PerMinute + PerMinute
    BY <1>3, Product DEF Forward, GuardTypeOK
  <2>4. admitted' = admitted /\ bucket' = bucket
    BY <1>3 DEF Forward
  <2>5. admitted * TicksPerMinute \in Nat /\ forward * PerMinute \in Nat
    BY Product DEF GuardTypeOK
  <2>. DEFINE x == admitted * TicksPerMinute  y == forward * PerMinute
  <2>6. x + bucket.units + Pending <= Full + y
    BY DEF Paid
  <2>7. Paid' <=> x + bucket.units + Pending' <= Full + (y + PerMinute)
    BY <2>3, <2>4 DEF Paid
  <2>8. x \in Nat /\ y \in Nat
    BY <2>5
  <2>. HIDE DEF x, y
  <2>. QED  BY <2>1, <2>2, <2>6, <2>7, <2>8 DEF GuardTypeOK
<1>4. CASE SetBack
  <2>1. GuardTypeOK' /\ clock' < clock
    BY <1>4 DEF SetBack, GuardTypeOK
  <2>2. Pending' <= Pending /\ Pending \in Nat /\ Pending' \in Nat
    <3>1. CASE clock' < bucket.last
      BY <1>4, <3>1, Refilling DEF SetBack, Pending
    <3>2. CASE ~(clock' < bucket.last)
      <4>. DEFINE a == clock' - bucket.last  b == clock - bucket.last
      <4>1. a \in Nat /\ b \in Nat /\ a <= b
        BY <2>1, <3>2 DEF GuardTypeOK
      <4>2. Pending' = a * PerMinute /\ Pending = b * PerMinute
        BY <1>4, <2>1, <3>2 DEF SetBack, Pending, GuardTypeOK
      <4>. HIDE DEF a, b
      <4>. QED  BY <4>1, <4>2, Product
    <3>. QED  BY <3>1, <3>2
  <2>3. admitted' = admitted /\ bucket' = bucket /\ forward' = forward
    BY <1>4 DEF SetBack
  <2>4. admitted * TicksPerMinute \in Nat /\ forward * PerMinute \in Nat
    BY Product DEF GuardTypeOK
  <2>. QED  BY <2>1, <2>2, <2>3, <2>4 DEF Paid, GuardTypeOK
<1>5. CASE UNCHANGED guardVars
  BY <1>5 DEF guardVars, GuardTypeOK, Paid, Pending
<1>. QED  BY <1>1, <1>2, <1>3, <1>4, <1>5 DEF GuardNext

\* For every rate, burst and resolution, and however often the clock is set back,
\* Allow lets through no more than the burst and what the rate grants.
THEOREM RateKept == GuardSpec => []RateBound
<1>1. GuardInv => RateBound
  <2>. SUFFICES ASSUME GuardInv PROVE RateBound
    OBVIOUS
  <2>1. admitted * TicksPerMinute \in Nat /\ forward * PerMinute \in Nat /\ Pending \in Nat
    BY Product, Constants, Refilling DEF GuardInv, GuardTypeOK
  <2>. QED  BY <2>1, Constants DEF GuardInv, GuardTypeOK, Paid, RateBound
<1>. QED  BY <1>1, GuardStarts, GuardStep, PTL DEF GuardSpec

(***************************************************************************)
(* What a caller who waits can count on: the time it has waited for is in  *)
(* the bucket or on its way there, unless that is full.                    *)
(***************************************************************************)
Earned == waited * PerMinute <= bucket.units + Pending \/ Full <= bucket.units + Pending

\* A refusal keeps what was refilled.
LEMMA EarnedKept == GuardTypeOK /\ Earned /\ [GuardNext]_guardVars => Earned'
<1>. SUFFICES ASSUME GuardTypeOK, Earned, [GuardNext]_guardVars PROVE Earned'
  OBVIOUS
<1>. USE Constants
<1>0. 0 * PerMinute = 0 /\ waited * PerMinute \in Nat
  BY Product DEF GuardTypeOK
<1>1. ASSUME waited' = 0, bucket'.units \in Nat, Pending' \in Nat PROVE Earned'
  BY <1>0, <1>1 DEF Earned
<1>2. CASE Admit
  <2>1. /\ bucket'.units = Refilled(clock).units - TicksPerMinute /\ Pending' = 0 /\ waited' = 0
        /\ Refilled(clock).units >= TicksPerMinute
    BY <1>0, <1>2, Refilling DEF Admit, Allows, Pending, GuardTypeOK
  <2>2. bucket'.units \in Nat
    BY <2>1, Refilling
  <2>. QED
    BY <1>1, <2>1, <2>2
<1>3. CASE Refuse
  <2>1. bucket' = Refilled(clock) /\ waited' = waited /\ clock' = clock
    BY <1>3 DEF Refuse
  <2>2. Pending' = 0 /\ Pending \in Nat
    BY <1>0, <2>1, Refilling DEF Pending, GuardTypeOK
  <2>3. Refilled(clock).units < TicksPerMinute /\ Refilled(clock).units \in Nat
    BY <1>3, Refilling DEF Refuse, Allows
  <2>4. \/ Refilled(clock).units = bucket.units + Pending
        \/ Refilled(clock).units = Full
    BY Refilling, <1>0 DEF Refilled, Pending, GuardTypeOK
  <2>5. Refilled(clock).units = bucket.units + Pending
    BY <2>3, <2>4
  <2>6. bucket'.units + Pending' = bucket.units + Pending
    BY <2>1, <2>2, <2>3, <2>5
  <2>. QED
    BY <2>1, <2>6 DEF Earned
<1>4. CASE Forward
  <2>1. clock' = clock + 1 /\ bucket' = bucket
    BY <1>4 DEF Forward
  <2>2. CASE clock < bucket.last
    <3>1. waited' = 0
      BY <1>4, <2>2 DEF Forward
    <3>2. Pending' \in Nat /\ bucket'.units \in Nat
      BY <2>1, Product DEF Pending, GuardTypeOK
    <3>. QED
      BY <1>1, <3>1, <3>2
  <2>3. CASE ~(clock < bucket.last)
    <3>. DEFINE d == clock - bucket.last
    <3>1. d \in Nat /\ Pending = d * PerMinute
      BY <2>3 DEF Pending, GuardTypeOK
    <3>2. Pending' = (d + 1) * PerMinute
      BY <2>1, <2>3 DEF Pending, GuardTypeOK
    <3>. HIDE DEF d
    <3>3. Pending' = Pending + PerMinute /\ Pending \in Nat
      BY <3>1, <3>2, Product
    <3>4. waited' = waited + 1
      BY <1>4, <2>3 DEF Forward
    <3>5. waited' * PerMinute = waited * PerMinute + PerMinute
      BY <3>4, Product DEF GuardTypeOK
    <3>6. bucket'.units = bucket.units /\ bucket.units \in Nat
      BY <2>1 DEF GuardTypeOK
    <3>. DEFINE w == waited * PerMinute
    <3>7. w \in Nat /\ (w <= bucket.units + Pending \/ Full <= bucket.units + Pending)
      BY <1>0 DEF Earned
    <3>8. Earned' <=> \/ w + PerMinute <= bucket.units + Pending + PerMinute
                      \/ Full <= bucket.units + Pending + PerMinute
      BY <3>3, <3>5, <3>6 DEF Earned
    <3>. HIDE DEF w
    <3>. QED
      BY <3>3, <3>6, <3>7, <3>8
  <2>. QED
    BY <2>2, <2>3
<1>5. CASE SetBack
  <2>1. waited' = 0 /\ bucket' = bucket /\ clock' \in Nat
    BY <1>5 DEF SetBack, GuardTypeOK
  <2>2. Pending' \in Nat /\ bucket'.units \in Nat
    BY <2>1, Product DEF Pending, GuardTypeOK
  <2>. QED
    BY <1>1, <2>1, <2>2
<1>6. CASE UNCHANGED guardVars
  BY <1>6 DEF guardVars, Earned, Pending
<1>. QED
  BY <1>2, <1>3, <1>4, <1>5, <1>6 DEF GuardNext

\* A sender who has waited for one message's worth of time is let through, however
\* often Allow has refused him meanwhile.
THEOREM PatiencePays == GuardSpec => []PatienceIsRewarded
<1>1. GuardInit => Earned
  <2>. SUFFICES ASSUME GuardInit PROVE Earned
    OBVIOUS
  <2>1. Pending = 0 /\ waited * PerMinute = 0
    BY Constants, Product DEF GuardInit, Pending
  <2>. QED
    BY <2>1, Constants DEF GuardInit, Earned
<1>2. GuardInv /\ Earned => PatienceIsRewarded
  <2>. SUFFICES ASSUME GuardInv, Earned, waited * PerMinute >= TicksPerMinute
                PROVE  Refilled(clock).units >= TicksPerMinute
    BY DEF PatienceIsRewarded, Allows
  <2>1. GuardTypeOK
    BY DEF GuardInv
  <2>2. /\ Pending \in Nat /\ bucket.units \in Nat
        /\ \/ Refilled(clock).units = bucket.units + Pending
           \/ Refilled(clock).units = Full
    BY <2>1, Refilling, Product, Constants DEF Refilled, Pending, GuardTypeOK
  <2>3. waited * PerMinute \in Nat
    BY <2>1, Constants, Product DEF GuardTypeOK
  <2>. QED
    BY <2>2, <2>3, Constants DEF Earned
<1>3. GuardInv /\ Earned /\ [GuardNext]_guardVars => Earned'
  BY EarnedKept DEF GuardInv
<1>. QED
  BY <1>1, <1>2, <1>3, GuardStarts, GuardStep, PTL DEF GuardSpec
-----------------------------------------------------------------------------
(***************************************************************************)
(* The operators of SqlTime agree with their reference definitions for     *)
(* every instant, interval and attempt number.                             *)
(***************************************************************************)

\* The two texts of formatTime: a whole second, and a second with a fraction.
Whole(s)         == <<s, 90>>
Fractional(s, f) == <<s, 46, 48 + f, 90>>

\* Sequences of the same length with the same elements are equal.
LEMMA SameElements ==
    ASSUME NEW a \in Seq(Int), NEW b \in Seq(Int), Len(a) = Len(b),
           \A i \in 1 .. Len(a) : a[i] = b[i]
    PROVE  a = b
OBVIOUS

\* formatTime puts together a whole second.
LEMMA ConcatWhole ==
    ASSUME NEW s \in Int PROVE <<s>> \o <<90>> = Whole(s)
<1> DEFINE l == <<s>> \o <<90>>
<1>1. l \in Seq(Int) /\ Len(l) = 2 /\ l[1] = s /\ l[2] = 90
  OBVIOUS
<1>2. /\ Whole(s) \in Seq(Int) /\ Len(Whole(s)) = 2
      /\ Whole(s)[1] = s /\ Whole(s)[2] = 90
  BY DEF Whole
<1> HIDE DEF l
<1>3. \A i \in 1 .. 2 : l[i] = Whole(s)[i]
  BY <1>1, <1>2
<1>4. l = Whole(s)
  BY <1>1, <1>2, <1>3, SameElements
<1>5. QED
  BY <1>4 DEF l

\* And a second with a fraction.
LEMMA ConcatFractional ==
    ASSUME NEW s \in Int, NEW f \in Int
    PROVE  <<s>> \o <<46, 48 + f, 90>> = Fractional(s, f)
<1> DEFINE l == <<s>> \o <<46, 48 + f, 90>>
           r == Fractional(s, f)
<1>1. /\ l \in Seq(Int) /\ Len(l) = 4
      /\ l[1] = s /\ l[2] = 46 /\ l[3] = 48 + f /\ l[4] = 90
  OBVIOUS
<1>2. /\ r \in Seq(Int) /\ Len(r) = 4
      /\ r[1] = s /\ r[2] = 46 /\ r[3] = 48 + f /\ r[4] = 90
  BY DEF Fractional
<1> HIDE DEF l, r
<1>3. Len(l) = Len(r) /\ \A i \in 1 .. Len(l) : l[i] = r[i]
  BY <1>1, <1>2
<1>4. l = r
  <2>1. l \in Seq(Int) /\ r \in Seq(Int)
    BY <1>1, <1>2
  <2>2. QED
    BY <1>3, <2>1, SameElements
<1>5. QED
  BY <1>4 DEF l, r

\* The second an instant lies in and the digit after it.
SecondOf(t) == t \div TicksPerSecond
DigitOf(t)  == ((t % TicksPerSecond) * 10) \div TicksPerSecond

\* What formatTime writes.
LEMMA FormatShape ==
    ASSUME NEW t \in Nat
    PROVE  /\ SecondOf(t) \in Nat /\ DigitOf(t) \in 0 .. 9
           /\ formatTime(t) = IF DigitOf(t) = 0 THEN Whole(SecondOf(t))
                              ELSE Fractional(SecondOf(t), DigitOf(t))
<1>1. SecondOf(t) \in Nat /\ DigitOf(t) \in 0 .. 9
  <2>1. CASE TicksPerSecond = 1
    BY <2>1 DEF SecondOf, DigitOf
  <2>2. CASE TicksPerSecond = 2
    BY <2>2 DEF SecondOf, DigitOf
  <2>3. CASE TicksPerSecond = 5
    BY <2>3 DEF SecondOf, DigitOf
  <2>4. CASE TicksPerSecond = 10
    BY <2>4 DEF SecondOf, DigitOf
  <2>5. QED
    BY <2>1, <2>2, <2>3, <2>4, TicksAssumption
<1>2. formatTime(t) = <<SecondOf(t)>> \o
                      (IF DigitOf(t) = 0 THEN <<90>> ELSE <<46, 48 + DigitOf(t), 90>>)
  BY DEF formatTime, SecondOf, DigitOf
<1>3. CASE DigitOf(t) = 0
  BY <1>1, <1>2, <1>3, ConcatWhole
<1>4. CASE DigitOf(t) # 0
  BY <1>1, <1>2, <1>4, ConcatFractional
<1>5. QED
  BY <1>1, <1>3, <1>4

\* The position in the text order, by second and digit.
LEMMA KeyOrder ==
    ASSUME NEW t \in Nat, NEW c \in Nat
    PROVE  /\ SqlLeq(t, c) <=> \/ SecondOf(t) < SecondOf(c)
                               \/ /\ SecondOf(t) = SecondOf(c)
                                  /\ \/ DigitOf(c) = 0
                                     \/ DigitOf(t) # 0 /\ DigitOf(t) <= DigitOf(c)
           /\ SqlLeq(t, c) => t < c + TicksPerSecond
           /\ t + TicksPerSecond <= c => SqlLess(t, c)
<1>1. CASE TicksPerSecond = 1
  BY <1>1 DEF SqlLeq, SqlLess, TextKey, SecondOf, DigitOf
<1>2. CASE TicksPerSecond = 2
  BY <1>2 DEF SqlLeq, SqlLess, TextKey, SecondOf, DigitOf
<1>3. CASE TicksPerSecond = 5
  BY <1>3 DEF SqlLeq, SqlLess, TextKey, SecondOf, DigitOf
<1>4. CASE TicksPerSecond = 10
  BY <1>4 DEF SqlLeq, SqlLess, TextKey, SecondOf, DigitOf
<1>5. QED
  BY <1>1, <1>2, <1>3, <1>4, TicksAssumption

\* Two whole seconds are in the order of time.
LEMMA WholeWhole ==
    ASSUME NEW s \in Int, NEW u \in Int
    PROVE  Lexicographic(Whole(s), Whole(u)) <=> s <= u
<1> DEFINE a == Whole(s)  b == Whole(u)
<1>1. Len(a) = 2 /\ Len(b) = 2 /\ a[1] = s /\ a[2] = 90 /\ b[1] = u /\ b[2] = 90
  BY DEF Whole
<1>2. a = b <=> s = u
  BY DEF Whole
<1> HIDE DEF a, b
<1>3. Lexicographic(a, b) <=> s <= u
  BY <1>1, <1>2 DEF Lexicographic
<1>4. QED
  BY <1>3 DEF a, b

\* A whole second sorts after every fraction of that second.
LEMMA WholeFractional ==
    ASSUME NEW s \in Int, NEW u \in Int, NEW g \in Int
    PROVE  Lexicographic(Whole(s), Fractional(u, g)) <=> s < u
<1> DEFINE a == Whole(s)  b == Fractional(u, g)
<1>1. /\ Len(a) = 2 /\ Len(b) = 4 /\ a[1] = s /\ a[2] = 90
      /\ b[1] = u /\ b[2] = 46 /\ b[3] = 48 + g /\ b[4] = 90
  BY DEF Whole, Fractional
<1> HIDE DEF a, b
<1>2. a # b
  BY <1>1
<1>3. Lexicographic(a, b) <=> s < u
  <2>1. ASSUME s < u PROVE Lexicographic(a, b)
    BY <1>1, <2>1 DEF Lexicographic
  <2>2. ASSUME Lexicographic(a, b) PROVE s < u
    <3>1. PICK i \in 1 .. 4 : /\ i <= 2 => a[i] < b[i]
                              /\ \A k \in 1 .. i - 1 : k <= 2 /\ a[k] = b[k]
      BY <1>1, <1>2, <2>2 DEF Lexicographic
    <3>2. i = 1
      <4>1. ASSUME i = 2 PROVE FALSE
        BY <1>1, <3>1, <4>1
      <4>2. ASSUME i > 2 PROVE FALSE
        <5>1. 2 \in 1 .. i - 1
          BY <4>2
        <5>2. QED
          BY <1>1, <3>1, <5>1
      <4>3. QED
        BY <3>1, <4>1, <4>2
    <3>3. QED
      BY <1>1, <3>1, <3>2
  <2>3. QED
    BY <2>1, <2>2
<1>4. QED
  BY <1>3 DEF a, b

\* A fraction sorts before its own second and after the seconds before.
LEMMA FractionalWhole ==
    ASSUME NEW s \in Int, NEW u \in Int, NEW f \in Int
    PROVE  Lexicographic(Fractional(s, f), Whole(u)) <=> s <= u
<1> DEFINE a == Fractional(s, f)  b == Whole(u)
<1>1. /\ Len(b) = 2 /\ Len(a) = 4 /\ b[1] = u /\ b[2] = 90
      /\ a[1] = s /\ a[2] = 46 /\ a[3] = 48 + f /\ a[4] = 90
  BY DEF Whole, Fractional
<1> HIDE DEF a, b
<1>2. a # b
  BY <1>1
<1>3. ASSUME s < u PROVE Lexicographic(a, b)
  BY <1>1, <1>3 DEF Lexicographic
<1>4. ASSUME s = u PROVE Lexicographic(a, b)
  <2>1. /\ 2 \in 1 .. Len(b)
        /\ 2 <= Len(a) => a[2] < b[2]
        /\ \A k \in 1 .. 2 - 1 : k <= Len(a) /\ a[k] = b[k]
    BY <1>1, <1>4
  <2>2. QED
    BY <2>1 DEF Lexicographic
<1>5. ASSUME Lexicographic(a, b) PROVE s <= u
  BY <1>1, <1>2, <1>5 DEF Lexicographic
<1>6. QED
  BY <1>3, <1>4, <1>5 DEF a, b

\* Fractions are in the order of time.
LEMMA FractionalFractional ==
    ASSUME NEW s \in Int, NEW u \in Int, NEW f \in Int, NEW g \in Int
    PROVE  Lexicographic(Fractional(s, f), Fractional(u, g)) <=> s < u \/ (s = u /\ f <= g)
<1> DEFINE a == Fractional(s, f)  b == Fractional(u, g)
<1>1. /\ Len(a) = 4 /\ a[1] = s /\ a[2] = 46 /\ a[3] = 48 + f /\ a[4] = 90
      /\ Len(b) = 4 /\ b[1] = u /\ b[2] = 46 /\ b[3] = 48 + g /\ b[4] = 90
  BY DEF Fractional
<1>2. a = b <=> s = u /\ f = g
  BY DEF Fractional
<1> HIDE DEF a, b
<1>3. ASSUME s < u PROVE Lexicographic(a, b)
  BY <1>1, <1>3 DEF Lexicographic
<1>4. ASSUME s = u, f < g PROVE Lexicographic(a, b)
  <2>1. /\ 3 \in 1 .. Len(b)
        /\ 3 <= Len(a) => a[3] < b[3]
        /\ \A k \in 1 .. 3 - 1 : k <= Len(a) /\ a[k] = b[k]
    BY <1>1, <1>4
  <2>2. QED
    BY <2>1 DEF Lexicographic
<1>5. ASSUME s = u, f = g PROVE Lexicographic(a, b)
  BY <1>2, <1>5 DEF Lexicographic
<1>6. ASSUME Lexicographic(a, b), a # b PROVE s < u \/ (s = u /\ f <= g)
  <2>1. PICK i \in 1 .. 4 : a[i] < b[i] /\ \A k \in 1 .. i - 1 : a[k] = b[k]
    BY <1>1, <1>6 DEF Lexicographic
  <2>2. i = 1 \/ (i = 3 /\ a[1] = b[1])
    BY <1>1, <2>1
  <2>3. QED
    BY <1>1, <2>1, <2>2
<1>7. QED
  BY <1>2, <1>3, <1>4, <1>5, <1>6 DEF a, b

\* The clock of the guard is an instant.
LEMMA ClockIsNat == GuardSpec => [](clock \in Nat)
<1>1. GuardInv => clock \in Nat
  BY DEF GuardInv, GuardTypeOK
<1>2. QED
  BY <1>1, GuardStarts, GuardStep, PTL DEF GuardSpec

\* The order in which SQLite puts two stored timestamps is the order of the
\* texts that formatTime writes, and it is less than one second off, with 1, 2, 5
\* or 10 ticks to the second (TicksAssumption) and for every pair of instants.
THEOREM TextOrderHolds == GuardSpec => []TextOrderWithinASecond
<1>1. ASSUME NEW t \in Nat, NEW c \in Nat
      PROVE  SqlLeq(t, c) <=> Lexicographic(formatTime(t), formatTime(c))
  <2>1. /\ SecondOf(t) \in Int /\ SecondOf(c) \in Int
        /\ DigitOf(t) \in 0 .. 9 /\ DigitOf(c) \in 0 .. 9
    BY FormatShape
  <2>2. CASE DigitOf(t) = 0 /\ DigitOf(c) = 0
    BY <2>1, <2>2, FormatShape, KeyOrder, WholeWhole
  <2>3. CASE DigitOf(t) = 0 /\ DigitOf(c) # 0
    BY <2>1, <2>3, FormatShape, KeyOrder, WholeFractional
  <2>4. CASE DigitOf(t) # 0 /\ DigitOf(c) = 0
    BY <2>1, <2>4, FormatShape, KeyOrder, FractionalWhole
  <2>5. CASE DigitOf(t) # 0 /\ DigitOf(c) # 0
    <3>1. /\ formatTime(t) = Fractional(SecondOf(t), DigitOf(t))
          /\ formatTime(c) = Fractional(SecondOf(c), DigitOf(c))
      BY <2>5, FormatShape
    <3>2. Lexicographic(formatTime(t), formatTime(c)) <=>
              \/ SecondOf(t) < SecondOf(c)
              \/ SecondOf(t) = SecondOf(c) /\ DigitOf(t) <= DigitOf(c)
      <4> DEFINE s == SecondOf(t)  u == SecondOf(c)  f == DigitOf(t)  g == DigitOf(c)
      <4>1. s \in Int /\ u \in Int /\ f \in Int /\ g \in Int
        BY <2>1
      <4> HIDE DEF s, u, f, g
      <4>2. Lexicographic(Fractional(s, f), Fractional(u, g)) <=> s < u \/ (s = u /\ f <= g)
        BY <4>1, FractionalFractional, Zenon
      <4>3. QED
        BY <3>1, <4>2 DEF s, u, f, g
    <3>3. QED
      BY <2>5, <3>2, KeyOrder
  <2>6. QED
    BY <2>2, <2>3, <2>4, <2>5
<1>2. clock \in Nat => TextOrderWithinASecond
  BY <1>1, KeyOrder, GuardAssumption DEF TextOrderWithinASecond, Instants
<1>3. QED
  BY <1>2, ClockIsNat, PTL

\* Division with remainder.
LEMMA Division ==
    ASSUME NEW x \in Nat, NEW e \in Nat \ {0}
    PROVE  /\ x \div e \in Nat
           /\ (x \div e) * e <= x /\ x < (x \div e) * e + e
OBVIOUS

\* Multiples leave no remainder.
LEMMA NoRemainder ==
    ASSUME NEW k \in Nat, NEW e \in Nat \ {0}
    PROVE  (k * e) % e = 0
OBVIOUS

\* The next slot of a recurring job is the first slot of its grid after now, for
\* every anchor, interval and time.
THEOREM NextSlotHolds == GuardSpec => []NextRecurringIsNextSlot
<1>1. ASSUME clock \in Nat, NEW anchor \in Nat, NEW every \in Nat \ {0}
      PROVE  LET next == NextRecurring(anchor, every, clock)
             IN  /\ next > clock
                 /\ (next - anchor) % every = 0
                 /\ anchor <= clock => next - every <= clock
                 /\ anchor > clock => next = anchor
  <2>1. CASE anchor > clock
    <3>1. NextRecurring(anchor, every, clock) = anchor
      BY <2>1 DEF NextRecurring
    <3>2. (anchor - anchor) % every = 0
      OBVIOUS
    <3>3. QED
      BY <1>1, <2>1, <3>1, <3>2
  <2>2. CASE anchor <= clock
    <3> DEFINE d == (clock - anchor) \div every
    <3>1. d \in Nat /\ d * every <= clock - anchor /\ clock - anchor < d * every + every
      BY <1>1, <2>2, Division
    <3>2. NextRecurring(anchor, every, clock) = anchor + (d + 1) * every
      BY <1>1, <2>2 DEF NextRecurring
    <3> HIDE DEF d
    <3>3. (d + 1) * every = d * every + every /\ d * every \in Nat
      BY <3>1
    <3>4. ((d + 1) * every) % every = 0
      BY <3>1, NoRemainder
    <3>5. (anchor + (d + 1) * every) - anchor = (d + 1) * every
      BY <3>1, <3>3
    <3>6. QED
      BY <1>1, <2>2, <3>1, <3>2, <3>3, <3>4, <3>5
  <2>3. QED
    BY <1>1, <2>1, <2>2
<1>2. clock \in Nat => NextRecurringIsNextSlot
  BY <1>1, GuardAssumption, IntervalsAssumption DEF NextRecurringIsNextSlot, Instants
<1>3. QED
  BY <1>2, ClockIsNat, PTL

\* What the cap makes of a delay.
Capped(d) == IF d > MaxBackoff THEN MaxBackoff ELSE d

\* boundedBackoff satisfies the recursive description of the schedule.
LEMMA BackoffDoubles ==
    ASSUME NEW base \in Nat \ {0}, NEW n \in Nat
    PROVE  boundedBackoff(base, n) = IF n <= 1 THEN Capped(base)
                                     ELSE IF n > 11 THEN boundedBackoff(base, 11)
                                     ELSE Capped(2 * boundedBackoff(base, n - 1))
<1>1. \A k \in Nat : boundedBackoff(base, k) = Capped(base * PowerOfTwo(BackoffShift(k)))
  BY DEF boundedBackoff, Capped
<1>2. CASE n <= 1
  <2>1. BackoffShift(n) = 0
    BY <1>2 DEF BackoffShift
  <2>2. PowerOfTwo(0) = 1
    BY DEF PowerOfTwo
  <2>3. QED
    BY <1>1, <1>2, <2>1, <2>2
<1>3. CASE n > 11
  <2>1. BackoffShift(n) = 10 /\ BackoffShift(11) = 10
    BY <1>3 DEF BackoffShift
  <2>2. QED
    BY <1>1, <1>3, <2>1
<1>4. CASE n \in 2 .. 11
  <2>1. BackoffShift(n) = n - 1 /\ BackoffShift(n - 1) = n - 2
    BY <1>4 DEF BackoffShift
  <2>2. PowerOfTwo(n - 2) \in Nat /\ PowerOfTwo(n - 1) = 2 * PowerOfTwo(n - 2)
    BY <1>4 DEF PowerOfTwo
  <2> DEFINE d == base * PowerOfTwo(n - 2)
  <2>3. d \in Nat /\ base * PowerOfTwo(n - 1) = 2 * d
    BY <2>2
  <2>4. boundedBackoff(base, n) = Capped(2 * d) /\ boundedBackoff(base, n - 1) = Capped(d)
    BY <1>1, <1>4, <2>1, <2>3
  <2> HIDE DEF d
  <2>5. Capped(2 * Capped(d)) = Capped(2 * d)
    BY <2>3, BackoffAssumption DEF Capped
  <2>6. QED
    BY <1>4, <2>4, <2>5
<1>5. QED
  BY <1>2, <1>3, <1>4

\* The schedule, as BackoffDoublesUpToCap describes it.
LEMMA BackoffSchedule ==
    ASSUME NEW base \in Nat \ {0}, NEW k \in Nat
    PROVE  LET capped(d)        == IF d > MaxBackoff THEN MaxBackoff ELSE d
               delay[n \in Nat] == IF n <= 1 THEN capped(base)
                                   ELSE IF n > 11 THEN delay[11]
                                   ELSE capped(2 * delay[n - 1])
           IN  boundedBackoff(base, k) = delay[k]
<1> DEFINE capped(d)        == IF d > MaxBackoff THEN MaxBackoff ELSE d
           step(f)          == [n \in Nat |-> IF n <= 1 THEN capped(base)
                                              ELSE IF n > 11 THEN f[11]
                                              ELSE capped(2 * f[n - 1])]
           delay[n \in Nat] == IF n <= 1 THEN capped(base)
                               ELSE IF n > 11 THEN delay[11]
                               ELSE capped(2 * delay[n - 1])
           known            == [n \in Nat |-> boundedBackoff(base, n)]
<1>1. known = step(known)
  <2>1. \A n \in Nat : step(known)[n] = boundedBackoff(base, n)
    BY BackoffDoubles DEF Capped
  <2>2. QED
    BY <2>1
<1>2. delay = CHOOSE f : f = step(f)
  OBVIOUS
<1> HIDE DEF delay, known, step
<1>3. delay = step(delay)
  BY <1>1, <1>2
<1>4. \A n \in Nat : /\ delay[n] = IF n <= 1 THEN Capped(base) ELSE IF n > 11 THEN delay[11]
                                   ELSE Capped(2 * delay[n - 1])
  BY <1>3 DEF step, Capped
<1>5. ASSUME NEW n \in 2 .. 11, delay[n - 1] = boundedBackoff(base, n - 1)
      PROVE  delay[n] = boundedBackoff(base, n)
  BY <1>4, <1>5, BackoffDoubles
<1>6. delay[1] = boundedBackoff(base, 1)
  BY <1>4, BackoffDoubles
<1>7. /\ delay[2] = boundedBackoff(base, 2) /\ delay[3] = boundedBackoff(base, 3)
      /\ delay[4] = boundedBackoff(base, 4) /\ delay[5] = boundedBackoff(base, 5)
      /\ delay[6] = boundedBackoff(base, 6) /\ delay[7] = boundedBackoff(base, 7)
      /\ delay[8] = boundedBackoff(base, 8) /\ delay[9] = boundedBackoff(base, 9)
      /\ delay[10] = boundedBackoff(base, 10) /\ delay[11] = boundedBackoff(base, 11)
  BY <1>5, <1>6
<1>8. delay[k] = boundedBackoff(base, k)
  <2>1. CASE k <= 1
    BY <1>4, <2>1, BackoffDoubles
  <2>2. CASE k \in 2 .. 11
    BY <1>7, <2>2
  <2>3. CASE k > 11
    BY <1>4, <1>7, <2>3, BackoffDoubles
  <2>4. QED
    BY <2>1, <2>2, <2>3
<1>9. QED
  BY <1>8 DEF delay

\* The delay before a retry doubles with every failed attempt, ten times at most
\* and never above the cap, for every base and every attempt number.
THEOREM BackoffHolds == GuardSpec => []BackoffDoublesUpToCap
<1>1. clock \in Nat => BackoffDoublesUpToCap
  BY BackoffSchedule, IntervalsAssumption DEF BackoffDoublesUpToCap
<1>2. QED
  BY <1>1, ClockIsNat, PTL
=============================================================================
