------------------------------ MODULE SqlTime ------------------------------
(***************************************************************************)
(* Timestamps as the stores keep them.                                     *)
(*                                                                         *)
(* Every store writes a time with formatTime, that is RFC 3339 with        *)
(* nanoseconds, and lets SQLite compare the TEXT columns.  The layout      *)
(* drops the trailing zeros of the fraction, so a whole second is written  *)
(* "...:00Z" and half a second later "...:00.5Z"; since '.' sorts before   *)
(* 'Z', the whole second sorts AFTER every later fraction of that same     *)
(* second.  Comparisons made in Go (After, Before, Add, Sub) use the       *)
(* instants themselves: parseTime undoes formatTime exactly.               *)
(*                                                                         *)
(* An instant is a number of ticks.  With 1, 2, 5 or 10 ticks to the       *)
(* second every fraction has at most one digit, and the text order is the  *)
(* order of TextKey.                                                       *)
(***************************************************************************)
EXTENDS Integers

CONSTANTS TicksPerSecond,   \* resolution of the model clock
          MaxBackoff        \* cap of boundedBackoff in ticks (24 hours in the code)

ASSUME TicksAssumption   == TicksPerSecond \in {1, 2, 5, 10}
ASSUME BackoffAssumption == MaxBackoff \in Nat \ {0}

(***************************************************************************)
(* Names that start with Bad are plausible mistakes in the definition that *)
(* follows them.  No specification uses them; substituted for it they show *)
(* that the properties can fail.                                           *)
(***************************************************************************)
BadTextKeyOverlap(t) == IF t % TicksPerSecond = 0 THEN t + TicksPerSecond ELSE t - 1

\* Position of an instant in the text order.
TextKey(t) == (t \div TicksPerSecond) * TicksPerSecond
              + IF t % TicksPerSecond = 0
                THEN TicksPerSecond - 1
                ELSE (t % TicksPerSecond) - 1

\* The SQL conditions "a <= b" and "a < b" on two timestamp columns.
SqlLeq(a, b)  == TextKey(a) <= TextKey(b)
SqlLess(a, b) == TextKey(a) < TextKey(b)

(***************************************************************************)
(* NextRecurring: the anchor itself when it lies after now, otherwise the  *)
(* first slot of the grid anchor + k * every after now.  Go's integer      *)
(* division and \div agree here, now - anchor being non-negative.          *)
(***************************************************************************)
BadNextRecurring(anchor, every, now) ==
    IF every <= 0 \/ anchor > now
    THEN anchor
    ELSE anchor + ((now - anchor) \div every) * every

NextRecurring(anchor, every, now) ==
    IF every <= 0 \/ anchor > now
    THEN anchor
    ELSE anchor + (((now - anchor) \div every) + 1) * every

(***************************************************************************)
(* boundedBackoff: doubles with every attempt, at most ten times, capped.  *)
(* base is at most 24 hours, so the product stays below 2^63 nanoseconds   *)
(* and the code's test for a negative product never fires.                 *)
(***************************************************************************)
BadBackoffShift(attempts) == IF attempts > 10 THEN 10 ELSE attempts

BackoffShift(attempts) ==
    CASE attempts - 1 < 0  -> 0
      [] attempts - 1 > 10 -> 10
      [] OTHER             -> attempts - 1

\* 1 << shift, for the shifts that BackoffShift returns.
PowerOfTwo(shift) == <<1, 2, 4, 8, 16, 32, 64, 128, 256, 512, 1024>>[shift + 1]

boundedBackoff(base, attempts) ==
    IF base <= 0
    THEN 0
    ELSE LET delay == base * PowerOfTwo(BackoffShift(attempts))
         IN  IF delay > MaxBackoff THEN MaxBackoff ELSE delay
=============================================================================
