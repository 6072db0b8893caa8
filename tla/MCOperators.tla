---------------------------- MODULE MCOperators ----------------------------
(***************************************************************************)
(* MessageGuard for TLC, and next to it the operators of SqlTime, checked  *)
(* against reference definitions: the clock of the guard is the second     *)
(* instant or the attempt number, other inputs range over small sets.      *)
(***************************************************************************)
EXTENDS SqlTime, MessageGuard, Sequences

CONSTANT Intervals      \* values of Job.Every and of the backoff base

ASSUME IntervalsAssumption == Intervals \subseteq Nat \ {0}

Instants == 0 .. Horizon

(***************************************************************************)
(* formatTime below the minute, as the character codes that decide the     *)
(* comparison: the (fixed width) seconds, then either 'Z', or '.', the     *)
(* digit of the fraction and 'Z'.                                          *)
(***************************************************************************)
formatTime(t) ==
    LET second   == t \div TicksPerSecond
        fraction == ((t % TicksPerSecond) * 10) \div TicksPerSecond
    IN  <<second>> \o IF fraction = 0 THEN <<90>> ELSE <<46, 48 + fraction, 90>>

\* Comparison of two texts by their first difference (memcmp).
Lexicographic(s, t) ==
    \/ s = t
    \/ \E i \in 1 .. Len(t) :
          /\ i <= Len(s) => s[i] < t[i]
          /\ \A k \in 1 .. i - 1 : k <= Len(s) /\ s[k] = t[k]

\* The order SQLite puts two stored timestamps in (due jobs, expired locks,
\* available runs) is the order of their text.  It is less than one second off:
\* what SQL takes for past lies less than one second in the future, and what is
\* at least one second in the past is always taken for past, so that the margin
\* acquireLock adds to a job's timeout is exactly enough.
TextOrderWithinASecond ==
    \A t \in Instants :
        /\ SqlLeq(t, clock) <=> Lexicographic(formatTime(t), formatTime(clock))
        /\ SqlLeq(t, clock) => t < clock + TicksPerSecond
        /\ t + TicksPerSecond <= clock => SqlLess(t, clock)

\* NextRecurring returns the first slot of the job's grid after now: never a
\* slot already past, and never one that jumps over a future slot.
NextRecurringIsNextSlot ==
    \A anchor \in Instants, every \in Intervals :
        LET next == NextRecurring(anchor, every, clock)
        IN  /\ next > clock
            /\ (next - anchor) % every = 0
            /\ anchor <= clock => next - every <= clock
            /\ anchor > clock => next = anchor

\* boundedBackoff is the schedule "double after every failed attempt, ten
\* times at most, never above the cap", for any attempt number.
BackoffDoublesUpToCap ==
    \A base \in Intervals :
        LET capped(d)        == IF d > MaxBackoff THEN MaxBackoff ELSE d
            delay[n \in Nat] == IF n <= 1 THEN capped(base)
                                ELSE IF n > 11 THEN delay[11]
                                ELSE capped(2 * delay[n - 1])
        IN  boundedBackoff(base, clock) = delay[clock]
=============================================================================
