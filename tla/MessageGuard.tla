---------------------------- MODULE MessageGuard ----------------------------
(***************************************************************************)
(* The flood guard in front of the inbox: MessageGuard.Allow for one user, *)
(* a token bucket over the wall clock.  Gateway.Run asks it about every    *)
(* message of the owner.                                                   *)
(*                                                                         *)
(* The code keeps the tokens as a float.  Here a message costs             *)
(* TicksPerMinute units, so that a tick refills PerMinute units exactly.   *)
(* Allow takes its time through UTC(), which drops Go's monotonic reading: *)
(* the clock may be set back.                                              *)
(***************************************************************************)
EXTENDS Integers

CONSTANTS TicksPerMinute,   \* resolution of the clock
          PerMinute,        \* MessageGuard.messagesPerMinute
          Burst,            \* MessageGuard.burst
          Horizon           \* bound: the clock stops here

\* NewMessageGuard refuses other limits.
ASSUME GuardAssumption == /\ TicksPerMinute \in Nat \ {0}
                          /\ PerMinute \in Nat \ {0}
                          /\ Burst \in 1 .. PerMinute
                          /\ Horizon \in Nat

VARIABLES clock,            \* the wall clock
          bucket,           \* users[userID]; created by the first message
          admitted,         \* messages let through so far
          forward,          \* ticks the clock has gone forward, in total
          waited            \* ticks since a message was let through, or since
                            \* a clock that was set back has caught up with it

guardVars == <<clock, bucket, admitted, forward, waited>>

Full == Burst * TicksPerMinute

\* The bucket at time now, the time since the last message refilled.
BadRefilledBackwards(now) ==
    LET elapsed == IF now < bucket.last THEN bucket.last - now ELSE now - bucket.last
        units   == bucket.units + elapsed * PerMinute
    IN  [units |-> IF units > Full THEN Full ELSE units, last |-> now]

Refilled(now) ==
    LET elapsed == IF now < bucket.last THEN 0 ELSE now - bucket.last
        units   == bucket.units + elapsed * PerMinute
    IN  [units |-> IF units > Full THEN Full ELSE units, last |-> now]

Allows(now) == Refilled(now).units >= TicksPerMinute

----------------------------------------------------------------------------
\* A bucket that does not exist yet behaves like a full one.
GuardInit ==
    /\ clock = 0
    /\ bucket = [units |-> Full, last |-> 0]
    /\ admitted = 0 /\ forward = 0 /\ waited = 0

\* Allow lets a message through.
Admit ==
    /\ Allows(clock)
    /\ bucket' = [Refilled(clock) EXCEPT !.units = @ - TicksPerMinute]
    /\ admitted' = admitted + 1
    /\ waited' = 0
    /\ UNCHANGED <<clock, forward>>

\* ErrRateLimited: what has been refilled is kept.
BadRefuse ==
    /\ ~Allows(clock)
    /\ bucket' = [bucket EXCEPT !.last = clock]
    /\ UNCHANGED <<clock, admitted, forward, waited>>

Refuse ==
    /\ ~Allows(clock)
    /\ bucket' = Refilled(clock)
    /\ UNCHANGED <<clock, admitted, forward, waited>>

Forward ==
    /\ clock < Horizon
    /\ clock' = clock + 1
    /\ forward' = forward + 1
    /\ waited' = IF clock < bucket.last THEN 0 ELSE waited + 1
    /\ UNCHANGED <<bucket, admitted>>

\* The wall clock is set back, by as much as the bound on forward allows.
SetBack ==
    /\ forward < Horizon
    /\ clock' \in 0 .. clock - 1
    /\ waited' = 0
    /\ UNCHANGED <<bucket, admitted, forward>>

GuardNext == Admit \/ Refuse \/ Forward \/ SetBack

GuardSpec == GuardInit /\ [][GuardNext]_guardVars

----------------------------------------------------------------------------
\* Allow never lets through more than the burst and what the rate grants for
\* the time that has gone by, also when the clock is set back in between.
RateBound == admitted * TicksPerMinute <= Full + forward * PerMinute

\* Somebody who keeps sending too early loses nothing: after one message's
\* worth of time since the last admitted one, Allow lets the next one through;
\* a clock that was set back delays that until the next message or until it
\* has caught up.
PatienceIsRewarded == waited * PerMinute >= TicksPerMinute => Allows(clock)
=============================================================================
