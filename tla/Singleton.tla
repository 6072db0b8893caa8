----------------------------- MODULE Singleton -----------------------------
(***************************************************************************)
(* The lock that keeps a second mosaid from starting on the same data      *)
(* directory: Acquire and Release of internal/security/singleton.go as     *)
(* main calls them.  The lock is the directory runtime.lock with the file  *)
(* pid in it; every system call is a step, and RemoveAll is taken for one. *)
(* A process that is started again may get its old pid.                    *)
(***************************************************************************)
EXTENDS Naturals

CONSTANTS Process,
          MaxStarts         \* bound: how often mosaid is started

VARIABLES dir,              \* runtime.lock: "none", "empty", or the pid in it
          pc,               \* where a process is
          seen,             \* the pid that it has read, or "none"
          starts

vars == <<dir, pc, seen, starts>>

Init ==
    /\ dir = "none" /\ starts = 0
    /\ pc = [p \in Process |-> "dead"] /\ seen = [p \in Process |-> "none"]

Alive(p) == pc[p] # "dead"

Goto(p, label) == pc' = [pc EXCEPT ![p] = label]

Start(p) ==
    /\ pc[p] = "dead" /\ starts < MaxStarts
    /\ starts' = starts + 1 /\ Goto(p, "mkdir")
    /\ UNCHANGED <<dir, seen>>

\* The first Mkdir decides whether the lock is there already.
Mkdir(p) ==
    /\ pc[p] = "mkdir"
    /\ \/ dir = "none" /\ dir' = "empty" /\ Goto(p, "write")
       \/ dir # "none" /\ UNCHANGED dir /\ Goto(p, "read")
    /\ UNCHANGED <<seen, starts>>

\* WriteFile fails if the directory is gone: after the first Mkdir Acquire then
\* removes the directory and fails; after the second the error is ignored.
WriteFile(p) ==
    /\ pc[p] \in {"write", "write again"}
    /\ \/ dir # "none" /\ dir' = p /\ Goto(p, "holding")
       \/ dir = "none" /\ UNCHANGED dir
          /\ Goto(p, IF pc[p] = "write" THEN "undo" ELSE "holding")
    /\ UNCHANGED <<seen, starts>>

ReadFile(p) ==
    /\ pc[p] = "read"
    /\ seen' = [seen EXCEPT ![p] = IF dir \in Process THEN dir ELSE "none"]
    /\ Goto(p, "kill")
    /\ UNCHANGED <<dir, starts>>

\* kill(pid, 0): a process that is alive holds the lock; main exits with 73.
Kill(p) ==
    /\ pc[p] = "kill"
    /\ Goto(p, IF seen[p] \in Process /\ Alive(seen[p]) THEN "dead" ELSE "remove")
    /\ UNCHANGED <<dir, seen, starts>>

RemoveAll(p) ==
    /\ pc[p] \in {"remove", "undo"} /\ dir' = "none"
    /\ Goto(p, IF pc[p] = "remove" THEN "mkdir again" ELSE "dead")
    /\ UNCHANGED <<seen, starts>>

MkdirAgain(p) ==
    /\ pc[p] = "mkdir again"
    /\ \/ dir = "none" /\ dir' = "empty" /\ Goto(p, "write again")
       \/ dir # "none" /\ UNCHANGED dir /\ Goto(p, "dead")
    /\ UNCHANGED <<seen, starts>>

\* main returns and releases the lock.
Release(p) ==
    /\ pc[p] = "holding" /\ dir' = "none" /\ Goto(p, "dead")
    /\ UNCHANGED <<seen, starts>>

\* The process is killed, or main leaves through os.Exit.
Die(p) == Alive(p) /\ Goto(p, "dead") /\ UNCHANGED <<dir, seen, starts>>

Next == \E p \in Process : \/ Start(p) \/ Mkdir(p) \/ WriteFile(p) \/ ReadFile(p) \/ Kill(p)
                           \/ RemoveAll(p) \/ MkdirAgain(p) \/ Release(p) \/ Die(p)

Spec == Init /\ [][Next]_vars

----------------------------------------------------------------------------
\* Two processes never hold the lock at once: a second Acquire fails while the
\* first one's process runs.
OneHolder == \A p, q \in Process : (pc[p] = "holding" /\ pc[q] = "holding") => p = q
=============================================================================
