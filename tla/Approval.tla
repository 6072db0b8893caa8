------------------------------ MODULE Approval ------------------------------
(***************************************************************************)
(* The approval manager: the tables approval_requests and approval_uses    *)
(* behind Manager.Create, Resolve, ResolveToken and AuthorizeReceipt.      *)
(*                                                                         *)
(* Every operation is one transaction on the single connection of the      *)
(* database, hence one step; the audit row that Create and Resolve append  *)
(* afterwards is best effort, and may be missing because the Append failed *)
(* or the process died in between.  Token n is the n-th one drawn: tokens  *)
(* are random in the code, and nobody presents one that was not issued.    *)
(***************************************************************************)
EXTENDS Integers, Sequences, Audit

CONSTANTS MaxTime,          \* bound: the clock stops here
          MaxRequests       \* bound: approvals requested in one behaviour

VARIABLES now,              \* time.Now()
          requests,         \* approval_requests: token -> row; bind is [user, tool, args,
                            \* resource], args standing for the hash
          uses,             \* approval_uses: token -> used_at
          trail             \* audit_entries

approvals == <<requests, uses, trail>>

Token == DOMAIN requests
Null  == -1                 \* resolved_at of an open request

ApprovalInit == now = 0 /\ requests = <<>> /\ uses = <<>> /\ trail = <<>>

\* The audit row of an operation, unless its Append is lost.
Audited(entry, lost) == trail' = IF lost THEN trail ELSE Appended(trail, entry)

----------------------------------------------------------------------------
Create(bind, ttl, lost) ==
    /\ Len(requests) < MaxRequests
    /\ requests' = Append(requests, [bind |-> bind, state |-> "pending",
                                     expires |-> now + ttl, resolved |-> Null])
    /\ Audited(<<"approval_requested", Len(requests) + 1>>, lost)
    /\ UNCHANGED uses

\* ResolveToken and Resolve get as far as the request: the token exists, belongs
\* to the user, and is still open.
BadOpen(t, user) == t \in Token /\ requests[t].bind.user = user
Open(t, user) == t \in Token /\ requests[t].bind.user = user /\ requests[t].state = "pending"

Late(t) == now > requests[t].expires

\* A decision in time.
Decide(t, user, decision, lost) ==
    /\ Open(t, user) /\ ~Late(t)
    /\ requests' = [requests EXCEPT ![t].state = decision, ![t].resolved = now]
    /\ Audited(<<"approval_resolved", t, decision>>, lost)
    /\ UNCHANGED uses

\* A late one closes the request.
Expire(t, user) ==
    /\ Open(t, user) /\ Late(t)
    /\ requests' = [requests EXCEPT ![t].state = "expired"]
    /\ UNCHANGED <<uses, trail>>

\* Every other answer of ResolveToken is an error that changes nothing.
ResolveToken(t, user, decision, lost) ==
    \/ Decide(t, user, decision, lost)
    \/ Expire(t, user)
    \/ ~Open(t, user) /\ UNCHANGED approvals

\* The conditions of AuthorizeReceipt.  Unlike a decision, a use must come
\* before the instant of expiry.
BadUsable(t, bind)      == t \in Token /\ now < requests[t].expires
                           /\ requests[t].state = "approved" /\ requests[t].bind = bind
BadUsableLate(t, bind)  == /\ t \in Token /\ t \notin DOMAIN uses
                           /\ requests[t].state = "approved" /\ requests[t].bind = bind
BadUsableOther(t, bind) == /\ t \in Token /\ t \notin DOMAIN uses /\ now < requests[t].expires
                           /\ requests[t].state = "approved"
                           /\ requests[t].bind.tool = bind.tool
Usable(t, bind) ==
    /\ t \in Token
    /\ now < requests[t].expires
    /\ requests[t].state = "approved"
    /\ requests[t].bind = bind
    /\ t \notin DOMAIN uses

AuthorizeReceipt(t, bind) ==
    /\ Usable(t, bind)
    /\ uses' = [u \in DOMAIN uses \cup {t} |-> IF u = t THEN now ELSE uses[u]]
    /\ UNCHANGED <<requests, trail>>

Tick == now < MaxTime /\ now' = now + 1

----------------------------------------------------------------------------
\* Nothing is used that was not approved, and approval and use both happened in
\* time: the decision no later than the expiry, the use before it (Resolve,
\* AuthorizeReceipt).
UsedInTime ==
    \A t \in DOMAIN uses :
        /\ requests[t].state = "approved"
        /\ requests[t].resolved \in 0 .. uses[t]
        /\ uses[t] < requests[t].expires

\* Verify accepts the audit chain whichever appends were lost, and no longer does
\* when a row that has a successor is taken out or replaced, even by one with a
\* hash of its own.  (The last row may go unnoticed.)
AuditIsTamperEvident ==
    /\ Verifies(trail)
    /\ \A n \in 1 .. Len(trail) - 1 :
          /\ ~Verifies(WithoutRow(trail, n))
          /\ \A m \in DOMAIN trail : trail[m].entry # trail[n].entry =>
                ~Verifies(Edited(trail, n, trail[m].entry))

\* A request that is decided or expired stays so and keeps its binding, and a
\* use is never taken back: a replayed command or token finds what was decided.
DecisionIsFinal ==
    [][/\ \A t \in Token : /\ t \in DOMAIN requests'
                           /\ requests[t].state # "pending" => requests'[t] = requests[t]
                           /\ requests'[t].bind = requests[t].bind
       /\ \A t \in DOMAIN uses : t \in DOMAIN uses' /\ uses'[t] = uses[t]]_approvals
=============================================================================
