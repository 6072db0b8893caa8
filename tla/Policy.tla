------------------------------- MODULE Policy -------------------------------
(***************************************************************************)
(* The policy on tools: what a declaration must look like, and what it     *)
(* allows in which mode.  A declaration is [name, risk, modes, approval,   *)
(* valid].                                                                 *)
(***************************************************************************)
\* policy.Validate, its checks of name, version and limits taken together.
Validate(x) == x.valid /\ x.modes # {}

Evaluate(x, mode) ==
    IF mode \notin x.modes \/ ~x.valid THEN "denied"
    ELSE IF x.approval \/ x.risk \in {"high", "critical"} \/ mode = "publish" THEN "needsApproval"
    ELSE "allowed"
=============================================================================
