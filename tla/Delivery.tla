------------------------------ MODULE Delivery ------------------------------
(***************************************************************************)
(* What the Telegram gateway promises about one conversation: a message is *)
(* accepted at most once, an accepted message gets at most one answer, and *)
(* an answer counts as sent only after the chat has seen it.  The chat may *)
(* see an answer more than once (at-least-once delivery), and either side  *)
(* may be given up.                                                        *)
(***************************************************************************)
CONSTANTS Update,       \* the messages
          Eligible      \* those the gateway may act on

VARIABLES status,       \* how far each message has come
          seen          \* messages whose answer has reached the chat

deliveryVars == <<status, seen>>

Init == status = [u \in Update |-> "new"] /\ seen = {}

Move(u, from, to) ==
    /\ status[u] = from
    /\ status' = [status EXCEPT ![u] = to]
    /\ UNCHANGED seen

Accept(u)  == u \in Eligible /\ Move(u, "new", "accepted")
GiveUp(u)  == Move(u, "accepted", "given up")
Answer(u)  == Move(u, "accepted", "answered")
Abandon(u) == Move(u, "answered", "abandoned")
Confirm(u) == u \in seen /\ Move(u, "answered", "sent")

Reach(u) == /\ status[u] = "answered"
            /\ seen' = seen \cup {u}
            /\ UNCHANGED status

Next == \E u \in Update : \/ Accept(u) \/ GiveUp(u) \/ Answer(u)
                          \/ Abandon(u) \/ Confirm(u) \/ Reach(u)

Spec == Init /\ [][Next]_deliveryVars
=============================================================================
