--------------------------- MODULE OrderLifecycle ---------------------------
(***************************************************************************)
(* What README.md:264 promises of a payment order: it moves pending, paid, *)
(* fulfilling, completed in that order, gold is handed out only while the  *)
(* order is fulfilling, and an order that failed or was cancelled stays    *)
(* so.  Each transition is one conditional UPDATE of the order's row.      *)
(***************************************************************************)
CONSTANT Orders

VARIABLES status,   \* status[o]: the PaymentOrderStatus of order o
          granted   \* the orders whose gold the game bot has handed out

vars == <<status, granted>>

Init == /\ status = [o \in Orders |-> "PENDING"]
        /\ granted = {}

Move(o, from, to) ==
  /\ status[o] \in from
  /\ status' = [status EXCEPT ![o] = to]
  /\ UNCHANGED granted

Approve(o)          == Move(o, {"PENDING"}, "PAID")
Fail(o)             == Move(o, {"PENDING"}, "FAILED")
Cancel(o)           == Move(o, {"PENDING", "PAID"}, "CANCELLED")
BeginFulfilment(o)  == Move(o, {"PAID"}, "FULFILLING")
Complete(o)         == o \in granted /\ Move(o, {"FULFILLING"}, "COMPLETED")

GrantGold(o) ==
  /\ status[o] = "FULFILLING"
  /\ granted' = granted \union {o}
  /\ UNCHANGED status

Next == \E o \in Orders :
          \/ Approve(o) \/ Fail(o) \/ Cancel(o)
          \/ BeginFulfilment(o) \/ GrantGold(o) \/ Complete(o)

Spec == Init /\ [][Next]_vars
=============================================================================
