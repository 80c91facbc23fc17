----------------------- MODULE PaymentLifecycleProofs -----------------------
(***************************************************************************)
(* Without user cancels, PaymentOrders implements OrderLifecycle: each of  *)
(* its steps is a step of the lifecycle or leaves status and granted alone.*)
(* With them, each change of a status is a move of the lifecycle or the    *)
(* user's own, and a paid order is withdrawn only after its refund.        *)
(***************************************************************************)
EXTENDS PaymentOrdersProofs, FiniteSetTheorems, FunctionTheorems

statuses == [o \in Orders |-> order[o].status]

\* An order whose gold is being handed out, or has been.
Served(o) == order[o].status \in {"FULFILLING", "COMPLETED"}

\* A request that took an order up for fulfilment, or that the bot was asked for,
\* still finds the order being served.
ServedInv ==
  /\ \A o \in asked : Served(o)
  /\ \A p \in Requests :
       /\ req[p].pc \in {"grant", "awaiting", "complete"} => Served(req[p].order)
       /\ req[p].pc = "lookup" /\ req[p].seen = "FULFILLING" => Served(req[p].order)
       /\ req[p].pc = "withdraw" => req[p].seen \in {"PENDING", "PAID"}

\* A conditional update is one move of its order, or matches no row.
LEMMA UpdateIsMove ==
  ASSUME TypeInv, NEW o \in Orders, NEW from, NEW changed,
         UpdateWhere(o, from, changed), UNCHANGED granted
  PROVE  \/ /\ Lifecycle!Move(o, from, changed.status)
            /\ \A other \in Orders \ {o} : order'[other] = order[other]
            /\ order'[o] = changed /\ order[o].status \in from
         \/ UNCHANGED order
<1>1. CASE order[o].status \in from
  <2>1. order' = [order EXCEPT ![o] = changed]
    BY <1>1 DEF UpdateWhere, TypeInv, TypeOK
  <2>2. statuses' = [statuses EXCEPT ![o] = changed.status]
    BY <2>1 DEF statuses, TypeInv, TypeOK
  <2>3. statuses[o] \in from
    BY <1>1 DEF statuses
  <2>4. /\ \A other \in Orders \ {o} : order'[other] = order[other]
        /\ order'[o] = changed
    BY <2>1 DEF TypeInv, TypeOK
  <2>5. QED
    BY <1>1, <2>2, <2>3, <2>4 DEF Lifecycle!Move, statuses
<1>2. CASE order[o].status \notin from
  <2>1. order' = order
    BY <1>2 DEF UpdateWhere, TypeInv, TypeOK
  <2>2. QED
    BY <2>1
<1>3. QED
  BY <1>1, <1>2

ServedKept == \A o \in Orders : Served(o) => Served(o)'

\* What every step of the detailed specification is seen as.
Allowed == [Lifecycle!Next]_(Lifecycle!vars) /\ ServedKept

LEMMA QuietStep ==
  ASSUME UNCHANGED <<order, granted>>
  PROVE  Allowed
BY DEF Allowed, ServedKept, Served, Lifecycle!vars

LEMMA FulfilmentAllowed ==
  ASSUME TypeInv, RepliesAreGrants, NEW p \in Requests, Fulfilment(p)
  PROVE  Allowed
<1>1. req[p].pc # "idle" => req[p].order \in Orders /\ order[req[p].order] \in Row
  BY DEF TypeInv, TypeOK, RequestsWellFormed
<1>2. CASE StartFulfilment(p)
  <2>1. PICK o \in Orders : o = req[p].order /\ order[o] \in Row
    BY <1>1, <1>2 DEF StartFulfilment, At
  <2>2. \/ Lifecycle!BeginFulfilment(o) /\ ServedKept
        \/ UNCHANGED order
    BY <1>2, <2>1, UpdateIsMove
       DEF StartFulfilment, bot, Lifecycle!BeginFulfilment, ServedKept, Served, Row
  <2>3. QED
    BY <1>2, <2>1, <2>2, QuietStep DEF StartFulfilment, bot, Allowed, Lifecycle!Next
<1>3. CASE Complete(p)
  <2>1. PICK o \in Orders : o = req[p].order /\ order[o] \in Row /\ o \in granted
    BY <1>1, <1>3 DEF Complete, At, RepliesAreGrants
  <2>2. PICK done : done = [order[o] EXCEPT !.status = "COMPLETED", !.failure = None,
                                            !.gold = req[p].gold]
    OBVIOUS
  <2>3. done.status = "COMPLETED"
    BY <2>1, <2>2 DEF Row
  <2>4. \/ /\ Lifecycle!Move(o, {"FULFILLING"}, "COMPLETED")
           /\ \A other \in Orders \ {o} : order'[other] = order[other]
           /\ order'[o] = done
        \/ UNCHANGED order
    BY <1>3, <2>1, <2>2, <2>3, UpdateIsMove DEF Complete, bot
  <2>5. \/ Lifecycle!Complete(o) /\ ServedKept
        \/ UNCHANGED order
    BY <2>1, <2>3, <2>4 DEF Lifecycle!Complete, ServedKept, Served
  <2>6. QED
    BY <1>3, <2>1, <2>5, QuietStep DEF Complete, bot, Allowed, Lifecycle!Next
<1>4. CASE FulfilmentFailed(p)
  <2>1. PICK o \in Orders : o = req[p].order /\ order[o] \in Row
    BY <1>1, <1>4 DEF FulfilmentFailed, At
  <2>2. \A other \in Orders : order'[other].status = order[other].status
    BY <1>4, <2>1 DEF FulfilmentFailed, UpdateWhere, TypeInv, TypeOK, Row
  <2>3. UNCHANGED Lifecycle!vars
    BY <1>4, <2>2 DEF FulfilmentFailed, bot, Lifecycle!vars
  <2>4. QED
    BY <2>2, <2>3 DEF Allowed, ServedKept, Served
<1>5. QED
  BY <1>2, <1>3, <1>4, QuietStep
     DEF Fulfilment, RereadStarted, AskGrant, GrantReply, GrantError, bot

LEMMA ApprovalAllowed ==
  ASSUME TypeInv, NEW p \in Requests, Approval(p)
  PROVE  Allowed
<1>1. req[p].pc # "idle" => req[p].order \in Orders /\ order[req[p].order] \in Row
  BY DEF TypeInv, TypeOK, RequestsWellFormed
<1>2. CASE Record(p)
  <2>1. PICK o \in Orders : o = req[p].order /\ order[o] \in Row
    BY <1>1, <1>2 DEF Record, At
  <2>2. \/ Lifecycle!Approve(o) /\ ServedKept
        \/ UNCHANGED order
    BY <1>2, <2>1, UpdateIsMove
       DEF Record, bot, Lifecycle!Approve, ServedKept, Served, Row
  <2>3. QED
    BY <1>2, <2>1, <2>2, QuietStep DEF Record, bot, Allowed, Lifecycle!Next
<1>3. CASE FailOrder(p)
  <2>1. PICK o \in Orders : o = req[p].order /\ order[o] \in Row
    BY <1>1, <1>3 DEF FailOrder, At
  <2>2. \/ Lifecycle!Fail(o) /\ ServedKept
        \/ UNCHANGED order
    BY <1>3, <2>1, UpdateIsMove
       DEF FailOrder, bot, Lifecycle!Fail, ServedKept, Served, Row
  <2>3. QED
    BY <1>3, <2>1, <2>2, QuietStep DEF FailOrder, bot, Allowed, Lifecycle!Next
<1>4. QED
  BY <1>2, <1>3, QuietStep DEF Approval, Reread, bot

LEMMA WithdrawAllowed ==
  ASSUME TypeInv, ServedInv, NEW w \in Requests, Withdraw(w)
  PROVE  Allowed
<1>1. PICK o \in Orders : o = req[w].order /\ order[o] \in Row
  BY DEF Withdraw, At, TypeInv, TypeOK, RequestsWellFormed
<1>2. req[w].seen \in {"PENDING", "PAID"}
  BY DEF Withdraw, At, ServedInv
<1>3. \/ Lifecycle!Move(o, {req[w].seen}, "CANCELLED") /\ ServedKept
      \/ UNCHANGED order
  BY <1>1, <1>2, UpdateIsMove DEF Withdraw, bot, ServedKept, Served, Row
<1>4. Lifecycle!Move(o, {req[w].seen}, "CANCELLED") => Lifecycle!Cancel(o)
  BY <1>2 DEF Lifecycle!Move, Lifecycle!Cancel
<1>5. QED
  BY <1>1, <1>3, <1>4, QuietStep DEF Withdraw, bot, Allowed, Lifecycle!Next

LEMMA GrantAllowed ==
  ASSUME TypeInv, RowsTruthful, ServedInv, NEW o \in Orders, BotGrant(o)
  PROVE  Allowed
<1>1. order[o].status = "FULFILLING"
  BY DEF BotGrant, ServedInv, Served, RowsTruthful, Truthful
<1>2. Lifecycle!GrantGold(o)
  BY <1>1 DEF BotGrant, Lifecycle!GrantGold
<1>3. QED
  BY <1>2 DEF BotGrant, Allowed, Lifecycle!Next, ServedKept, Served

\* Without user cancels, every step is a move of the lifecycle or a stutter.
LEMMA StepAllowed ==
  ASSUME Cancellers = {}, TypeInv, RowsTruthful, RepliesAreGrants, ServedInv, [Next]_vars
  PROVE  Allowed
<1>1. ASSUME NEW c \in Confirmers, Confirm(c)
      PROVE  Allowed
  BY <1>1, FulfilmentAllowed, ApprovalAllowed, QuietStep
     DEF Confirm, ConfirmRead, ConfirmDuplicate, TossConfirm, TossDecline, Requests, bot
<1>2. ASSUME NEW w \in Webhooks, Webhook(w)
      PROVE  Allowed
  BY <1>2, FulfilmentAllowed, ApprovalAllowed, WithdrawAllowed, QuietStep
     DEF Webhook, WebhookRead, TossLookup, Requests, bot
<1>3. ASSUME NEW p \in Requests, Throw(p)
      PROVE  Allowed
  BY <1>3, QuietStep DEF Throw, bot
<1>4. CASE Deploy
  BY <1>4, QuietStep DEF Deploy, bot
<1>5. CASE External
  BY <1>5, GrantAllowed, QuietStep DEF External, Authenticate, Abort, Refund, bot
<1>6. CASE UNCHANGED vars
  BY <1>6, QuietStep DEF vars
<1>7. QED
  BY <1>1, <1>2, <1>3, <1>4, <1>5, <1>6 DEF Next

\* The part of ServedInv about one request.
Serves(p) ==
  /\ req[p].pc \in {"grant", "awaiting", "complete"} => Served(req[p].order)
  /\ req[p].pc = "lookup" /\ req[p].seen = "FULFILLING" => Served(req[p].order)
  /\ req[p].pc = "withdraw" => req[p].seen \in {"PENDING", "PAID"}

LEMMA OneRequestServes ==
  ASSUME TypeInv, ServedInv, ServedKept, NEW p \in Requests,
         \A q \in Requests \ {p} : req'[q] = req[q],
         Serves(p)', \A o \in asked' \ asked : Served(o)'
  PROVE  ServedInv'
<1>1. \A q \in Requests : Serves(q)'
  <2>1. \A q \in Requests : req[q].pc # "idle" => req[q].order \in Orders
    BY DEF TypeInv, RequestsWellFormed
  <2>2. QED
    BY <2>1 DEF ServedInv, Serves, ServedKept, Served
<1>2. \A o \in asked' : Served(o)'
  BY DEF ServedInv, ServedKept, TypeInv, TypeOK
<1>3. QED
  BY <1>1, <1>2 DEF ServedInv, Serves

LEMMA ServedFulfilment ==
  ASSUME TypeInv, ServedInv, ServedKept, NEW p \in Requests, Fulfilment(p)
  PROVE  ServedInv'
<1>1. PICK o \in Orders : o = req[p].order
  BY DEF Fulfilment, StartFulfilment, RereadStarted, AskGrant, GrantReply, GrantError,
         Complete, FulfilmentFailed, At, TypeInv, RequestsWellFormed
<1>2. CASE StartFulfilment(p)
  BY <1>2, OthersResume, OneRequestServes DEF StartFulfilment, Serves, bot
<1>3. CASE RereadStarted(p)
  <2>1. PICK step \in {"grant", "idle"} :
          /\ Resume(p, step)
          /\ step = "grant" => Served(o)
    BY <1>1, <1>3 DEF RereadStarted, Served
  <2>2. Serves(p)'
    BY <1>1, <1>3, <2>1, OthersResume DEF RereadStarted, Serves, Served
  <2>3. QED
    BY <1>3, <2>1, <2>2, OthersResume, OneRequestServes DEF RereadStarted, bot
<1>4. CASE AskGrant(p)
  <2>1. Served(o)'
    BY <1>1, <1>4 DEF AskGrant, At, ServedInv, ServedKept
  <2>2. Serves(p)'
    BY <1>1, <1>4, <2>1, OthersResume DEF AskGrant, Serves
  <2>3. QED
    BY <1>1, <1>4, <2>1, <2>2, OthersResume, OneRequestServes DEF AskGrant
<1>5. CASE GrantReply(p)
  <2>1. Served(o)'
    BY <1>1, <1>5 DEF GrantReply, At, ServedInv, ServedKept
  <2>2. PICK b \in Balances :
          req' = [req EXCEPT ![p].pc = "complete", ![p].gold = b]
    BY <1>5 DEF GrantReply
  <2>3. /\ \A q \in Requests \ {p} : req'[q] = req[q]
        /\ req'[p].pc = "complete" /\ req'[p].order = o
    BY <1>1, <2>2 DEF TypeInv, TypeOK, Request
  <2>4. Serves(p)'
    BY <2>1, <2>3 DEF Serves
  <2>5. QED
    BY <1>5, <2>3, <2>4, OneRequestServes DEF GrantReply, bot
<1>6. CASE GrantError(p)
  BY <1>6, OthersResume, OneRequestServes DEF GrantError, Serves, bot
<1>7. CASE Complete(p)
  <2>1. PICK step \in {"idle", "grantFailed"} : Resume(p, step)
    BY <1>7 DEF Complete
  <2>2. QED
    BY <1>7, <2>1, OthersResume, OneRequestServes DEF Complete, Serves, bot
<1>8. CASE FulfilmentFailed(p)
  BY <1>8, OthersResume, OneRequestServes DEF FulfilmentFailed, Serves, bot
<1>9. QED
  BY <1>2, <1>3, <1>4, <1>5, <1>6, <1>7, <1>8 DEF Fulfilment

LEMMA FulfilStepServes ==
  ASSUME NEW status
  PROVE  /\ FulfilStep(status) \in {"start", "grant", "idle"}
         /\ FulfilStep(status) = "grant" => status = "FULFILLING"
BY DEF FulfilStep

LEMMA ServedApproval ==
  ASSUME TypeInv, ServedInv, ServedKept, NEW p \in Requests, Approval(p)
  PROVE  ServedInv'
<1>1. CASE Record(p)
  <2>1. PICK step \in {"idle", "reread"} : Resume(p, step)
    BY <1>1 DEF Record
  <2>2. QED
    BY <1>1, <2>1, OthersResume, OneRequestServes DEF Record, Serves, bot
<1>2. CASE Reread(p)
  <2>1. PICK o \in Orders : o = req[p].order
    BY <1>2 DEF Reread, At, TypeInv, RequestsWellFormed
  <2>2. PICK step \in {"idle", "start", "grant"} :
          Resume(p, step) /\ (step = "grant" => order[o].status = "FULFILLING")
    BY <1>2, <2>1, FulfilStepServes DEF Reread
  <2>3. Serves(p)'
    BY <1>2, <2>1, <2>2, OthersResume DEF Reread, Serves, Served
  <2>4. QED
    BY <1>2, <2>2, <2>3, OthersResume, OneRequestServes DEF Reread, bot
<1>3. CASE FailOrder(p)
  BY <1>3, OthersResume, OneRequestServes DEF FailOrder, Serves, bot
<1>4. QED
  BY <1>1, <1>2, <1>3 DEF Approval

LEMMA ServedConfirm ==
  ASSUME TypeInv, ServedInv, ServedKept, NEW c \in Confirmers, Confirm(c)
  PROVE  ServedInv'
<1>0. c \in Requests
  BY DEF Requests
<1>1. ASSUME NEW o \in Orders, NEW k \in Keys, ConfirmRead(c, o, k)
      PROVE  ServedInv'
  <2>1. PICK step : step = FirstConfirmStep(o, k) /\ Begin(c, o, k, step, None)
    BY <1>1 DEF ConfirmRead
  <2>2. step \in {"fail", "duplicate", "start", "grant", "idle"}
    BY <2>1, FirstConfirmStepType
  <2>3. step = "grant" => order[o].status = "FULFILLING"
    BY <2>1, FulfilStepServes DEF FirstConfirmStep
  <2>4. Serves(c)'
    BY <1>0, <1>1, <2>1, <2>2, <2>3, OthersBegin DEF ConfirmRead, Serves, Served
  <2>5. QED
    BY <1>0, <1>1, <2>1, <2>4, OthersBegin, OneRequestServes DEF ConfirmRead, bot
<1>2. ASSUME ConfirmDuplicate(c) \/ TossConfirm(c) \/ TossDecline(c)
      PROVE  ServedInv'
  <2>1. PICK step \in {"idle", "verify", "record", "fail"} : Resume(c, step)
    BY <1>2 DEF ConfirmDuplicate, TossConfirm, TossDecline
  <2>2. asked' = asked
    BY <1>2 DEF ConfirmDuplicate, TossConfirm, TossDecline, bot
  <2>3. QED
    BY <1>0, <2>1, <2>2, OthersResume, OneRequestServes DEF Serves
<1>3. QED
  BY <1>0, <1>1, <1>2, ServedFulfilment, ServedApproval DEF Confirm

LEMMA ServedWebhook ==
  ASSUME TypeInv, ServedInv, ServedKept, NEW w \in Webhooks, Webhook(w)
  PROVE  ServedInv'
<1>0. w \in Requests
  BY DEF Requests
<1>1. ASSUME NEW o \in Orders, NEW k \in Keys, WebhookRead(w, o, k)
      PROVE  ServedInv'
  <2>1. PICK seen : seen = order[o].status /\ Begin(w, o, k, "lookup", seen)
    BY <1>1 DEF WebhookRead
  <2>2. Serves(w)'
    BY <1>0, <1>1, <2>1, OthersBegin DEF WebhookRead, Serves, Served
  <2>3. QED
    BY <1>0, <1>1, <2>1, <2>2, OthersBegin, OneRequestServes DEF WebhookRead, bot
<1>2. CASE TossLookup(w)
  <2>1. PICK o, k, seen :
          o \in Orders /\ o = req[w].order /\ k = req[w].key /\ seen = req[w].seen
    BY <1>0, <1>2 DEF TossLookup, At, TypeInv, RequestsWellFormed
  <2>2. PICK step : step = ReconcileStep(Verdict(payment[k].status), seen) /\ Resume(w, step)
    BY <1>2, <2>1 DEF TossLookup
  <2>3. /\ step \in {"record", "start", "grant", "withdraw", "fail", "idle"}
        /\ step = "grant" => seen = "FULFILLING"
        /\ step = "withdraw" => seen \in {"PENDING", "PAID"}
    BY <2>2, FulfilStepServes DEF ReconcileStep
  <2>4. step = "grant" => Served(o)'
    BY <1>0, <1>2, <2>1, <2>3 DEF TossLookup, At, ServedInv, ServedKept
  <2>5. Serves(w)'
    BY <1>0, <2>1, <2>2, <2>3, <2>4, OthersResume DEF Serves
  <2>6. QED
    BY <1>0, <1>2, <2>2, <2>5, OthersResume, OneRequestServes DEF TossLookup, bot
<1>3. CASE Withdraw(w)
  BY <1>0, <1>3, OthersResume, OneRequestServes DEF Withdraw, Serves, bot
<1>4. QED
  BY <1>0, <1>1, <1>2, <1>3, ServedFulfilment, ServedApproval DEF Webhook

LEMMA ServedStep ==
  ASSUME Cancellers = {}, TypeInv, ServedInv, ServedKept, [Next]_vars
  PROVE  ServedInv'
<1>1. ASSUME NEW p \in Requests, Throw(p)
      PROVE  ServedInv'
  BY <1>1, OthersResume, OneRequestServes DEF Throw, Serves, bot
<1>2. CASE Deploy
  BY <1>2 DEF Deploy, Idle, ServedInv, Served, bot
<1>3. CASE External \/ UNCHANGED vars
  BY <1>3 DEF External, Authenticate, Abort, Refund, BotGrant, vars, bot, ServedInv, Served
<1>4. QED
  BY <1>1, <1>2, <1>3, ServedConfirm, ServedWebhook DEF Next

\* Where no user cancels an order, its row and the bot's ledger follow the
\* lifecycle of README.md:264 for every number of orders, keys, confirms and
\* notifications: no status is skipped or taken back, gold leaves the bot only
\* while the order is FULFILLING, and a FAILED or CANCELLED order gets none.
THEOREM OrdersFollowLifecycle ==
  ASSUME Cancellers = {}
  PROVE  Spec => FollowsLifecycle
<1> DEFINE Inv == TypeInv /\ RowsTruthful /\ RepliesAreGrants /\ ServedInv
<1>1. Init => Lifecycle!Init /\ ServedInv
  BY DEF Init, Lifecycle!Init, ServedInv, Idle
<1>2. Inv /\ [Next]_vars => [Lifecycle!Next]_(Lifecycle!vars) /\ ServedInv'
  BY StepAllowed, ServedStep DEF Allowed
<1>3. Spec => [](TypeInv /\ RowsTruthful /\ RepliesAreGrants)
  BY Safety, Truth, PTL
<1>4. QED
  BY <1>1, <1>2, <1>3, PTL DEF Spec, FollowsLifecycle, Lifecycle!Spec
-----------------------------------------------------------------------------
(* The moves, user cancels included.  What a webhook saw of a payment      *)
(* before it withdraws an order is still true when it does: a refund is    *)
(* final, and no order has two captured payments.                          *)

OneCapture ==
  \A j, k \in Keys :
    Captured(j) /\ Captured(k) /\ payment[j].order = payment[k].order => j = k

Refunded(o) == \E k \in Keys : payment[k].order = o /\ payment[k].status = "CANCELED"

SawRefund(p) ==
  req[p].pc = "withdraw" =>
    req[p].seen \in {"PENDING", "PAID"} /\ Refunded(req[p].order)

RefundInv == OneCapture /\ \A p \in Requests : SawRefund(p)

RefundsKept == \A o \in Orders : Refunded(o) => Refunded(o)'

LEMMA RefundStays ==
  ASSUME TypeInv, OneCapture, [Next]_vars
  PROVE  OneCapture' /\ RefundsKept
<1>1. CASE UNCHANGED payment
  BY <1>1 DEF OneCapture, Captured, RefundsKept, Refunded
<1>2. payment \in [Keys -> Payment]
  BY DEF TypeInv, TypeOK
<1>3. ASSUME NEW c \in Confirmers, TossConfirm(c)
      PROVE  OneCapture' /\ RefundsKept
  <2>1. CASE UNCHANGED payment
    BY <1>1, <2>1
  <2>2. CASE ~UNCHANGED payment
    <3>1. PICK k \in Keys, o \in Orders :
            /\ payment[k].order = o /\ payment[k].status = "IN_PROGRESS"
            /\ \A other \in PaymentsOf(o) : ~Captured(other)
            /\ payment' = [payment EXCEPT ![k].status = "DONE"]
      BY <1>3, <2>2 DEF TossConfirm, At, TypeInv, RequestsWellFormed, Requests
    <3>2. /\ \A j \in Keys : payment'[j].order = payment[j].order
          /\ \A j \in Keys \ {k} : payment'[j] = payment[j]
      BY <1>2, <3>1 DEF Payment
    <3>3. OneCapture'
      BY <3>1, <3>2 DEF OneCapture, Captured, PaymentsOf
    <3>4. RefundsKept
      BY <3>1, <3>2 DEF RefundsKept, Refunded
    <3>5. QED
      BY <3>3, <3>4
  <2>3. QED
    BY <2>1, <2>2
<1>4. ASSUME NEW o \in Orders, NEW k \in Keys, Authenticate(o, k)
      PROVE  OneCapture' /\ RefundsKept
  <2>1. /\ payment[k].status = "NONE"
        /\ payment'[k] = [order |-> o, status |-> "IN_PROGRESS"]
        /\ \A j \in Keys \ {k} : payment'[j] = payment[j]
    BY <1>2, <1>4 DEF Authenticate
  <2>2. QED
    BY <2>1 DEF OneCapture, Captured, RefundsKept, Refunded
<1>5. ASSUME NEW k \in Keys, Abort(k) \/ Refund(k)
      PROVE  OneCapture' /\ RefundsKept
  <2>1. /\ \A j \in Keys : payment'[j].order = payment[j].order
        /\ \A j \in Keys \ {k} : payment'[j] = payment[j]
        /\ \/ payment'[k].status = "ABORTED" /\ payment[k].status = "IN_PROGRESS"
           \/ payment'[k].status = "CANCELED" /\ payment[k].status = "DONE"
    BY <1>2, <1>5 DEF Abort, Refund, Payment
  <2>2. QED
    BY <2>1 DEF OneCapture, Captured, RefundsKept, Refunded
<1>6. ASSUME NEW p \in Requests, Fulfilment(p) \/ Approval(p)
      PROVE  UNCHANGED payment
  BY <1>6 DEF Fulfilment, StartFulfilment, RereadStarted, AskGrant, GrantReply,
       GrantError, Complete, FulfilmentFailed, Approval, Record, Reread, FailOrder
<1>7. ASSUME NEW c \in Confirmers, Confirm(c)
      PROVE  OneCapture' /\ RefundsKept
  BY <1>1, <1>3, <1>6, <1>7
     DEF Confirm, ConfirmRead, ConfirmDuplicate, TossDecline, Requests
<1>8. ASSUME NEW w \in Webhooks, Webhook(w)
      PROVE  UNCHANGED payment
  BY <1>6, <1>8 DEF Webhook, WebhookRead, TossLookup, Withdraw, Requests
<1>9. ASSUME NEW x \in Cancellers, Cancel(x)
      PROVE  UNCHANGED payment
  BY <1>9 DEF Cancel, CancelRead, CancelWrite
<1>10. QED
  BY <1>1, <1>4, <1>5, <1>7, <1>8, <1>9
     DEF Next, External, BotGrant, Throw, Deploy, vars

\* Only a look-up that has seen a refund sends a request to withdraw its order.
LEMMA RefundInvStep == TypeInv /\ RefundInv /\ [Next]_vars => RefundInv'
<1> SUFFICES ASSUME TypeInv, RefundInv, [Next]_vars
             PROVE  RefundInv'
  OBVIOUS
<1>0. OneCapture' /\ RefundsKept
  BY RefundStays DEF RefundInv
<1> SUFFICES ASSUME NEW q \in Requests
             PROVE  SawRefund(q)'
  BY <1>0 DEF RefundInv
<1>1. ASSUME req'[q] = req[q]
      PROVE  SawRefund(q)'
  BY <1>0, <1>1
     DEF RefundInv, SawRefund, RefundsKept, Refunded, TypeInv, RequestsWellFormed
<1>2. ASSUME NEW p \in Requests, NEW step, step # "withdraw", Resume(p, step)
      PROVE  SawRefund(q)'
  BY <1>1, <1>2, OthersResume DEF SawRefund
<1>3. ASSUME NEW p \in Requests, NEW o, NEW k, NEW step, NEW seen, step # "withdraw",
             Begin(p, o, k, step, seen)
      PROVE  SawRefund(q)'
  BY <1>1, <1>3, OthersBegin DEF SawRefund
<1>4. ASSUME NEW p \in Requests, Fulfilment(p) \/ Approval(p)
      PROVE  SawRefund(q)'
  <2>1. CASE GrantReply(p)
    <3>1. PICK b : req' = [req EXCEPT ![p].pc = "complete", ![p].gold = b]
      BY <2>1 DEF GrantReply
    <3>2. q # p => req'[q] = req[q]
      BY <3>1 DEF TypeInv, TypeOK
    <3>3. q = p => req'[q].pc = "complete"
      BY <3>1 DEF TypeInv, TypeOK, Request
    <3>4. QED
      BY <1>1, <3>2, <3>3 DEF SawRefund
  <2>2. CASE ~GrantReply(p)
    <3>1. PICK step : step # "withdraw" /\ Resume(p, step)
      BY <1>4, <2>2, FulfilStepServes
         DEF Fulfilment, StartFulfilment, RereadStarted, AskGrant, GrantError, Complete,
             FulfilmentFailed, Approval, Record, Reread, FailOrder
    <3>2. QED
      BY <1>2, <3>1
  <2>3. QED
    BY <2>1, <2>2
<1>5. ASSUME NEW c \in Confirmers, Confirm(c)
      PROVE  SawRefund(q)'
  <2>0. c \in Requests
    BY DEF Requests
  <2>1. ASSUME NEW o \in Orders, NEW k \in Keys, ConfirmRead(c, o, k)
        PROVE  SawRefund(q)'
    BY <1>3, <2>0, <2>1, FirstConfirmStepType DEF ConfirmRead
  <2>2. ASSUME ConfirmDuplicate(c) \/ TossConfirm(c) \/ TossDecline(c)
        PROVE  SawRefund(q)'
    <3>1. PICK step : step # "withdraw" /\ Resume(c, step)
      BY <2>2 DEF ConfirmDuplicate, TossConfirm, TossDecline
    <3>2. QED
      BY <1>2, <2>0, <3>1
  <2>3. QED
    BY <1>4, <1>5, <2>0, <2>1, <2>2 DEF Confirm
<1>6. ASSUME NEW w \in Webhooks, Webhook(w)
      PROVE  SawRefund(q)'
  <2>0. w \in Requests
    BY DEF Requests
  <2>1. ASSUME NEW o \in Orders, NEW k \in Keys, WebhookRead(w, o, k)
        PROVE  SawRefund(q)'
    BY <1>3, <2>0, <2>1 DEF WebhookRead
  <2>2. CASE TossLookup(w)
    <3>1. PICK o, k, seen : /\ o \in Orders /\ k \in Keys
                            /\ o = req[w].order /\ k = req[w].key /\ seen = req[w].seen
      BY <2>0, <2>2 DEF TossLookup, At, TypeInv, RequestsWellFormed
    <3>2. PICK step : step = ReconcileStep(Verdict(payment[k].status), seen)
                      /\ Resume(w, step)
      BY <2>2, <3>1 DEF TossLookup
    <3>3. step = "withdraw" => /\ seen \in {"PENDING", "PAID"}
                               /\ Verdict(payment[k].status) = "cancelled"
      BY <3>2, FulfilStepServes DEF ReconcileStep
    <3>4. step = "withdraw" => payment[k].status = "CANCELED"
      BY <3>3 DEF Verdict
    <3>5. payment[k].order = o
      BY <2>2, <3>1 DEF TossLookup, LookupResults, PaymentsOf
    <3>6. step = "withdraw" => Refunded(o)'
      BY <1>0, <3>1, <3>4, <3>5 DEF RefundsKept, Refunded
    <3>7. q = w => SawRefund(q)'
      BY <2>0, <3>1, <3>2, <3>3, <3>6, OthersResume DEF SawRefund, Refunded
    <3>8. QED
      BY <1>1, <2>0, <3>2, <3>7, OthersResume
  <2>3. CASE Withdraw(w)
    BY <1>2, <2>0, <2>3 DEF Withdraw
  <2>4. QED
    BY <1>4, <1>6, <2>0, <2>1, <2>2, <2>3 DEF Webhook
<1>7. ASSUME NEW x \in Cancellers, Cancel(x)
      PROVE  SawRefund(q)'
  BY <1>2, <1>3, <1>7 DEF Cancel, CancelRead, CancelWrite, Requests
<1>8. ASSUME NEW p \in Requests, Throw(p)
      PROVE  SawRefund(q)'
  BY <1>2, <1>8 DEF Throw
<1>9. CASE Deploy
  BY <1>9 DEF Deploy, Idle, SawRefund
<1>10. CASE External \/ UNCHANGED vars
  BY <1>1, <1>10 DEF External, Authenticate, Abort, Refund, BotGrant, vars
<1>11. QED
  BY <1>0, <1>5, <1>6, <1>7, <1>8, <1>9, <1>10 DEF Next

\* What one step may do to one row.
RowMoves(o) ==
  \/ order'[o] = order[o]
  \/ order[o].status = "FULFILLING" /\ order'[o].status = "FULFILLING"
  \/ /\ <<order[o].status, order'[o].status>> \in Moves
     /\ order[o].status = "PAID" /\ order'[o].status = "CANCELLED"
          => payment[order[o].key].status = "CANCELED"
  \/ UserCancels(o)

LEMMA UpdateMoves ==
  ASSUME TypeInv, NEW o \in Orders, NEW from, NEW changed, UpdateWhere(o, from, changed),
         order[o].status \in from =>
           \/ order[o].status = "FULFILLING" /\ changed.status = "FULFILLING"
           \/ /\ <<order[o].status, changed.status>> \in Moves
              /\ order[o].status = "PAID" /\ changed.status = "CANCELLED"
                   => payment[order[o].key].status = "CANCELED"
  PROVE  \A q \in Orders : RowMoves(q)
BY DEF UpdateWhere, RowMoves, TypeInv, TypeOK

LEMMA RowStep ==
  ASSUME TypeInv, PaidInv, RefundInv, [Next]_vars
  PROVE  \A o \in Orders : RowMoves(o)
<1>1. ASSUME UNCHANGED order
      PROVE  \A o \in Orders : RowMoves(o)
  BY <1>1 DEF RowMoves
<1>2. \A p \in Requests : req[p].pc # "idle" =>
        req[p].order \in Orders /\ order[req[p].order] \in Row
  BY DEF TypeInv, TypeOK, RequestsWellFormed
<1>3. ASSUME NEW p \in Requests, Fulfilment(p) \/ Approval(p)
      PROVE  \A o \in Orders : RowMoves(o)
  <2> DEFINE o == req[p].order
  <2>1. CASE StartFulfilment(p)
    BY <1>2, <2>1, UpdateMoves DEF StartFulfilment, At, Moves, Row
  <2>2. CASE Complete(p)
    BY <1>2, <2>2, UpdateMoves DEF Complete, At, Moves, Row
  <2>3. CASE FulfilmentFailed(p)
    BY <1>2, <2>3, UpdateMoves DEF FulfilmentFailed, At, Moves, Row
  <2>4. CASE Record(p)
    BY <1>1, <1>2, <2>4, UpdateMoves DEF Record, At, Moves, Row
  <2>5. CASE FailOrder(p)
    BY <1>2, <2>5, UpdateMoves DEF FailOrder, At, Moves, Row
  <2>6. QED
    BY <1>1, <1>3, <2>1, <2>2, <2>3, <2>4, <2>5
       DEF Fulfilment, RereadStarted, AskGrant, GrantReply, GrantError, Approval, Reread
<1>4. ASSUME NEW w \in Requests, Withdraw(w)
      PROVE  \A o \in Orders : RowMoves(o)
  <2>1. PICK o \in Orders : o = req[w].order /\ order[o] \in Row
    BY <1>2, <1>4 DEF Withdraw, At
  <2>2. req[w].seen \in {"PENDING", "PAID"} /\ Refunded(o)
    BY <1>4, <2>1 DEF Withdraw, At, RefundInv, SawRefund
  <2>3. order[o].status = "PAID" => payment[order[o].key].status = "CANCELED"
    <3>1. PICK k \in Keys : payment[k].order = o /\ payment[k].status = "CANCELED"
      BY <2>2 DEF Refunded
    <3>2. order[o].status = "PAID" => PaidBy(o, order[o].key)
      BY DEF PaidInv, KeysArePaid, StatusNeedsKey
    <3>3. QED
      BY <3>1, <3>2 DEF PaidBy, Captured, RefundInv, OneCapture
  <2>4. QED
    BY <1>4, <2>1, <2>2, <2>3, UpdateMoves DEF Withdraw, Moves, Row
<1>5. ASSUME NEW x \in Cancellers, CancelWrite(x)
      PROVE  \A o \in Orders : RowMoves(o)
  BY <1>5 DEF CancelWrite, RowMoves, UserCancels, TypeInv, TypeOK
<1>6. ASSUME NEW c \in Confirmers, Confirm(c)
      PROVE  \A o \in Orders : RowMoves(o)
  BY <1>1, <1>3, <1>6
     DEF Confirm, ConfirmRead, ConfirmDuplicate, TossConfirm, TossDecline, Requests
<1>7. ASSUME NEW w \in Webhooks, Webhook(w)
      PROVE  \A o \in Orders : RowMoves(o)
  BY <1>1, <1>3, <1>4, <1>7 DEF Webhook, WebhookRead, TossLookup, Requests
<1>8. ASSUME NEW x \in Cancellers, Cancel(x)
      PROVE  \A o \in Orders : RowMoves(o)
  BY <1>1, <1>5, <1>8 DEF Cancel, CancelRead
<1>9. QED
  BY <1>1, <1>6, <1>7, <1>8
     DEF Next, Throw, Deploy, External, Authenticate, Abort, Refund, BotGrant, vars

LEMMA Refunds == Spec => [](TypeInv /\ PaidInv /\ RefundInv)
<1>1. Init => RefundInv
  BY DEF Init, RefundInv, OneCapture, Captured, SawRefund, Idle
<1>2. QED
  BY <1>1, Safety, RefundInvStep, PTL DEF Spec

\* README.md:264: no request writes a status that does not follow the one it finds,
\* whatever it had read; the exception is the plain update of a user's cancel, for
\* any number of orders, confirms, webhooks and cancels.
THEOREM StatusesAlwaysMoveForward == Spec => StatusesMoveForward
<1>1. TypeInv /\ PaidInv /\ RefundInv /\ [Next]_vars =>
        \A o \in Orders :
          order'[o].status # order[o].status =>
            \/ <<order[o].status, order'[o].status>> \in Moves
            \/ UserCancels(o)
  BY RowStep DEF RowMoves
<1>2. QED
  BY <1>1, Refunds, PTL DEF Spec, StatusesMoveForward

\* payments.service.ts:249-256: a webhook that withdraws a paid order acts on the
\* refund of the payment that paid it, however stale its look-up is.
THEOREM OnlyRefundsWithdraw == Spec => OnlyRefundsAreWithdrawn
<1>1. TypeInv /\ PaidInv /\ RefundInv /\ [Next]_vars =>
        \A o \in Orders :
          order[o].status = "PAID" /\ order'[o].status = "CANCELLED" =>
            \/ payment[order[o].key].status = "CANCELED"
            \/ UserCancels(o)
  BY RowStep DEF RowMoves
<1>2. QED
  BY <1>1, Refunds, PTL DEF Spec, OnlyRefundsAreWithdrawn

\* payments.service.ts:276-277: but for the user's cancel, a completed order stays as
\* it is; the run that refutes CompletedIsFinal needs that cancel.
THEOREM CompletedStaysWithoutCancels ==
  ASSUME Cancellers = {}
  PROVE  Spec => CompletedIsFinal
<1>1. TypeInv /\ PaidInv /\ RefundInv /\ [Next]_vars =>
        \A o \in Orders : order[o].status = "COMPLETED" => order'[o] = order[o]
  BY RowStep DEF RowMoves, Moves, UserCancels
<1>2. TypeInv /\ PaidInv /\ RefundInv /\ [Next]_vars =>
        [\A o \in Orders : order[o].status = "COMPLETED" => order'[o] = order[o]]_order
  BY <1>1
<1>3. QED
  BY <1>2, Refunds, PTL DEF Spec, CompletedIsFinal
-----------------------------------------------------------------------------
(* Gold and money, counted.                                                *)

CapturedKeys == {k \in Keys : Captured(k)}

LEMMA KeysTellOrdersApart ==
  ASSUME TypeInv, PaidInv
  PROVE  [o \in asked |-> order[o].key] \in Injection(asked, CapturedKeys)
<1> DEFINE f == [o \in asked |-> order[o].key]
<1>1. \A o \in asked : PaidBy(o, order[o].key)
  BY DEF TypeInv, TypeOK, PaidInv, AskedArePaid, KeysArePaid
<1>2. f \in [asked -> CapturedKeys]
  BY <1>1 DEF PaidBy, CapturedKeys
<1>3. ASSUME NEW o \in asked, NEW q \in asked, f[o] = f[q]
      PROVE  o = q
  BY <1>1, <1>3 DEF PaidBy
<1>4. QED
  BY <1>2, <1>3, Fun_IsInj

\* payments.service.ts:361-411: the bot is never asked for the gold of more orders
\* than Toss has captured payments, however often an order is retried or notified
\* and whatever is refunded afterwards.
THEOREM GoldNeedsAPaymentEach ==
  ASSUME IsFiniteSet(Keys)
  PROVE  Spec => [](Cardinality(asked) <= Cardinality(CapturedKeys))
<1>1. TypeInv /\ PaidInv => Cardinality(asked) <= Cardinality(CapturedKeys)
  <2> SUFFICES ASSUME TypeInv, PaidInv
               PROVE  Cardinality(asked) <= Cardinality(CapturedKeys)
    OBVIOUS
  <2>1. IsFiniteSet(CapturedKeys)
    BY FS_Subset DEF CapturedKeys
  <2>2. PICK f : f \in Injection(asked, CapturedKeys)
    BY KeysTellOrdersApart
  <2>3. QED
    BY <2>1, <2>2, FS_Injection
<1>2. QED
  BY <1>1, Safety, PTL
=============================================================================
