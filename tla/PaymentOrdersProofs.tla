------------------------- MODULE PaymentOrdersProofs -------------------------
(***************************************************************************)
(* What PaymentOrders keeps for every number of orders, keys and requests. *)
(***************************************************************************)
EXTENDS PaymentOrders, TLAPS

-----------------------------------------------------------------------------
(* Types.                                                                  *)

\* A request in progress works on an order, and holds the key and the balance
\* that its next call needs.
RequestsWellFormed ==
  \A p \in Requests :
    /\ req[p].pc # "idle" => req[p].order \in Orders
    /\ req[p].pc \in {"duplicate", "verify", "lookup", "record", "reread"}
         => req[p].key \in Keys
    /\ req[p].pc = "complete" => req[p].gold \in Balances

TypeInv == TypeOK /\ RequestsWellFormed

LEMMA ResumeType ==
  ASSUME TypeInv, NEW p \in Requests, req[p].pc # "idle",
         NEW step \in Steps \ {"complete"},
         step \in {"duplicate", "verify", "lookup", "record", "reread"}
           => req[p].key \in Keys,
         Resume(p, step)
  PROVE  req' \in [Requests -> Request] /\ RequestsWellFormed'
<1>1. Idle \in Request
  BY DEF Idle, Request, Steps
<1>2. [req[p] EXCEPT !.pc = step] \in Request
  BY DEF TypeInv, TypeOK, Request
<1>3. req' \in [Requests -> Request]
  BY <1>1, <1>2 DEF TypeInv, TypeOK, Resume
<1>4. \A q \in Requests : q # p => req'[q] = req[q]
  BY DEF TypeInv, TypeOK, Resume
<1>5. req'[p] = IF step = "idle" THEN Idle ELSE [req[p] EXCEPT !.pc = step]
  BY DEF TypeInv, TypeOK, Resume
<1>6. QED
  BY <1>3, <1>4, <1>5 DEF TypeInv, TypeOK, RequestsWellFormed, Request, Idle

LEMMA BeginType ==
  ASSUME TypeInv, NEW p \in Requests, NEW o \in Orders, NEW k \in Keys \union {None},
         NEW step \in Steps \ {"complete"}, NEW seen \in Statuses \union {None},
         step \in {"duplicate", "verify", "lookup", "record", "reread"} => k \in Keys,
         Begin(p, o, k, step, seen)
  PROVE  req' \in [Requests -> Request] /\ RequestsWellFormed'
<1>1. [pc |-> step, order |-> o, key |-> k, seen |-> seen, gold |-> None] \in Request
  BY DEF Request
<1>2. req' \in [Requests -> Request]
  BY <1>1 DEF TypeInv, TypeOK, Begin
<1>3. QED
  BY <1>2 DEF TypeInv, TypeOK, RequestsWellFormed, Begin

LEMMA UpdateType ==
  ASSUME order \in [Orders -> Row], NEW o \in Orders, NEW from, NEW changed \in Row,
         UpdateWhere(o, from, changed)
  PROVE  order' \in [Orders -> Row]
BY DEF UpdateWhere

LEMMA FulfilStepType ==
  ASSUME NEW status
  PROVE  FulfilStep(status) \in {"start", "grant", "idle"}
BY DEF FulfilStep

LEMMA ReconcileStepType ==
  ASSUME NEW verdict, NEW seen
  PROVE  ReconcileStep(verdict, seen)
           \in {"record", "start", "grant", "withdraw", "fail", "idle"}
BY FulfilStepType DEF ReconcileStep

LEMMA FirstConfirmStepType ==
  ASSUME NEW o, NEW k
  PROVE  FirstConfirmStep(o, k) \in {"fail", "duplicate", "start", "grant", "idle"}
BY FulfilStepType DEF FirstConfirmStep

LEMMA TypeInit == Init => TypeInv
BY DEF Init, TypeInv, TypeOK, RequestsWellFormed, Row, Request, Payment, Idle,
       Statuses, Steps, PaymentStatuses

LEMMA TypeStep == TypeInv /\ [Next]_vars => TypeInv'
<1> SUFFICES ASSUME TypeInv, [Next]_vars
             PROVE  TypeInv'
  OBVIOUS
<1> USE DEF TypeInv
<1>1. ASSUME NEW p \in Requests, Fulfilment(p)
      PROVE  TypeInv'
  <2> DEFINE o == req[p].order
  <2>0. req[p].pc # "idle" => o \in Orders
    BY DEF RequestsWellFormed
  <2>1. CASE StartFulfilment(p)
    <3>1. o \in Orders
      BY <2>1, <2>0 DEF StartFulfilment, At
    <3>2. [order[o] EXCEPT !.status = "FULFILLING", !.failure = None] \in Row
      BY <3>1 DEF TypeOK, Row, Statuses
    <3>3. order' \in [Orders -> Row]
      BY <2>1, <3>1, <3>2, UpdateType DEF StartFulfilment, TypeOK
    <3>4. req' \in [Requests -> Request] /\ RequestsWellFormed'
      BY <2>1, ResumeType DEF StartFulfilment, At, Steps
    <3>5. QED
      BY <2>1, <3>3, <3>4 DEF StartFulfilment, TypeOK, bot
  <2>2. CASE RereadStarted(p)
    <3>1. req' \in [Requests -> Request] /\ RequestsWellFormed'
      BY <2>2, ResumeType DEF RereadStarted, At, Steps
    <3>2. QED
      BY <2>2, <3>1 DEF RereadStarted, TypeOK, bot
  <2>3. CASE AskGrant(p)
    <3>1. req' \in [Requests -> Request] /\ RequestsWellFormed'
      BY <2>3, ResumeType DEF AskGrant, At, Steps
    <3>2. QED
      BY <2>3, <3>1, <2>0 DEF AskGrant, At, TypeOK
  <2>4. CASE GrantReply(p)
    <3>1. PICK b \in Balances :
            req' = [req EXCEPT ![p].pc = "complete", ![p].gold = b]
      BY <2>4 DEF GrantReply
    <3>2. req'[p] = [req[p] EXCEPT !.pc = "complete", !.gold = b]
      BY <3>1 DEF TypeOK
    <3>3. req' \in [Requests -> Request]
      BY <3>1 DEF TypeOK, Request, Steps
    <3>4. RequestsWellFormed'
      BY <2>4, <2>0, <3>1, <3>2 DEF GrantReply, At, TypeOK, RequestsWellFormed, Request
    <3>5. QED
      BY <2>4, <3>3, <3>4 DEF GrantReply, TypeOK, bot
  <2>5. CASE GrantError(p)
    <3>1. req' \in [Requests -> Request] /\ RequestsWellFormed'
      BY <2>5, ResumeType DEF GrantError, At, Steps
    <3>2. QED
      BY <2>5, <3>1 DEF GrantError, TypeOK, bot
  <2>6. CASE Complete(p)
    <3>1. o \in Orders /\ req[p].gold \in Balances
      BY <2>6, <2>0 DEF Complete, At, RequestsWellFormed
    <3>2. [order[o] EXCEPT !.status = "COMPLETED", !.failure = None,
                           !.gold = req[p].gold] \in Row
      BY <3>1 DEF TypeOK, Row, Statuses
    <3>3. order' \in [Orders -> Row]
      BY <2>6, <3>1, <3>2, UpdateType DEF Complete, TypeOK
    <3>4. req' \in [Requests -> Request] /\ RequestsWellFormed'
      BY <2>6, ResumeType DEF Complete, At, Steps
    <3>5. QED
      BY <2>6, <3>3, <3>4 DEF Complete, TypeOK, bot
  <2>7. CASE FulfilmentFailed(p)
    <3>1. o \in Orders
      BY <2>7, <2>0 DEF FulfilmentFailed, At
    <3>2. [order[o] EXCEPT !.failure = "gold_fulfillment_failed"] \in Row
      BY <3>1 DEF TypeOK, Row, Failures
    <3>3. order' \in [Orders -> Row]
      BY <2>7, <3>1, <3>2, UpdateType DEF FulfilmentFailed, TypeOK
    <3>4. req' \in [Requests -> Request] /\ RequestsWellFormed'
      BY <2>7, ResumeType DEF FulfilmentFailed, At, Steps
    <3>5. QED
      BY <2>7, <3>3, <3>4 DEF FulfilmentFailed, TypeOK, bot
  <2>8. QED
    BY <1>1, <2>1, <2>2, <2>3, <2>4, <2>5, <2>6, <2>7 DEF Fulfilment
<1>2. ASSUME NEW p \in Requests, Approval(p)
      PROVE  TypeInv'
  <2> DEFINE o == req[p].order
             k == req[p].key
  <2>0. /\ req[p].pc # "idle" => o \in Orders
        /\ req[p].pc \in {"record", "reread"} => k \in Keys
    BY DEF RequestsWellFormed
  <2>1. CASE Record(p)
    <3>1. o \in Orders /\ k \in Keys
      BY <2>1, <2>0 DEF Record, At
    <3>2. [order[o] EXCEPT !.status = "PAID", !.key = k, !.failure = None] \in Row
      BY <3>1 DEF TypeOK, Row, Statuses
    <3>3. order' \in [Orders -> Row]
      BY <2>1, <3>1, <3>2, UpdateType DEF Record, TypeOK
    <3>4. req' \in [Requests -> Request] /\ RequestsWellFormed'
      <4>1. CASE Resume(p, "idle")
        BY <2>1, <4>1, ResumeType DEF Record, At, Steps
      <4>2. CASE Resume(p, "reread")
        BY <2>1, <4>2, <3>1, ResumeType DEF Record, At, Steps
      <4>3. QED
        BY <2>1, <4>1, <4>2 DEF Record
    <3>5. QED
      BY <2>1, <3>3, <3>4 DEF Record, TypeOK, bot
  <2>2. CASE Reread(p)
    <3>1. req' \in [Requests -> Request] /\ RequestsWellFormed'
      <4>1. PICK step \in {"idle", "start", "grant"} : Resume(p, step)
        BY <2>2, FulfilStepType DEF Reread
      <4>2. QED
        BY <2>2, <4>1, ResumeType DEF Reread, At, Steps
    <3>2. QED
      BY <2>2, <3>1 DEF Reread, TypeOK, bot
  <2>3. CASE FailOrder(p)
    <3>1. o \in Orders
      BY <2>3, <2>0 DEF FailOrder, At
    <3>2. [order[o] EXCEPT !.status = "FAILED", !.failure = "verification"] \in Row
      BY <3>1 DEF TypeOK, Row, Statuses, Failures
    <3>3. order' \in [Orders -> Row]
      BY <2>3, <3>1, <3>2, UpdateType DEF FailOrder, TypeOK
    <3>4. req' \in [Requests -> Request] /\ RequestsWellFormed'
      BY <2>3, ResumeType DEF FailOrder, At, Steps
    <3>5. QED
      BY <2>3, <3>3, <3>4 DEF FailOrder, TypeOK, bot
  <2>4. QED
    BY <1>2, <2>1, <2>2, <2>3 DEF Approval
<1>3. ASSUME NEW c \in Confirmers, Confirm(c)
      PROVE  TypeInv'
  <2>0. c \in Requests
    BY DEF Requests
  <2>1. ASSUME NEW o \in Orders, NEW k \in Keys, ConfirmRead(c, o, k)
        PROVE  TypeInv'
    <3>1. req' \in [Requests -> Request] /\ RequestsWellFormed'
      <4>1. PICK step \in {"fail", "duplicate", "start", "grant", "idle"} :
              Begin(c, o, k, step, None)
        BY <2>1, FirstConfirmStepType DEF ConfirmRead
      <4>2. QED
        BY <2>0, <4>1, BeginType DEF Steps
    <3>2. QED
      BY <2>1, <3>1 DEF ConfirmRead, TypeOK, bot
  <2>2. CASE ConfirmDuplicate(c)
    <3>1. req[c].key \in Keys
      BY <2>0, <2>2 DEF ConfirmDuplicate, At, RequestsWellFormed
    <3>2. req' \in [Requests -> Request] /\ RequestsWellFormed'
      BY <2>0, <2>2, <3>1, ResumeType DEF ConfirmDuplicate, At, Steps
    <3>3. QED
      BY <2>2, <3>2 DEF ConfirmDuplicate, TypeOK, bot
  <2>3. CASE TossConfirm(c)
    <3>1. req[c].key \in Keys
      BY <2>0, <2>3 DEF TossConfirm, At, RequestsWellFormed
    <3>2. req' \in [Requests -> Request] /\ RequestsWellFormed'
      BY <2>0, <2>3, <3>1, ResumeType DEF TossConfirm, At, Steps
    <3>3. payment' \in [Keys -> Payment]
      BY <2>3, <3>1 DEF TossConfirm, TypeOK, Payment, PaymentStatuses
    <3>4. QED
      BY <2>3, <3>2, <3>3 DEF TossConfirm, TypeOK, bot
  <2>4. CASE TossDecline(c)
    <3>1. req' \in [Requests -> Request] /\ RequestsWellFormed'
      BY <2>0, <2>4, ResumeType DEF TossDecline, At, Steps
    <3>2. QED
      BY <2>4, <3>1 DEF TossDecline, TypeOK, bot
  <2>5. QED
    BY <1>1, <1>2, <1>3, <2>0, <2>1, <2>2, <2>3, <2>4 DEF Confirm
<1>4. ASSUME NEW w \in Webhooks, Webhook(w)
      PROVE  TypeInv'
  <2>0. w \in Requests
    BY DEF Requests
  <2>1. ASSUME NEW o \in Orders, NEW k \in Keys, WebhookRead(w, o, k)
        PROVE  TypeInv'
    <3>1. order[o].status \in Statuses
      BY DEF TypeOK, Row
    <3>2. req' \in [Requests -> Request] /\ RequestsWellFormed'
      BY <2>0, <2>1, <3>1, BeginType DEF WebhookRead, Steps
    <3>3. QED
      BY <2>1, <3>2 DEF WebhookRead, TypeOK, bot
  <2>2. CASE TossLookup(w)
    <3>1. req[w].key \in Keys
      BY <2>0, <2>2 DEF TossLookup, At, RequestsWellFormed
    <3>2. req' \in [Requests -> Request] /\ RequestsWellFormed'
      <4>1. PICK step \in {"record", "start", "grant", "withdraw", "fail", "idle"} :
              Resume(w, step)
        BY <2>2, ReconcileStepType DEF TossLookup
      <4>2. QED
        BY <2>0, <2>2, <3>1, <4>1, ResumeType DEF TossLookup, At, Steps
    <3>3. QED
      BY <2>2, <3>2 DEF TossLookup, TypeOK, bot
  <2>3. CASE Withdraw(w)
    <3> DEFINE o == req[w].order
    <3>1. o \in Orders
      BY <2>0, <2>3 DEF Withdraw, At, RequestsWellFormed
    <3>2. [order[o] EXCEPT !.status = "CANCELLED", !.failure = None] \in Row
      BY <3>1 DEF TypeOK, Row, Statuses
    <3>3. order' \in [Orders -> Row]
      BY <2>3, <3>1, <3>2, UpdateType DEF Withdraw, TypeOK
    <3>4. req' \in [Requests -> Request] /\ RequestsWellFormed'
      BY <2>0, <2>3, ResumeType DEF Withdraw, At, Steps
    <3>5. QED
      BY <2>3, <3>3, <3>4 DEF Withdraw, TypeOK, bot
  <2>4. QED
    BY <1>1, <1>2, <1>4, <2>0, <2>1, <2>2, <2>3 DEF Webhook
<1>5. ASSUME NEW x \in Cancellers, Cancel(x)
      PROVE  TypeInv'
  <2>0. x \in Requests
    BY DEF Requests
  <2>1. ASSUME NEW o \in Orders, CancelRead(x, o)
        PROVE  TypeInv'
    <3>1. req' \in [Requests -> Request] /\ RequestsWellFormed'
      BY <2>0, <2>1, BeginType DEF CancelRead, Steps
    <3>2. QED
      BY <2>1, <3>1 DEF CancelRead, TypeOK, bot
  <2>2. CASE CancelWrite(x)
    <3>1. order' \in [Orders -> Row]
      BY <2>2 DEF CancelWrite, TypeOK, Row, Statuses
    <3>2. req' \in [Requests -> Request] /\ RequestsWellFormed'
      BY <2>0, <2>2, ResumeType DEF CancelWrite, At, Steps
    <3>3. QED
      BY <2>2, <3>1, <3>2 DEF CancelWrite, TypeOK, bot
  <2>3. QED
    BY <1>5, <2>1, <2>2 DEF Cancel
<1>6. ASSUME NEW p \in Requests, Throw(p)
      PROVE  TypeInv'
  <2>1. req' \in [Requests -> Request] /\ RequestsWellFormed'
    BY <1>6, ResumeType DEF Throw, At, Steps
  <2>2. QED
    BY <1>6, <2>1 DEF Throw, TypeOK, bot
<1>7. CASE Deploy
  BY <1>7 DEF Deploy, TypeOK, RequestsWellFormed, Request, Idle, Steps, bot
<1>8. CASE External
  <2>1. ASSUME NEW o \in Orders, NEW k \in Keys, Authenticate(o, k)
        PROVE  TypeInv'
    BY <2>1 DEF Authenticate, TypeOK, RequestsWellFormed, Payment, PaymentStatuses, bot
  <2>2. ASSUME NEW k \in Keys, Abort(k) \/ Refund(k)
        PROVE  TypeInv'
    BY <2>2 DEF Abort, Refund, TypeOK, RequestsWellFormed, Payment, PaymentStatuses, bot
  <2>3. ASSUME NEW o \in Orders, BotGrant(o)
        PROVE  TypeInv'
    BY <2>3 DEF BotGrant, TypeOK, RequestsWellFormed
  <2>4. QED
    BY <1>8, <2>1, <2>2, <2>3 DEF External
<1>9. CASE UNCHANGED vars
  BY <1>9 DEF vars, bot, TypeOK, RequestsWellFormed
<1>10. QED
  BY <1>3, <1>4, <1>5, <1>6, <1>7, <1>8, <1>9 DEF Next

\* No interleaving of the handlers, and no answer of Toss or of the bot, puts a
\* value into the order table that its columns do not allow (schema.prisma).
THEOREM TypeCorrect == Spec => []TypeOK
<1>1. TypeInv => TypeOK
  BY DEF TypeInv
<1>2. QED
  BY TypeInit, TypeStep, <1>1, PTL DEF Spec

-----------------------------------------------------------------------------
(* Gold and payments.  GoldIsPaidFor and PaidRowsMatchToss are not inductive: *)
(* what a request read before an await has to be still true when it acts.   *)

KeysArePaid ==
  \A o \in Orders : order[o].key # None =>
    o \in ValidOrders /\ PaidBy(o, order[o].key)

StatusNeedsKey ==
  \A o \in Orders :
    /\ order[o].status = "PENDING" => order[o].key = None
    /\ order[o].status \in {"PAID", "FULFILLING", "COMPLETED"} => order[o].key # None

AskedArePaid == \A o \in asked : order[o].key # None

Fulfilling == {"start", "restart", "grant", "awaiting", "complete", "grantFailed"}

\* What a request in progress may rely on at its next call.
KnowsItsOrder(p) ==
  LET r == req[p]
  IN  /\ r.pc \in {"duplicate", "verify", "lookup", "record"} => r.order \in ValidOrders
      /\ r.pc = "record" => PaidBy(r.order, r.key)
      /\ r.pc = "lookup" /\ r.seen \in {"PAID", "FULFILLING", "COMPLETED"}
           => order[r.order].key # None
      /\ r.pc \in Fulfilling => order[r.order].key # None

PaidInv ==
  /\ KeysArePaid /\ StatusNeedsKey /\ AskedArePaid
  /\ \A p \in Requests : KnowsItsOrder(p)

\* No step un-captures a payment or moves it to another order.
PaymentsKept ==
  \A o \in Orders, k \in Keys : PaidBy(o, k) => PaidBy(o, k)'

\* No step takes a key away from a row or replaces it.
KeysKept ==
  \A o \in Orders : order[o].key # None => order'[o].key = order[o].key

LEMMA PaymentStep == TypeInv /\ [Next]_vars => PaymentsKept
<1> SUFFICES ASSUME TypeInv, [Next]_vars
             PROVE  PaymentsKept
  OBVIOUS
<1>1. CASE UNCHANGED payment
  BY <1>1 DEF PaymentsKept, PaidBy, Captured
<1>2. ASSUME NEW c \in Confirmers, TossConfirm(c)
      PROVE  PaymentsKept
  BY <1>2 DEF TossConfirm, PaymentsKept, PaidBy, Captured, TypeInv, TypeOK, Payment
<1>3. ASSUME NEW o \in Orders, NEW k \in Keys, Authenticate(o, k)
      PROVE  PaymentsKept
  BY <1>3 DEF Authenticate, PaymentsKept, PaidBy, Captured, TypeInv, TypeOK, Payment
<1>4. ASSUME NEW k \in Keys, Abort(k) \/ Refund(k)
      PROVE  PaymentsKept
  BY <1>4 DEF Abort, Refund, PaymentsKept, PaidBy, Captured, TypeInv, TypeOK, Payment
<1>5. ASSUME NEW p \in Requests, Fulfilment(p) \/ Approval(p)
      PROVE  UNCHANGED payment
  BY <1>5 DEF Fulfilment, StartFulfilment, RereadStarted, AskGrant, GrantReply,
       GrantError, Complete, FulfilmentFailed, Approval, Record, Reread, FailOrder
<1>6. ASSUME NEW c \in Confirmers, Confirm(c)
      PROVE  PaymentsKept
  BY <1>1, <1>2, <1>5, <1>6
     DEF Confirm, ConfirmRead, ConfirmDuplicate, TossDecline, Requests
<1>7. ASSUME NEW w \in Webhooks, Webhook(w)
      PROVE  UNCHANGED payment
  BY <1>5, <1>7 DEF Webhook, WebhookRead, TossLookup, Withdraw, Requests
<1>8. ASSUME NEW x \in Cancellers, Cancel(x)
      PROVE  UNCHANGED payment
  BY <1>8 DEF Cancel, CancelRead, CancelWrite
<1>9. CASE External
  BY <1>1, <1>3, <1>4, <1>9 DEF External, BotGrant
<1>10. QED
  BY <1>1, <1>6, <1>7, <1>8, <1>9 DEF Next, Throw, Deploy, vars

LEMMA KeyStep == TypeInv /\ PaidInv /\ [Next]_vars => KeysKept
<1> SUFFICES ASSUME TypeInv, PaidInv, [Next]_vars
             PROVE  KeysKept
  OBVIOUS
<1>1. CASE UNCHANGED order
  BY <1>1 DEF KeysKept
<1>2. ASSUME NEW p \in Requests, Fulfilment(p)
      PROVE  KeysKept
  <2>1. ASSUME StartFulfilment(p)
        PROVE  KeysKept
    BY <2>1 DEF StartFulfilment, KeysKept, UpdateWhere, TypeInv, TypeOK, Row
  <2>2. ASSUME Complete(p)
        PROVE  KeysKept
    BY <2>2 DEF Complete, KeysKept, UpdateWhere, TypeInv, TypeOK, Row
  <2>3. ASSUME FulfilmentFailed(p)
        PROVE  KeysKept
    BY <2>3 DEF FulfilmentFailed, KeysKept, UpdateWhere, TypeInv, TypeOK, Row
  <2>4. QED
    BY <1>1, <1>2, <2>1, <2>2, <2>3
       DEF Fulfilment, RereadStarted, AskGrant, GrantReply, GrantError
<1>3. ASSUME NEW p \in Requests, Approval(p)
      PROVE  KeysKept
  <2>1. ASSUME Record(p)
        PROVE  KeysKept
    BY <2>1 DEF Record, KeysKept, UpdateWhere, PaidInv, StatusNeedsKey,
                TypeInv, TypeOK, Row
  <2>2. ASSUME FailOrder(p)
        PROVE  KeysKept
    BY <2>2 DEF FailOrder, KeysKept, UpdateWhere, TypeInv, TypeOK, Row
  <2>3. QED
    BY <1>1, <1>3, <2>1, <2>2 DEF Approval, Reread
<1>4. ASSUME NEW w \in Webhooks, Withdraw(w)
      PROVE  KeysKept
  BY <1>4 DEF Withdraw, KeysKept, UpdateWhere, TypeInv, TypeOK, Row
<1>5. ASSUME NEW x \in Cancellers, CancelWrite(x)
      PROVE  KeysKept
  BY <1>5 DEF CancelWrite, KeysKept, TypeInv, TypeOK, Row
<1>6. ASSUME NEW c \in Confirmers, Confirm(c)
      PROVE  KeysKept
  BY <1>1, <1>2, <1>3, <1>6
     DEF Confirm, ConfirmRead, ConfirmDuplicate, TossConfirm, TossDecline, Requests
<1>7. ASSUME NEW w \in Webhooks, Webhook(w)
      PROVE  KeysKept
  BY <1>1, <1>2, <1>3, <1>4, <1>7 DEF Webhook, WebhookRead, TossLookup, Requests
<1>8. ASSUME NEW x \in Cancellers, Cancel(x)
      PROVE  KeysKept
  BY <1>1, <1>5, <1>8 DEF Cancel, CancelRead
<1>9. QED
  BY <1>1, <1>6, <1>7, <1>8
     DEF Next, Throw, Deploy, External, Authenticate, Abort, Refund, BotGrant, vars

\* The requests that do not take the step keep what they know.
LEMMA OthersStillKnow ==
  ASSUME TypeInv, PaidInv, PaymentsKept, KeysKept,
         NEW q \in Requests, req'[q] = req[q]
  PROVE  KnowsItsOrder(q)'
<1>1. req[q].pc # "idle" => req[q].order \in Orders
  BY DEF TypeInv, RequestsWellFormed
<1>2. req[q].pc = "record" => req[q].key \in Keys
  BY DEF TypeInv, RequestsWellFormed
<1>3. KnowsItsOrder(q)
  BY DEF PaidInv
<1>4. req[q].pc = "record" => PaidBy(req[q].order, req[q].key)'
  BY <1>1, <1>2, <1>3 DEF KnowsItsOrder, PaymentsKept
<1>5. QED
  BY <1>1, <1>3, <1>4 DEF KnowsItsOrder, KeysKept, Fulfilling, PaidBy, Captured

\* A step that leaves the rows alone.
LEMMA RowsUnchanged ==
  ASSUME TypeInv, PaidInv, PaymentsKept, UNCHANGED order
  PROVE  KeysArePaid' /\ StatusNeedsKey'
BY DEF TypeInv, TypeOK, Row, PaidInv, KeysArePaid, StatusNeedsKey, PaymentsKept

\* A conditional update that keeps the key and moves to a status the key allows.
LEMMA RowUpdated ==
  ASSUME TypeInv, PaidInv, PaymentsKept,
         NEW o \in Orders, NEW from, NEW changed \in Row,
         UpdateWhere(o, from, changed),
         changed.key = order[o].key, changed.status # "PENDING",
         changed.status \in {"PAID", "FULFILLING", "COMPLETED"}
           => from \subseteq {"PAID", "FULFILLING", "COMPLETED"}
  PROVE  KeysArePaid' /\ StatusNeedsKey'
<1>1. \A other \in Orders : order'[other] =
        IF other = o /\ order[o].status \in from THEN changed ELSE order[other]
  BY DEF UpdateWhere, TypeInv, TypeOK
<1>2. KeysArePaid'
  BY <1>1 DEF TypeInv, TypeOK, Row, PaidInv, KeysArePaid, PaymentsKept
<1>3. StatusNeedsKey'
  BY <1>1 DEF PaidInv, StatusNeedsKey
<1>4. QED
  BY <1>2, <1>3

\* One step of one request: what is left to show is about the rows, the grants
\* asked for, and the request itself.
LEMMA OneRequestStep ==
  ASSUME TypeInv, PaidInv, PaymentsKept, KeysKept, NEW p \in Requests,
         \A q \in Requests \ {p} : req'[q] = req[q],
         KeysArePaid', StatusNeedsKey',
         KnowsItsOrder(p)',
         \A o \in asked' \ asked : order'[o].key # None
  PROVE  PaidInv'
<1>1. AskedArePaid'
  BY DEF PaidInv, AskedArePaid, KeysKept, TypeInv, TypeOK
<1>2. \A q \in Requests : KnowsItsOrder(q)'
  BY OthersStillKnow
<1>3. QED
  BY <1>1, <1>2 DEF PaidInv

LEMMA OthersResume ==
  ASSUME TypeInv, NEW p \in Requests, NEW step, Resume(p, step)
  PROVE  /\ \A q \in Requests \ {p} : req'[q] = req[q]
         /\ req'[p].pc = step
         /\ step # "idle" => /\ req'[p].order = req[p].order
                             /\ req'[p].key = req[p].key
                             /\ req'[p].seen = req[p].seen
                             /\ req'[p].gold = req[p].gold
BY DEF TypeInv, TypeOK, Request, Resume, Idle

LEMMA OthersBegin ==
  ASSUME TypeInv, NEW p \in Requests, NEW o, NEW k, NEW step, NEW seen,
         Begin(p, o, k, step, seen)
  PROVE  /\ \A q \in Requests \ {p} : req'[q] = req[q]
         /\ req'[p].pc = step /\ req'[p].order = o
         /\ req'[p].key = k /\ req'[p].seen = seen
BY DEF TypeInv, TypeOK, Begin

LEMMA PaidInit == Init => PaidInv
BY NoneIsNoValue DEF Init, PaidInv, KeysArePaid, StatusNeedsKey, AskedArePaid,
                     KnowsItsOrder, Fulfilling, Idle

LEMMA PaidFulfilment ==
  ASSUME TypeInv, PaidInv, PaymentsKept, KeysKept, NEW p \in Requests, Fulfilment(p)
  PROVE  PaidInv'
<1> DEFINE o == req[p].order
<1>0. /\ req[p].pc \in Fulfilling => o \in Orders /\ order[o].key # None
      /\ order \in [Orders -> Row]
  BY DEF TypeInv, TypeOK, RequestsWellFormed, PaidInv, KnowsItsOrder, Fulfilling
<1>1. CASE StartFulfilment(p)
  <2>1. o \in Orders /\ order[o].key # None
    BY <1>0, <1>1 DEF StartFulfilment, At, Fulfilling
  <2>2. KeysArePaid' /\ StatusNeedsKey'
    <3>1. [order[o] EXCEPT !.status = "FULFILLING", !.failure = None] \in Row
      BY <1>0, <2>1 DEF Row, Statuses
    <3>2. QED
      BY <1>0, <1>1, <2>1, <3>1, RowUpdated DEF StartFulfilment, Row
  <2>3. KnowsItsOrder(p)'
    BY <1>1, <2>1, OthersResume DEF StartFulfilment, KnowsItsOrder, KeysKept
  <2>4. QED
    BY <1>1, <2>2, <2>3, OthersResume, OneRequestStep DEF StartFulfilment, bot
<1>2. CASE RereadStarted(p)
  <2>1. o \in Orders /\ order[o].key # None
    BY <1>0, <1>2 DEF RereadStarted, At, Fulfilling
  <2>2. KnowsItsOrder(p)'
    BY <1>2, <2>1, OthersResume DEF RereadStarted, KnowsItsOrder, Fulfilling
  <2>3. QED
    BY <1>2, <2>2, RowsUnchanged, OthersResume, OneRequestStep DEF RereadStarted, bot
<1>3. CASE AskGrant(p)
  <2>1. o \in Orders /\ order[o].key # None
    BY <1>0, <1>3 DEF AskGrant, At, Fulfilling
  <2>2. KnowsItsOrder(p)'
    BY <1>3, <2>1, OthersResume DEF AskGrant, KnowsItsOrder
  <2>3. QED
    BY <1>3, <2>1, <2>2, RowsUnchanged, OthersResume, OneRequestStep DEF AskGrant
<1>4. CASE GrantReply(p)
  <2>1. o \in Orders /\ order[o].key # None
    BY <1>0, <1>4 DEF GrantReply, At, Fulfilling
  <2>2. PICK b \in Balances :
          req' = [req EXCEPT ![p].pc = "complete", ![p].gold = b]
    BY <1>4 DEF GrantReply
  <2>3. /\ \A q \in Requests \ {p} : req'[q] = req[q]
        /\ req'[p].pc = "complete" /\ req'[p].order = o
    BY <2>2 DEF TypeInv, TypeOK, Request
  <2>4. KnowsItsOrder(p)'
    BY <1>4, <2>1, <2>3 DEF GrantReply, KnowsItsOrder
  <2>5. QED
    BY <1>4, <2>3, <2>4, RowsUnchanged, OneRequestStep DEF GrantReply, bot
<1>5. CASE GrantError(p)
  <2>1. o \in Orders /\ order[o].key # None
    BY <1>0, <1>5 DEF GrantError, At, Fulfilling
  <2>2. KnowsItsOrder(p)'
    BY <1>5, <2>1, OthersResume DEF GrantError, KnowsItsOrder
  <2>3. QED
    BY <1>5, <2>2, RowsUnchanged, OthersResume, OneRequestStep DEF GrantError, bot
<1>6. CASE Complete(p)
  <2>1. o \in Orders /\ order[o].key # None
    BY <1>0, <1>6 DEF Complete, At, Fulfilling
  <2>2. KeysArePaid' /\ StatusNeedsKey'
    <3>1. req[p].gold \in Balances
      BY <1>6 DEF Complete, At, TypeInv, RequestsWellFormed
    <3>2. [order[o] EXCEPT !.status = "COMPLETED", !.failure = None,
                           !.gold = req[p].gold] \in Row
      BY <1>0, <2>1, <3>1 DEF Row, Statuses
    <3>3. QED
      BY <1>0, <1>6, <2>1, <3>2, RowUpdated DEF Complete, Row
  <2>3. PICK step \in {"idle", "grantFailed"} : Resume(p, step)
    BY <1>6 DEF Complete
  <2>4. KnowsItsOrder(p)'
    BY <2>1, <2>3, OthersResume DEF KnowsItsOrder, KeysKept, Fulfilling
  <2>5. QED
    BY <1>6, <2>2, <2>3, <2>4, OthersResume, OneRequestStep DEF Complete, bot
<1>7. CASE FulfilmentFailed(p)
  <2>1. o \in Orders /\ order[o].key # None
    BY <1>0, <1>7 DEF FulfilmentFailed, At, Fulfilling
  <2>2. KeysArePaid' /\ StatusNeedsKey'
    <3>1. order'[o] = order[o] \/ order'[o] = [order[o] EXCEPT !.failure = "gold_fulfillment_failed"]
      BY <1>0, <1>7, <2>1 DEF FulfilmentFailed, UpdateWhere
    <3>2. \A x \in Orders : /\ order'[x].key = order[x].key
                            /\ order'[x].status = order[x].status
      BY <1>0, <1>7, <2>1, <3>1 DEF FulfilmentFailed, UpdateWhere, Row
    <3>3. \A x \in Orders : order[x].key # None => order[x].key \in Keys
      BY <1>0 DEF Row
    <3>4. QED
      BY <3>2, <3>3 DEF PaidInv, KeysArePaid, StatusNeedsKey, PaymentsKept
  <2>3. KnowsItsOrder(p)'
    BY <1>7, <2>1, OthersResume DEF FulfilmentFailed, KnowsItsOrder, Fulfilling
  <2>4. QED
    BY <1>7, <2>2, <2>3, OthersResume, OneRequestStep DEF FulfilmentFailed, bot
<1>8. QED
  BY <1>1, <1>2, <1>3, <1>4, <1>5, <1>6, <1>7 DEF Fulfilment

LEMMA FulfilStepPaid ==
  ASSUME NEW status
  PROVE  /\ FulfilStep(status) \in {"start", "grant", "idle"}
         /\ FulfilStep(status) # "idle" => status \in {"PAID", "FULFILLING"}
BY DEF FulfilStep

LEMMA PaidApproval ==
  ASSUME TypeInv, PaidInv, PaymentsKept, KeysKept, NEW p \in Requests, Approval(p)
  PROVE  PaidInv'
<1> DEFINE o == req[p].order
           k == req[p].key
<1>0. /\ req[p].pc # "idle" => o \in Orders
      /\ req[p].pc \in {"record", "reread"} => k \in Keys
      /\ req[p].pc = "record" => o \in ValidOrders /\ PaidBy(o, k)
      /\ order \in [Orders -> Row]
  BY DEF TypeInv, TypeOK, RequestsWellFormed, PaidInv, KnowsItsOrder
<1>1. CASE Record(p)
  <2>1. PICK x \in ValidOrders, y \in Keys : x = o /\ y = k
    BY <1>0, <1>1 DEF Record, At
  <2>2. x \in Orders /\ PaidBy(x, y)'
    BY <1>0, <1>1, <2>1, ValidOrdersAreOrders DEF Record, At, PaymentsKept
  <2>3. PICK step \in {"idle", "reread"} : Resume(p, step)
    BY <1>1 DEF Record
  <2>4. KnowsItsOrder(p)'
    BY <2>3, OthersResume DEF KnowsItsOrder, Fulfilling
  <2>5. CASE UNCHANGED order
    BY <1>1, <2>3, <2>4, <2>5, RowsUnchanged, OthersResume, OneRequestStep DEF Record, bot
  <2>6. CASE UpdateWhere(x, {"PENDING"},
               [order[x] EXCEPT !.status = "PAID", !.key = y, !.failure = None])
    <3>1. \A z \in Orders : z # x => order'[z] = order[z]
      BY <1>0, <2>6 DEF UpdateWhere
    <3>2. \/ order'[x] = order[x]
          \/ order'[x].status = "PAID" /\ order'[x].key = y
      BY <1>0, <2>2, <2>6 DEF UpdateWhere, Row
    <3>3. KeysArePaid'
      <4> SUFFICES ASSUME NEW z \in Orders, order'[z].key # None
                   PROVE  z \in ValidOrders /\ PaidBy(z, order[z].key)'
        BY DEF KeysArePaid
      <4>1. PICK paying : paying = order'[z].key
        OBVIOUS
      <4>2. z \in ValidOrders /\ PaidBy(z, paying)'
        <5>1. CASE z = x /\ order'[x].key = y
          BY <2>1, <2>2, <4>1, <5>1
        <5>2. CASE order'[z] = order[z]
          BY <1>0, <4>1, <5>2 DEF Row, PaidInv, KeysArePaid, PaymentsKept
        <5>3. QED
          BY <3>1, <3>2, <5>1, <5>2
      <4>3. QED
        BY <4>1, <4>2 DEF PaidBy, Captured
    <3>4. StatusNeedsKey'
      BY <2>1, <3>1, <3>2, NoneIsNoValue DEF PaidInv, StatusNeedsKey
    <3>5. QED
      BY <1>1, <2>3, <2>4, <3>3, <3>4, OthersResume, OneRequestStep DEF Record, bot
  <2>7. QED
    BY <1>1, <2>1, <2>5, <2>6 DEF Record
<1>2. CASE Reread(p)
  <2>1. o \in Orders
    BY <1>0, <1>2 DEF Reread, At
  <2>2. PICK step : /\ Resume(p, step)
                    /\ step \in {"idle", "start", "grant"}
                    /\ step # "idle" => order[o].status \in {"PAID", "FULFILLING"}
    BY <1>2, FulfilStepPaid DEF Reread
  <2>3. step # "idle" => order'[o].key # None
    BY <1>2, <2>1, <2>2 DEF Reread, PaidInv, StatusNeedsKey
  <2>4. KnowsItsOrder(p)'
    BY <2>2, <2>3, OthersResume DEF KnowsItsOrder, Fulfilling
  <2>5. QED
    BY <1>2, <2>2, <2>4, RowsUnchanged, OthersResume, OneRequestStep DEF Reread, bot
<1>3. CASE FailOrder(p)
  <2>1. o \in Orders
    BY <1>0, <1>3 DEF FailOrder, At
  <2>2. KeysArePaid' /\ StatusNeedsKey'
    <3>1. [order[o] EXCEPT !.status = "FAILED", !.failure = "verification"] \in Row
      BY <1>0, <2>1 DEF Row, Statuses, Failures
    <3>2. QED
      BY <1>0, <1>3, <2>1, <3>1, RowUpdated DEF FailOrder, Row
  <2>3. KnowsItsOrder(p)'
    BY <1>3, OthersResume DEF FailOrder, KnowsItsOrder, Fulfilling
  <2>4. QED
    BY <1>3, <2>2, <2>3, OthersResume, OneRequestStep DEF FailOrder, bot
<1>4. QED
  BY <1>1, <1>2, <1>3 DEF Approval

LEMMA PaidConfirm ==
  ASSUME TypeInv, PaidInv, PaymentsKept, KeysKept, NEW c \in Confirmers, Confirm(c)
  PROVE  PaidInv'
<1>0. c \in Requests
  BY DEF Requests
<1>1. ASSUME NEW o \in Orders, NEW k \in Keys, ConfirmRead(c, o, k)
      PROVE  PaidInv'
  <2> DEFINE step == FirstConfirmStep(o, k)
  <2>0. /\ step \in {"fail", "duplicate", "start", "grant", "idle"}
        /\ step = "duplicate" => o \in ValidOrders
        /\ step \in {"start", "grant"} => order[o].status \in {"PAID", "FULFILLING"}
    <3>1. step \in {"fail", "duplicate", "start", "grant", "idle"}
      BY FirstConfirmStepType
    <3>2. step = "duplicate" => o \in ValidOrders
      BY FulfilStepPaid DEF FirstConfirmStep
    <3>3. step \in {"start", "grant"} => order[o].status \in {"PAID", "FULFILLING"}
      BY FulfilStepPaid DEF FirstConfirmStep
    <3>4. QED
      BY <3>1, <3>2, <3>3
  <2>1. PICK next : next = step /\ Begin(c, o, k, next, None)
    BY <1>1 DEF ConfirmRead
  <2>2. next \in {"start", "grant"} => order'[o].key # None
    BY <1>1, <2>0, <2>1 DEF ConfirmRead, PaidInv, StatusNeedsKey
  <2>3. KnowsItsOrder(c)'
    BY <1>0, <2>0, <2>1, <2>2, OthersBegin DEF KnowsItsOrder, Fulfilling
  <2>4. QED
    BY <1>0, <1>1, <2>1, <2>3, RowsUnchanged, OthersBegin, OneRequestStep
       DEF ConfirmRead, bot
<1>2. CASE ConfirmDuplicate(c)
  <2>1. PICK step \in {"idle", "verify"} : Resume(c, step)
    BY <1>2 DEF ConfirmDuplicate
  <2>2. KnowsItsOrder(c)'
    BY <1>0, <1>2, <2>1, OthersResume
       DEF ConfirmDuplicate, At, PaidInv, KnowsItsOrder, Fulfilling
  <2>3. QED
    BY <1>0, <1>2, <2>1, <2>2, RowsUnchanged, OthersResume, OneRequestStep
       DEF ConfirmDuplicate, bot
<1>3. CASE TossConfirm(c)
  <2>1. PICK o \in ValidOrders, k \in Keys : o = req[c].order /\ k = req[c].key
    BY <1>0, <1>3 DEF TossConfirm, At, TypeInv, RequestsWellFormed, PaidInv, KnowsItsOrder
  <2>2. PaidBy(o, k)'
    BY <1>3, <2>1 DEF TossConfirm, PaidBy, Captured, TypeInv, TypeOK, Payment
  <2>3. KnowsItsOrder(c)'
    BY <1>0, <1>3, <2>1, <2>2, OthersResume DEF TossConfirm, KnowsItsOrder, Fulfilling
  <2>4. QED
    BY <1>0, <1>3, <2>3, RowsUnchanged, OthersResume, OneRequestStep DEF TossConfirm, bot
<1>4. CASE TossDecline(c)
  <2>1. KnowsItsOrder(c)'
    BY <1>0, <1>4, OthersResume DEF TossDecline, KnowsItsOrder, Fulfilling
  <2>2. QED
    BY <1>0, <1>4, <2>1, RowsUnchanged, OthersResume, OneRequestStep DEF TossDecline, bot
<1>5. QED
  BY <1>0, <1>1, <1>2, <1>3, <1>4, PaidApproval, PaidFulfilment DEF Confirm

LEMMA PaidWebhook ==
  ASSUME TypeInv, PaidInv, PaymentsKept, KeysKept, NEW w \in Webhooks, Webhook(w)
  PROVE  PaidInv'
<1>0. w \in Requests
  BY DEF Requests
<1>1. ASSUME NEW o \in Orders, NEW k \in Keys, WebhookRead(w, o, k)
      PROVE  PaidInv'
  <2>1. PICK seen : seen = order[o].status /\ Begin(w, o, k, "lookup", seen)
    BY <1>1 DEF WebhookRead
  <2>2. KnowsItsOrder(w)'
    BY <1>0, <1>1, <2>1, OthersBegin
       DEF WebhookRead, PaidInv, StatusNeedsKey, KnowsItsOrder, Fulfilling
  <2>3. QED
    BY <1>0, <1>1, <2>1, <2>2, RowsUnchanged, OthersBegin, OneRequestStep
       DEF WebhookRead, bot
<1>2. CASE TossLookup(w)
  <2>1. PICK o \in ValidOrders, k \in Keys, seen \in Statuses \union {None} :
          o = req[w].order /\ k = req[w].key /\ seen = req[w].seen
    BY <1>0, <1>2 DEF TossLookup, At, TypeInv, TypeOK, Request, RequestsWellFormed,
                      PaidInv, KnowsItsOrder
  <2>2. seen \in {"PAID", "FULFILLING"} => order[o].key # None
    BY <1>0, <1>2, <2>1 DEF TossLookup, At, PaidInv, KnowsItsOrder
  <2>3. PICK step : step = ReconcileStep(Verdict(payment[k].status), seen) /\ Resume(w, step)
    BY <1>2, <2>1 DEF TossLookup
  <2>4. step \in {"record", "start", "grant", "withdraw", "fail", "idle"}
    BY <2>3, ReconcileStepType
  <2>5. step = "record" => PaidBy(o, k)
    <3>1. step = "record" => Verdict(payment[k].status) = "approved"
      BY <2>3, FulfilStepPaid DEF ReconcileStep
    <3>2. step = "record" => payment[k].status = "DONE"
      BY <3>1 DEF Verdict
    <3>3. payment[k].order = o /\ Amount[k] = Price[o]
      BY <1>2, <2>1 DEF TossLookup, LookupResults, PaymentsOf
    <3>4. QED
      BY <2>1, <3>2, <3>3 DEF PaidBy, Captured
  <2>6. step \in {"start", "grant"} => seen \in {"PAID", "FULFILLING"}
    BY <2>3, FulfilStepPaid DEF ReconcileStep
  <2>7. step = "record" => PaidBy(o, k)'
    BY <2>1, <2>5, ValidOrdersAreOrders DEF PaymentsKept
  <2>8. /\ req'[w].pc = step
        /\ step # "idle" => req'[w].order = o /\ req'[w].key = k
    BY <1>0, <2>1, <2>3, OthersResume
  <2>9. KnowsItsOrder(w)'
    BY <1>2, <2>1, <2>2, <2>4, <2>6, <2>7, <2>8
       DEF TossLookup, KnowsItsOrder, Fulfilling, PaidBy, Captured
  <2>10. QED
    BY <1>0, <1>2, <2>3, <2>9, RowsUnchanged, OthersResume, OneRequestStep
       DEF TossLookup, bot
<1>3. CASE Withdraw(w)
  <2>1. PICK o \in Orders : o = req[w].order
    BY <1>0, <1>3 DEF Withdraw, At, TypeInv, RequestsWellFormed
  <2>2. KeysArePaid' /\ StatusNeedsKey'
    <3>1. order \in [Orders -> Row]
      BY DEF TypeInv, TypeOK
    <3>2. [order[o] EXCEPT !.status = "CANCELLED", !.failure = None] \in Row
      BY <2>1, <3>1 DEF Row, Statuses
    <3>3. QED
      BY <1>3, <2>1, <3>1, <3>2, RowUpdated DEF Withdraw, Row
  <2>3. KnowsItsOrder(w)'
    BY <1>0, <1>3, OthersResume DEF Withdraw, KnowsItsOrder, Fulfilling
  <2>4. QED
    BY <1>0, <1>3, <2>2, <2>3, OthersResume, OneRequestStep DEF Withdraw, bot
<1>4. QED
  BY <1>0, <1>1, <1>2, <1>3, PaidApproval, PaidFulfilment DEF Webhook

LEMMA PaidCancel ==
  ASSUME TypeInv, PaidInv, PaymentsKept, KeysKept, NEW x \in Cancellers, Cancel(x)
  PROVE  PaidInv'
<1>0. x \in Requests
  BY DEF Requests
<1>1. ASSUME NEW o \in Orders, CancelRead(x, o)
      PROVE  PaidInv'
  <2>1. KnowsItsOrder(x)'
    BY <1>0, <1>1, OthersBegin DEF CancelRead, KnowsItsOrder, Fulfilling
  <2>2. QED
    BY <1>0, <1>1, <2>1, RowsUnchanged, OthersBegin, OneRequestStep DEF CancelRead, bot
<1>2. CASE CancelWrite(x)
  <2>1. PICK o \in Orders : o = req[x].order
    BY <1>0, <1>2 DEF CancelWrite, At, TypeInv, RequestsWellFormed
  <2>2. order \in [Orders -> Row]
    BY DEF TypeInv, TypeOK
  <2>3. [order[o] EXCEPT !.status = "CANCELLED", !.failure = None] \in Row
    BY <2>1, <2>2 DEF Row, Statuses
  <2>4. UpdateWhere(o, Statuses, [order[o] EXCEPT !.status = "CANCELLED", !.failure = None])
    BY <1>2, <2>1, <2>2 DEF CancelWrite, UpdateWhere, Row
  <2>5. KeysArePaid' /\ StatusNeedsKey'
    BY <2>1, <2>2, <2>3, <2>4, RowUpdated DEF Row
  <2>6. KnowsItsOrder(x)'
    BY <1>0, <1>2, OthersResume DEF CancelWrite, KnowsItsOrder, Fulfilling
  <2>7. QED
    BY <1>0, <1>2, <2>5, <2>6, OthersResume, OneRequestStep DEF CancelWrite, bot
<1>3. QED
  BY <1>1, <1>2 DEF Cancel

LEMMA PaidStep == TypeInv /\ PaidInv /\ [Next]_vars => PaidInv'
<1> SUFFICES ASSUME TypeInv, PaidInv, [Next]_vars
             PROVE  PaidInv'
  OBVIOUS
<1>0. PaymentsKept /\ KeysKept
  BY PaymentStep, KeyStep
<1>1. ASSUME NEW c \in Confirmers, Confirm(c)
      PROVE  PaidInv'
  BY <1>0, <1>1, PaidConfirm
<1>2. ASSUME NEW w \in Webhooks, Webhook(w)
      PROVE  PaidInv'
  BY <1>0, <1>2, PaidWebhook
<1>3. ASSUME NEW x \in Cancellers, Cancel(x)
      PROVE  PaidInv'
  BY <1>0, <1>3, PaidCancel
<1>4. ASSUME NEW p \in Requests, Throw(p)
      PROVE  PaidInv'
  <2>1. KnowsItsOrder(p)'
    BY <1>4, OthersResume DEF Throw, KnowsItsOrder, Fulfilling
  <2>2. QED
    BY <1>0, <1>4, <2>1, RowsUnchanged, OthersResume, OneRequestStep DEF Throw, bot
<1>5. CASE Deploy
  <2>1. KeysArePaid' /\ StatusNeedsKey'
    BY <1>0, <1>5, RowsUnchanged DEF Deploy
  <2>2. \A p \in Requests : KnowsItsOrder(p)'
    BY <1>5 DEF Deploy, KnowsItsOrder, Fulfilling, Idle
  <2>3. QED
    BY <1>5, <2>1, <2>2 DEF Deploy, PaidInv, AskedArePaid, bot
<1>6. CASE External \/ UNCHANGED vars
  <2>1. /\ order' = order /\ req' = req /\ asked' = asked
    BY <1>6 DEF External, Authenticate, Abort, Refund, BotGrant, vars, bot
  <2>2. KeysArePaid' /\ StatusNeedsKey'
    BY <1>0, <2>1, RowsUnchanged
  <2>3. \A p \in Requests : KnowsItsOrder(p)'
    BY <1>0, <2>1, OthersStillKnow
  <2>4. QED
    BY <2>1, <2>2, <2>3 DEF PaidInv, AskedArePaid
<1>7. QED
  BY <1>1, <1>2, <1>3, <1>4, <1>5, <1>6 DEF Next

LEMMA Safety == Spec => [](TypeInv /\ PaidInv)
<1>1. Init => TypeInv /\ PaidInv
  BY TypeInit, PaidInit
<1>2. TypeInv /\ PaidInv /\ [Next]_vars => (TypeInv /\ PaidInv)'
  BY TypeStep, PaidStep
<1>3. QED
  BY <1>1, <1>2, PTL DEF Spec

\* Gold is asked for only for an order that a captured payment of its price has
\* paid: lost answers, repeated notifications, user cancels and deployments in
\* any order cannot make confirm or the webhook call the bot for anything else.
THEOREM GoldIsAlwaysPaidFor == Spec => []GoldIsPaidFor
<1>1. TypeInv /\ PaidInv => GoldIsPaidFor
  BY DEF TypeInv, TypeOK, PaidInv, AskedArePaid, KeysArePaid, GoldIsPaidFor
<1>2. QED
  BY <1>1, Safety, PTL

\* A row that claims to be paid holds the key of the captured payment that paid
\* it, and every key in the table belongs to its own order (recordApproved).
THEOREM PaidRowsAlwaysMatchToss == Spec => []PaidRowsMatchToss
<1>1. TypeInv /\ PaidInv => PaidRowsMatchToss
  BY DEF PaidInv, KeysArePaid, StatusNeedsKey, PaidRowsMatchToss
<1>2. QED
  BY <1>1, Safety, PTL

-----------------------------------------------------------------------------
(* The status, the failure code and the balance of a row agree.            *)

\* A balance is written with COMPLETED, which only a user's cancel overwrites.
BalanceIsLate ==
  \A o \in Orders : order[o].gold # None => order[o].status \in {"COMPLETED", "CANCELLED"}

\* A request completes an order on the strength of the bot's reply.
RepliesAreGrants ==
  \A p \in Requests : req[p].pc = "complete" => req[p].order \in granted

LEMMA GrantedGrows == [Next]_vars => granted \subseteq granted'
<1>1. ASSUME NEW p \in Requests, Fulfilment(p) \/ Approval(p)
      PROVE  granted' = granted
  BY <1>1 DEF Fulfilment, StartFulfilment, RereadStarted, AskGrant, GrantReply, GrantError,
       Complete, FulfilmentFailed, Approval, Record, Reread, FailOrder, bot
<1>2. ASSUME NEW c \in Confirmers, Confirm(c)
      PROVE  granted' = granted
  BY <1>1, <1>2 DEF Confirm, ConfirmRead, ConfirmDuplicate, TossConfirm, TossDecline,
                    Requests, bot
<1>3. ASSUME NEW w \in Webhooks, Webhook(w)
      PROVE  granted' = granted
  BY <1>1, <1>3 DEF Webhook, WebhookRead, TossLookup, Withdraw, Requests, bot
<1>4. ASSUME NEW x \in Cancellers, Cancel(x)
      PROVE  granted' = granted
  BY <1>4 DEF Cancel, CancelRead, CancelWrite, bot
<1>5. QED
  BY <1>2, <1>3, <1>4
     DEF Next, Throw, Deploy, External, Authenticate, Abort, Refund, BotGrant, vars, bot

\* Only the bot's reply brings a request to completing its order.
LEMMA ReplyStep ==
  TypeInv /\ RepliesAreGrants /\ [Next]_vars => RepliesAreGrants'
<1> SUFFICES ASSUME TypeInv, RepliesAreGrants, [Next]_vars,
                    NEW q \in Requests, req'[q].pc = "complete"
             PROVE  req'[q].order \in granted'
  BY DEF RepliesAreGrants
<1>1. granted \subseteq granted'
  BY GrantedGrows
<1>2. CASE req'[q] = req[q]
  BY <1>1, <1>2 DEF RepliesAreGrants
<1>3. ASSUME NEW p \in Requests, NEW step, step # "complete", Resume(p, step)
      PROVE  req'[q] = req[q]
  BY <1>3, OthersResume
<1>4. ASSUME NEW p \in Requests, NEW o, NEW k, NEW step, NEW seen, step # "complete",
             Begin(p, o, k, step, seen)
      PROVE  req'[q] = req[q]
  BY <1>4, OthersBegin
<1>5. ASSUME NEW p \in Requests, Fulfilment(p)
      PROVE  req'[q] = req[q] \/ req'[q].order \in granted'
  <2>1. CASE GrantReply(p)
    <3>1. req[p].order \in granted'
      BY <2>1, <1>1 DEF GrantReply
    <3>2. PICK b : req' = [req EXCEPT ![p].pc = "complete", ![p].gold = b]
      BY <2>1 DEF GrantReply
    <3>3. q # p => req'[q] = req[q]
      BY <3>2 DEF TypeInv, TypeOK
    <3>4. q = p => req'[q].order = req[p].order
      BY <3>2 DEF TypeInv, TypeOK, Request
    <3>5. QED
      BY <3>1, <3>3, <3>4
  <2>2. CASE ~GrantReply(p)
    <3>1. PICK step : step # "complete" /\ Resume(p, step)
      BY <1>5, <2>2 DEF Fulfilment, StartFulfilment, RereadStarted, AskGrant,
           GrantError, Complete, FulfilmentFailed
    <3>2. QED
      BY <1>3, <3>1
  <2>3. QED
    BY <2>1, <2>2
<1>6. ASSUME NEW p \in Requests, Approval(p)
      PROVE  req'[q] = req[q]
  <2>1. PICK step : step # "complete" /\ Resume(p, step)
    BY <1>6, FulfilStepType DEF Approval, Record, Reread, FailOrder
  <2>2. QED
    BY <1>3, <2>1
<1>7. ASSUME NEW c \in Confirmers, Confirm(c)
      PROVE  req'[q] = req[q] \/ req'[q].order \in granted'
  <2>0. c \in Requests
    BY DEF Requests
  <2>1. ASSUME NEW o \in Orders, NEW k \in Keys, ConfirmRead(c, o, k)
        PROVE  req'[q] = req[q]
    <3>1. FirstConfirmStep(o, k) # "complete"
      BY FirstConfirmStepType
    <3>2. QED
      BY <1>4, <2>0, <2>1, <3>1 DEF ConfirmRead
  <2>2. ASSUME ConfirmDuplicate(c) \/ TossConfirm(c) \/ TossDecline(c)
        PROVE  req'[q] = req[q]
    <3>1. PICK step : step # "complete" /\ Resume(c, step)
      BY <2>2 DEF ConfirmDuplicate, TossConfirm, TossDecline
    <3>2. QED
      BY <1>3, <2>0, <3>1
  <2>3. QED
    BY <1>5, <1>6, <1>7, <2>0, <2>1, <2>2 DEF Confirm
<1>8. ASSUME NEW w \in Webhooks, Webhook(w)
      PROVE  req'[q] = req[q] \/ req'[q].order \in granted'
  <2>0. w \in Requests
    BY DEF Requests
  <2>1. ASSUME NEW o \in Orders, NEW k \in Keys, WebhookRead(w, o, k)
        PROVE  req'[q] = req[q]
    BY <1>4, <2>0, <2>1 DEF WebhookRead
  <2>2. ASSUME TossLookup(w) \/ Withdraw(w)
        PROVE  req'[q] = req[q]
    <3>1. PICK step : step # "complete" /\ Resume(w, step)
      BY <2>2, ReconcileStepType DEF TossLookup, Withdraw
    <3>2. QED
      BY <1>3, <2>0, <3>1
  <2>3. QED
    BY <1>5, <1>6, <1>8, <2>0, <2>1, <2>2 DEF Webhook
<1>9. ASSUME NEW x \in Cancellers, Cancel(x)
      PROVE  req'[q] = req[q]
  <2>0. x \in Requests
    BY DEF Requests
  <2>1. ASSUME NEW o \in Orders, CancelRead(x, o)
        PROVE  req'[q] = req[q]
    BY <1>4, <2>0, <2>1 DEF CancelRead
  <2>2. ASSUME CancelWrite(x)
        PROVE  req'[q] = req[q]
    BY <1>3, <2>0, <2>2 DEF CancelWrite
  <2>3. QED
    BY <1>9, <2>1, <2>2 DEF Cancel
<1>10. ASSUME NEW p \in Requests, Throw(p)
       PROVE  req'[q] = req[q]
  BY <1>3, <1>10 DEF Throw
<1>11. CASE Deploy
  BY <1>11 DEF Deploy, Idle
<1>12. CASE External \/ UNCHANGED vars
  BY <1>2, <1>12 DEF External, Authenticate, Abort, Refund, BotGrant, vars
<1>13. QED
  BY <1>2, <1>7, <1>8, <1>9, <1>10, <1>11, <1>12 DEF Next

\* StatusTellsTheTruth and BalanceIsLate of one row.
Truthful(row, served) ==
  /\ row.failure = "verification" <=> row.status = "FAILED"
  /\ row.failure = "gold_fulfillment_failed" => row.status = "FULFILLING"
  /\ row.status = "COMPLETED" => served
  /\ row.gold # None => served /\ row.status \in {"COMPLETED", "CANCELLED"}

RowsTruthful == \A o \in Orders : Truthful(order[o], o \in granted)

LEMMA TruthfulRows == RowsTruthful <=> StatusTellsTheTruth /\ BalanceIsLate
BY DEF RowsTruthful, Truthful, StatusTellsTheTruth, BalanceIsLate

LEMMA TruthUpdated ==
  ASSUME TypeInv, RowsTruthful, granted \subseteq granted',
         NEW o \in Orders, NEW from, NEW changed,
         UpdateWhere(o, from, changed),
         order[o].status \in from => Truthful(changed, o \in granted)
  PROVE  RowsTruthful'
<1>1. \A other \in Orders : order'[other] =
        IF other = o /\ order[o].status \in from THEN changed ELSE order[other]
  BY DEF UpdateWhere, TypeInv, TypeOK
<1>2. ASSUME NEW other \in Orders
      PROVE  Truthful(order'[other], other \in granted')
  <2>1. Truthful(order'[other], other \in granted)
    BY <1>1 DEF RowsTruthful
  <2>2. other \in granted => other \in granted'
    OBVIOUS
  <2>3. QED
    BY <2>1, <2>2 DEF Truthful
<1>3. QED
  BY <1>2 DEF RowsTruthful

LEMMA TruthUnchanged ==
  ASSUME RowsTruthful, granted \subseteq granted', UNCHANGED order
  PROVE  RowsTruthful'
BY DEF RowsTruthful, Truthful

LEMMA TruthStep ==
  TypeInv /\ RowsTruthful /\ RepliesAreGrants /\ [Next]_vars => RowsTruthful'
<1> SUFFICES ASSUME TypeInv, RowsTruthful, RepliesAreGrants, [Next]_vars
             PROVE  RowsTruthful'
  OBVIOUS
<1>0. granted \subseteq granted'
  BY GrantedGrows
<1>1. CASE UNCHANGED order
  BY <1>0, <1>1, TruthUnchanged
<1>2. ASSUME NEW p \in Requests, Fulfilment(p)
      PROVE  RowsTruthful'
  <2>1. req[p].pc # "idle" => req[p].order \in Orders /\ order[req[p].order] \in Row
    BY DEF TypeInv, TypeOK, RequestsWellFormed
  <2>2. CASE StartFulfilment(p)
    <3>1. PICK o \in Orders : o = req[p].order /\ order[o] \in Row
      BY <2>1, <2>2 DEF StartFulfilment, At
    <3>2. order[o].status = "PAID" =>
            Truthful([order[o] EXCEPT !.status = "FULFILLING", !.failure = None], o \in granted)
      BY <3>1, NoneIsNoValue DEF RowsTruthful, Truthful, Row, Failures
    <3>3. QED
      BY <1>0, <2>2, <3>1, <3>2, TruthUpdated DEF StartFulfilment
  <2>3. CASE Complete(p)
    <3>1. PICK o \in Orders : o = req[p].order /\ order[o] \in Row /\ o \in granted
      BY <2>1, <2>3 DEF Complete, At, RepliesAreGrants
    <3>2. Truthful([order[o] EXCEPT !.status = "COMPLETED", !.failure = None,
                                    !.gold = req[p].gold], o \in granted)
      BY <3>1, NoneIsNoValue DEF Truthful, Row, Failures
    <3>3. QED
      BY <1>0, <2>3, <3>1, <3>2, TruthUpdated DEF Complete
  <2>4. CASE FulfilmentFailed(p)
    <3>1. PICK o \in Orders : o = req[p].order /\ order[o] \in Row
      BY <2>1, <2>4 DEF FulfilmentFailed, At
    <3>2. order[o].status = "FULFILLING" =>
            Truthful([order[o] EXCEPT !.failure = "gold_fulfillment_failed"], o \in granted)
      BY <3>1 DEF RowsTruthful, Truthful, Row
    <3>3. QED
      BY <1>0, <2>4, <3>1, <3>2, TruthUpdated DEF FulfilmentFailed
  <2>5. QED
    BY <1>1, <1>2, <2>2, <2>3, <2>4
       DEF Fulfilment, RereadStarted, AskGrant, GrantReply, GrantError
<1>3. ASSUME NEW p \in Requests, Approval(p)
      PROVE  RowsTruthful'
  <2>1. req[p].pc # "idle" => req[p].order \in Orders /\ order[req[p].order] \in Row
    BY DEF TypeInv, TypeOK, RequestsWellFormed
  <2>2. CASE Record(p)
    <3>1. PICK o \in Orders : o = req[p].order /\ order[o] \in Row
      BY <2>1, <2>2 DEF Record, At
    <3>2. order[o].status = "PENDING" =>
            Truthful([order[o] EXCEPT !.status = "PAID", !.key = req[p].key,
                                      !.failure = None], o \in granted)
      BY <3>1, NoneIsNoValue DEF RowsTruthful, Truthful, Row, Failures
    <3>3. QED
      BY <1>0, <1>1, <2>2, <3>1, <3>2, TruthUpdated DEF Record
  <2>3. CASE FailOrder(p)
    <3>1. PICK o \in Orders : o = req[p].order /\ order[o] \in Row
      BY <2>1, <2>3 DEF FailOrder, At
    <3>2. order[o].status = "PENDING" =>
            Truthful([order[o] EXCEPT !.status = "FAILED", !.failure = "verification"],
                     o \in granted)
      BY <3>1 DEF RowsTruthful, Truthful, Row
    <3>3. QED
      BY <1>0, <2>3, <3>1, <3>2, TruthUpdated DEF FailOrder
  <2>4. QED
    BY <1>1, <1>3, <2>2, <2>3 DEF Approval, Reread
<1>4. ASSUME NEW w \in Requests, Withdraw(w)
      PROVE  RowsTruthful'
  <2>1. PICK o \in Orders : o = req[w].order /\ order[o] \in Row
    BY <1>4 DEF Withdraw, At, TypeInv, TypeOK, RequestsWellFormed
  <2>2. Truthful([order[o] EXCEPT !.status = "CANCELLED", !.failure = None], o \in granted)
    BY <2>1, NoneIsNoValue DEF RowsTruthful, Truthful, Row, Failures
  <2>3. QED
    BY <1>0, <1>4, <2>1, <2>2, TruthUpdated DEF Withdraw
<1>5. ASSUME NEW x \in Requests, CancelWrite(x)
      PROVE  RowsTruthful'
  <2>1. PICK o \in Orders : o = req[x].order /\ order[o] \in Row
    BY <1>5 DEF CancelWrite, At, TypeInv, TypeOK, RequestsWellFormed
  <2>2. Truthful([order[o] EXCEPT !.status = "CANCELLED", !.failure = None], o \in granted)
    BY <2>1, NoneIsNoValue DEF RowsTruthful, Truthful, Row, Failures
  <2>3. UpdateWhere(o, Statuses, [order[o] EXCEPT !.status = "CANCELLED", !.failure = None])
    BY <1>5, <2>1 DEF CancelWrite, UpdateWhere, Row, TypeInv, TypeOK
  <2>4. QED
    BY <1>0, <2>1, <2>2, <2>3, TruthUpdated
<1>6. ASSUME NEW c \in Confirmers, Confirm(c)
      PROVE  RowsTruthful'
  BY <1>1, <1>2, <1>3, <1>6
     DEF Confirm, ConfirmRead, ConfirmDuplicate, TossConfirm, TossDecline, Requests
<1>7. ASSUME NEW w \in Webhooks, Webhook(w)
      PROVE  RowsTruthful'
  BY <1>1, <1>2, <1>3, <1>4, <1>7 DEF Webhook, WebhookRead, TossLookup, Requests
<1>8. ASSUME NEW x \in Cancellers, Cancel(x)
      PROVE  RowsTruthful'
  BY <1>1, <1>5, <1>8 DEF Cancel, CancelRead, Requests
<1>9. QED
  BY <1>1, <1>6, <1>7, <1>8
     DEF Next, Throw, Deploy, External, Authenticate, Abort, Refund, BotGrant, vars

LEMMA Truth == Spec => [](RowsTruthful /\ RepliesAreGrants)
<1>1. Init => RowsTruthful /\ RepliesAreGrants
  BY NoneIsNoValue DEF Init, RowsTruthful, Truthful, RepliesAreGrants, Idle, Failures
<1>2. TypeInv /\ RowsTruthful /\ RepliesAreGrants /\ [Next]_vars
        => (RowsTruthful /\ RepliesAreGrants)'
  BY TruthStep, ReplyStep
<1>3. QED
  BY <1>1, <1>2, TypeInit, TypeStep, PTL DEF Spec

\* The failure code, the status and the balance of a row never contradict each
\* other: a completed order is one the bot has served and carries no failure,
\* however late another request's catch block runs (fulfillApprovedOrder).
THEOREM StatusAlwaysTellsTheTruth == Spec => []StatusTellsTheTruth
<1>1. RowsTruthful => StatusTellsTheTruth
  BY TruthfulRows
<1>2. QED
  BY <1>1, Truth, PTL

-----------------------------------------------------------------------------
(* What is written once.                                                   *)

BalancesKept ==
  \A o \in Orders : order[o].gold # None => order'[o].gold = order[o].gold

LEMMA BalanceStep == TypeInv /\ RowsTruthful /\ [Next]_vars => BalancesKept
<1> SUFFICES ASSUME TypeInv, RowsTruthful, [Next]_vars
             PROVE  BalancesKept
  OBVIOUS
<1>1. CASE UNCHANGED order
  BY <1>1 DEF BalancesKept
<1>2. ASSUME NEW o \in Orders, NEW from, NEW changed,
             UpdateWhere(o, from, changed),
             \/ changed.gold = order[o].gold
             \/ from = {"FULFILLING"}
      PROVE  BalancesKept
  BY <1>2 DEF UpdateWhere, BalancesKept, RowsTruthful, Truthful, TypeInv, TypeOK
<1>3. \A p \in Requests : req[p].pc # "idle" =>
        req[p].order \in Orders /\ order[req[p].order] \in Row
  BY DEF TypeInv, TypeOK, RequestsWellFormed
<1>4. ASSUME NEW p \in Requests, Fulfilment(p)
      PROVE  BalancesKept
  <2>1. CASE StartFulfilment(p)
    BY <1>2, <1>3, <2>1 DEF StartFulfilment, At, Row
  <2>2. CASE Complete(p)
    BY <1>2, <1>3, <2>2 DEF Complete, At
  <2>3. CASE FulfilmentFailed(p)
    BY <1>2, <1>3, <2>3 DEF FulfilmentFailed, At, Row
  <2>4. QED
    BY <1>1, <1>4, <2>1, <2>2, <2>3
       DEF Fulfilment, RereadStarted, AskGrant, GrantReply, GrantError
<1>5. ASSUME NEW p \in Requests, Approval(p)
      PROVE  BalancesKept
  <2>1. CASE Record(p)
    BY <1>1, <1>2, <1>3, <2>1 DEF Record, At, Row
  <2>2. CASE FailOrder(p)
    BY <1>2, <1>3, <2>2 DEF FailOrder, At, Row
  <2>3. QED
    BY <1>1, <1>5, <2>1, <2>2 DEF Approval, Reread
<1>6. ASSUME NEW w \in Requests, Withdraw(w)
      PROVE  BalancesKept
  BY <1>2, <1>3, <1>6 DEF Withdraw, At, Row
<1>7. ASSUME NEW x \in Requests, CancelWrite(x)
      PROVE  BalancesKept
  BY <1>7 DEF CancelWrite, BalancesKept, TypeInv, TypeOK, Row
<1>8. ASSUME NEW c \in Confirmers, Confirm(c)
      PROVE  BalancesKept
  BY <1>1, <1>4, <1>5, <1>8
     DEF Confirm, ConfirmRead, ConfirmDuplicate, TossConfirm, TossDecline, Requests
<1>9. ASSUME NEW w \in Webhooks, Webhook(w)
      PROVE  BalancesKept
  BY <1>1, <1>4, <1>5, <1>6, <1>9 DEF Webhook, WebhookRead, TossLookup, Requests
<1>10. ASSUME NEW x \in Cancellers, Cancel(x)
       PROVE  BalancesKept
  BY <1>1, <1>7, <1>10 DEF Cancel, CancelRead, Requests
<1>11. QED
  BY <1>1, <1>8, <1>9, <1>10
     DEF Next, Throw, Deploy, External, Authenticate, Abort, Refund, BotGrant, vars

\* The key that paid an order and the balance a completed order reports are
\* never replaced, whichever of two racing requests is the slower one.
THEOREM KeyAndBalanceAreWrittenOnce == Spec => WrittenOnce
<1>1. TypeInv /\ PaidInv /\ RowsTruthful /\ [Next]_vars => KeysKept /\ BalancesKept
  BY KeyStep, BalanceStep
<1>2. KeysKept /\ BalancesKept =>
        \A o \in Orders :
          /\ order[o].key # None => order'[o].key = order[o].key
          /\ order[o].gold # None => order'[o].gold = order[o].gold
  BY DEF KeysKept, BalancesKept
<1>3. QED
  BY <1>1, <1>2, Safety, Truth, PTL DEF Spec, WrittenOnce
=============================================================================
