---------------------------- MODULE PaymentOrders ----------------------------
(***************************************************************************)
(* The life of a payment order in apps/api: the handlers of                *)
(* payments.service.ts (confirm, reconcileTossWebhook, cancel and the      *)
(* helpers they share), the order rows they read and write, and the two    *)
(* services they call, Toss and the game bot.                              *)
(*                                                                         *)
(* A handler is a sequence of awaited calls.  Between two of them any      *)
(* other handler may run, so each await is one action, and what a handler  *)
(* remembers across it is a field of its record in req.  A conditional     *)
(* updateMany is one atomic action that may match no row.  A request that  *)
(* the code refuses before it has changed anything is not a step.          *)
(***************************************************************************)
CONSTANTS
  Orders,       \* the orders, each created PENDING by createOrder
  Keys,         \* the payment keys Toss may issue
  Balances,     \* the gold balances the bot may report after a grant
  Confirmers,   \* requests POST /payments/confirm
  Webhooks,     \* requests POST /payments/webhooks/toss
  Cancellers,   \* requests POST /payments/orders/:id/cancel
  ValidOrders,  \* the orders whose stored price and gold pass isValidStoredGoldOrder
  Price,        \* Price[o]: priceKrw of order o
  Amount,       \* Amount[k]: the amount Toss holds for the payment with key k
  None          \* SQL NULL

Requests == Confirmers \union Webhooks \union Cancellers

ASSUME RequestsDisjoint ==
  /\ Confirmers \intersect Webhooks = {}
  /\ Confirmers \intersect Cancellers = {}
  /\ Webhooks \intersect Cancellers = {}

ASSUME ValidOrdersAreOrders == ValidOrders \subseteq Orders

VARIABLES
  order,     \* the payment_orders table, one row per order
  req,       \* what each request in progress has read and where it stands
  payment,   \* Toss: the payment behind each key
  asked,     \* the orders for which a grant request reached the network
  granted,   \* the bot's ledger: the orders whose gold was handed out
  enabled    \* PAYMENT_FULFILLMENT_ENABLED of the deployment

vars == <<order, req, payment, asked, granted, enabled>>
bot  == <<asked, granted>>

Statuses == {"PENDING", "PAID", "FULFILLING", "COMPLETED", "FAILED", "CANCELLED"}
Failures == {"verification", "gold_fulfillment_failed"}

ASSUME NoneIsNoValue == None \notin Orders \union Keys \union Balances \union Failures

\* IN_PROGRESS stands for every status before capture (READY and WAITING_FOR_DEPOSIT
\* read alike, as failed), CANCELED for PARTIAL_CANCELED too.
PaymentStatuses == {"NONE", "IN_PROGRESS", "ABORTED", "DONE", "CANCELED"}

Steps == {"idle", "duplicate", "verify", "lookup", "record", "reread", "fail",
          "withdraw", "start", "restart", "grant", "awaiting", "complete",
          "grantFailed", "cancel"}

Row == [status : Statuses, key : Keys \union {None},
        failure : Failures \union {None}, gold : Balances \union {None}]

Request == [pc : Steps, order : Orders \union {None}, key : Keys \union {None},
            seen : Statuses \union {None}, gold : Balances \union {None}]

Payment == [order : Orders \union {None}, status : PaymentStatuses]

Idle == [pc |-> "idle", order |-> None, key |-> None, seen |-> None, gold |-> None]

Init ==
  /\ order = [o \in Orders |->
       [status |-> "PENDING", key |-> None, failure |-> None, gold |-> None]]
  /\ req = [p \in Requests |-> Idle]
  /\ payment = [k \in Keys |-> [order |-> None, status |-> "NONE"]]
  /\ asked = {}
  /\ granted = {}
  /\ enabled \in BOOLEAN

-----------------------------------------------------------------------------
(* Vocabulary.                                                             *)

\* Faulty: a payment the user has authenticated reads as approved.
VerdictBeforeCapture(status) ==
  CASE status \in {"IN_PROGRESS", "DONE"} -> "approved"
    [] status = "CANCELED"                -> "cancelled"
    [] OTHER                              -> "failed"

\* mapPayment: a payment that is not yet captured reads as failed.
Verdict(status) ==
  CASE status = "DONE"     -> "approved"
    [] status = "CANCELED" -> "cancelled"
    [] OTHER               -> "failed"

Captured(k) == payment[k].status \in {"DONE", "CANCELED"}

PaymentsOf(o) == {k \in Keys : payment[k].order = o}

\* Toss answers a look-up by order id with the captured payment if there is one.
LookupResults(o) ==
  LET captured == {k \in PaymentsOf(o) : Captured(k)}
  IN  IF captured # {} THEN captured ELSE PaymentsOf(o)

\* The unique index on providerPaymentKey.
KeyTaken(k, o) == \E other \in Orders \ {o} : order[other].key = k

\* A request goes on with its next awaited call, or answers and is forgotten.
Resume(p, step) ==
  req' = [req EXCEPT ![p] = IF step = "idle" THEN Idle ELSE [@ EXCEPT !.pc = step]]

Begin(p, o, k, step, seen) ==
  req' = [req EXCEPT ![p] =
            [pc |-> step, order |-> o, key |-> k, seen |-> seen, gold |-> None]]

\* updateMany where id = o and status is in from.
UpdateWhere(o, from, changed) ==
  order' = [order EXCEPT ![o] = IF @.status \in from THEN changed ELSE @]

At(p, step) == req[p].pc = step

-----------------------------------------------------------------------------
(* fulfillApprovedOrder, shared by confirm and the webhook.                *)

\* Faulty: only a PAID order is taken up, a retry leaves a FULFILLING one alone.
FulfilOnlyPaid(status) == IF status = "PAID" /\ enabled THEN "start" ELSE "idle"

\* Its first call, for a row read with this status: a COMPLETED order and a
\* PAID one of a deployment that hands out no gold are answered as they are,
\* any other status is refused.
FulfilStep(status) ==
  CASE status = "PAID" /\ enabled -> "start"
    [] status = "FULFILLING"      -> "grant"
    [] OTHER                      -> "idle"

StartFulfilment(p) ==
  /\ At(p, "start")
  /\ LET o == req[p].order
     IN  UpdateWhere(o, {"PAID"},
           [order[o] EXCEPT !.status = "FULFILLING", !.failure = None])
  /\ Resume(p, "restart")
  /\ UNCHANGED <<payment, bot, enabled>>

RereadStarted(p) ==
  /\ At(p, "restart")
  /\ Resume(p, IF order[req[p].order].status = "FULFILLING" THEN "grant" ELSE "idle")
  /\ UNCHANGED <<order, payment, bot, enabled>>

AskGrant(p) ==
  /\ At(p, "grant")
  /\ asked' = asked \union {req[p].order}
  /\ Resume(p, "awaiting")
  /\ UNCHANGED <<order, payment, granted, enabled>>

GrantReply(p) ==
  /\ At(p, "awaiting")
  /\ req[p].order \in granted
  /\ \E b \in Balances :
       req' = [req EXCEPT ![p].pc = "complete", ![p].gold = b]
  /\ UNCHANGED <<order, payment, bot, enabled>>

\* The client's timeout, a refusal or a malformed reply, and any database error
\* after the reply, all end in the same catch block.
GrantError(p) ==
  /\ At(p, "awaiting") \/ At(p, "complete")
  /\ Resume(p, "grantFailed")
  /\ UNCHANGED <<order, payment, bot, enabled>>

\* Faulty: the update names the row, not the status it was read with.
CompleteAgain(p) ==
  /\ At(p, "complete")
  /\ LET o == req[p].order
     IN  order' = [order EXCEPT ![o].status = "COMPLETED", ![o].failure = None,
                                ![o].gold = req[p].gold]
  /\ \E step \in {"idle", "grantFailed"} : Resume(p, step)
  /\ UNCHANGED <<payment, bot, enabled>>

\* The re-read that follows the update is inside the try block too: when it
\* fails, the request goes on to the catch block with the order COMPLETED.
Complete(p) ==
  /\ At(p, "complete")
  /\ LET o == req[p].order
     IN  UpdateWhere(o, {"FULFILLING"},
           [order[o] EXCEPT !.status = "COMPLETED", !.failure = None,
                            !.gold = req[p].gold])
  /\ \E step \in {"idle", "grantFailed"} : Resume(p, step)
  /\ UNCHANGED <<payment, bot, enabled>>

\* Faulty: the catch block marks the row whatever has become of it.
MarkFailed(p) ==
  /\ At(p, "grantFailed")
  /\ order' = [order EXCEPT ![req[p].order].failure = "gold_fulfillment_failed"]
  /\ Resume(p, "idle")
  /\ UNCHANGED <<payment, bot, enabled>>

FulfilmentFailed(p) ==
  /\ At(p, "grantFailed")
  /\ LET o == req[p].order
     IN  UpdateWhere(o, {"FULFILLING"},
           [order[o] EXCEPT !.failure = "gold_fulfillment_failed"])
  /\ Resume(p, "idle")
  /\ UNCHANGED <<payment, bot, enabled>>

-----------------------------------------------------------------------------
(* recordApproved and failOrder, shared by confirm and the webhook.        *)

Record(p) ==
  /\ At(p, "record")
  /\ LET o == req[p].order
         k == req[p].key
     IN  IF order[o].status = "PENDING" /\ KeyTaken(k, o)
           THEN UNCHANGED order /\ Resume(p, "idle")
           ELSE /\ UpdateWhere(o, {"PENDING"},
                     [order[o] EXCEPT !.status = "PAID", !.key = k, !.failure = None])
                /\ Resume(p, "reread")
  /\ UNCHANGED <<payment, bot, enabled>>

\* confirm compares the key it was given with the row it has just re-read.
Reread(p) ==
  /\ At(p, "reread")
  /\ LET row == order[req[p].order]
     IN  Resume(p, IF p \in Confirmers /\ row.key # req[p].key
                     THEN "idle" ELSE FulfilStep(row.status))
  /\ UNCHANGED <<order, payment, bot, enabled>>

FailOrder(p) ==
  /\ At(p, "fail")
  /\ LET o == req[p].order
     IN  UpdateWhere(o, {"PENDING"},
           [order[o] EXCEPT !.status = "FAILED", !.failure = "verification"])
  /\ Resume(p, "idle")
  /\ UNCHANGED <<payment, bot, enabled>>

-----------------------------------------------------------------------------
(* confirm: the payment success page sends the order and the key Toss gave *)
(* it.  The amount in the request has to be the order's price: a request   *)
(* with another amount is refused at once and is not a step here.          *)

FirstConfirmStep(o, k) ==
  LET row == order[o]
  IN  IF row.status = "COMPLETED" THEN "idle"
      ELSE IF o \notin ValidOrders THEN "fail"
      ELSE IF row.status = "PENDING" THEN "duplicate"
      ELSE IF row.key = k THEN FulfilStep(row.status)
      ELSE "idle"

ConfirmRead(c, o, k) ==
  /\ At(c, "idle")
  /\ FirstConfirmStep(o, k) # "idle"
  /\ Begin(c, o, k, FirstConfirmStep(o, k), None)
  /\ UNCHANGED <<order, payment, bot, enabled>>

ConfirmDuplicate(c) ==
  /\ At(c, "duplicate")
  /\ Resume(c, IF KeyTaken(req[c].key, req[c].order) THEN "idle" ELSE "verify")
  /\ UNCHANGED <<order, payment, bot, enabled>>

\* verifyPayment: Toss captures the payment, or repeats under the Idempotency-Key
\* confirm_<orderId> the answer it gave before.
TossConfirm(c) ==
  LET o == req[c].order
      k == req[c].key
  IN  /\ At(c, "verify")
      /\ payment[k].order = o /\ Amount[k] = Price[o]
      /\ \/ /\ payment[k].status = "IN_PROGRESS"
            /\ \A other \in PaymentsOf(o) : ~Captured(other)
            /\ payment' = [payment EXCEPT ![k].status = "DONE"]
         \/ /\ Captured(k)
            /\ UNCHANGED payment
      /\ Resume(c, "record")
      /\ UNCHANGED <<order, bot, enabled>>

\* A payment of order o that mapPayment does not read as approved: whatever else Toss
\* says of it, one that waits for its capture included, confirm fails the order.
Declined(o, k) ==
  /\ payment[k].order = o /\ Amount[k] = Price[o]
  /\ Verdict(payment[k].status) # "approved"

\* Faulty: any payment Toss answers with is taken for an approved one.
AcceptDeclined(c) ==
  /\ At(c, "verify")
  /\ Declined(req[c].order, req[c].key)
  /\ Resume(c, "record")
  /\ UNCHANGED <<order, payment, bot, enabled>>

\* Toss answers with the payment as it is, and that is not approved.
TossDecline(c) ==
  /\ At(c, "verify")
  /\ Declined(req[c].order, req[c].key)
  /\ Resume(c, "fail")
  /\ UNCHANGED <<order, payment, bot, enabled>>

-----------------------------------------------------------------------------
(* reconcileTossWebhook: Toss announces a change of the payment k of order *)
(* o, late, twice or out of order; the handler reads the row, asks Toss    *)
(* for the payment, and acts on the row it read before it asked.           *)

WebhookRead(w, o, k) ==
  /\ At(w, "idle")
  /\ payment[k].order = o
  /\ o \in ValidOrders
  /\ Begin(w, o, k, "lookup", order[o].status)
  /\ UNCHANGED <<order, payment, bot, enabled>>

\* Faulty: the approval of a PENDING order is left to confirm.
ReconcileLeavesApproval(verdict, seen) ==
  CASE verdict = "approved"                                  -> FulfilStep(seen)
    [] verdict = "cancelled" /\ seen \in {"PENDING", "PAID"} -> "withdraw"
    [] verdict = "failed" /\ seen = "PENDING"                -> "fail"
    [] OTHER                                                 -> "idle"

\* Faulty: a PAID order is withdrawn unless its payment has failed.
ReconcileWithdrawsPaid(verdict, seen) ==
  CASE verdict = "approved" /\ seen = "PENDING"              -> "record"
    [] verdict = "approved" /\ seen = "FULFILLING"           -> "grant"
    [] verdict # "failed" /\ seen = "PAID"                   -> "withdraw"
    [] verdict = "cancelled" /\ seen = "PENDING"             -> "withdraw"
    [] verdict = "failed" /\ seen = "PENDING"                -> "fail"
    [] OTHER                                                 -> "idle"

ReconcileStep(verdict, seen) ==
  CASE verdict = "approved" /\ seen = "PENDING"              -> "record"
    [] verdict = "approved" /\ seen # "PENDING"              -> FulfilStep(seen)
    [] verdict = "cancelled" /\ seen \in {"PENDING", "PAID"} -> "withdraw"
    [] verdict = "failed" /\ seen = "PENDING"                -> "fail"
    [] OTHER                                                 -> "idle"

TossLookup(w) ==
  LET o == req[w].order
      k == req[w].key
  IN  /\ At(w, "lookup")
      /\ k \in LookupResults(o)
      /\ Amount[k] = Price[o]
      /\ Resume(w, ReconcileStep(Verdict(payment[k].status), req[w].seen))
      /\ UNCHANGED <<order, payment, bot, enabled>>

\* Faulty: the cancellation is written over whatever the row has become.
WithdrawAnyStatus(w) ==
  /\ At(w, "withdraw")
  /\ order' = [order EXCEPT ![req[w].order].status = "CANCELLED",
                           ![req[w].order].failure = None]
  /\ Resume(w, "idle")
  /\ UNCHANGED <<payment, bot, enabled>>

\* Faulty: a paid order becomes REFUNDED, a status the code never writes.
WithdrawRefunds(w) ==
  /\ At(w, "withdraw")
  /\ LET o == req[w].order
     IN  UpdateWhere(o, {req[w].seen}, [order[o] EXCEPT !.failure = None,
           !.status = IF order[o].status = "PAID" THEN "REFUNDED" ELSE "CANCELLED"])
  /\ Resume(w, "idle")
  /\ UNCHANGED <<payment, bot, enabled>>

Withdraw(w) ==
  /\ At(w, "withdraw")
  /\ LET o == req[w].order
     IN  UpdateWhere(o, {req[w].seen},
           [order[o] EXCEPT !.status = "CANCELLED", !.failure = None])
  /\ Resume(w, "idle")
  /\ UNCHANGED <<payment, bot, enabled>>

-----------------------------------------------------------------------------
(* cancel.  With Toss it calls provider.cancelPayment only for a row that  *)
(* has a key, and no PENDING row has one: the call is never reached.       *)

CancelRead(x, o) ==
  /\ At(x, "idle")
  /\ order[o].status = "PENDING" /\ order[o].key = None
  /\ Begin(x, o, None, "cancel", None)
  /\ UNCHANGED <<order, payment, bot, enabled>>

\* A plain update: it names the row, not the status it was read with.
CancelWrite(x) ==
  /\ At(x, "cancel")
  /\ LET o == req[x].order
     IN  order' = [order EXCEPT ![o].status = "CANCELLED", ![o].failure = None]
  /\ Resume(x, "idle")
  /\ UNCHANGED <<payment, bot, enabled>>

-----------------------------------------------------------------------------
(* What ends a request early: an answer that throws (a lost or refused call *)
(* to Toss, a mismatched payment, a database error) or the instance dying.  *)

Throw(p) ==
  /\ ~At(p, "idle")
  /\ Resume(p, "idle")
  /\ UNCHANGED <<order, payment, bot, enabled>>

\* The operator turns fulfilment on: a new deployment, no request survives.
Deploy ==
  /\ ~enabled
  /\ enabled' = TRUE
  /\ req' = [p \in Requests |-> Idle]
  /\ UNCHANGED <<order, payment, bot>>

-----------------------------------------------------------------------------
(* External: the checkout window and Toss, and the game bot.               *)

\* The user authenticates a payment in the checkout window; a second window
\* for the same order gets a key of its own.
Authenticate(o, k) ==
  /\ payment[k].status = "NONE"
  /\ \A other \in PaymentsOf(o) : ~Captured(other)
  /\ payment' = [payment EXCEPT ![k] = [order |-> o, status |-> "IN_PROGRESS"]]
  /\ UNCHANGED <<order, req, bot, enabled>>

Abort(k) ==
  /\ payment[k].status = "IN_PROGRESS"
  /\ payment' = [payment EXCEPT ![k].status = "ABORTED"]
  /\ UNCHANGED <<order, req, bot, enabled>>

\* The merchant refunds the payment at Toss.
Refund(k) ==
  /\ payment[k].status = "DONE"
  /\ payment' = [payment EXCEPT ![k].status = "CANCELED"]
  /\ UNCHANGED <<order, req, bot, enabled>>

\* The bot handles a grant request, however late, once per order id.
BotGrant(o) ==
  /\ o \in asked \ granted
  /\ granted' = granted \union {o}
  /\ UNCHANGED <<order, req, payment, asked, enabled>>

-----------------------------------------------------------------------------
Fulfilment(p) ==
  \/ StartFulfilment(p) \/ RereadStarted(p) \/ AskGrant(p) \/ GrantReply(p)
  \/ GrantError(p) \/ Complete(p) \/ FulfilmentFailed(p)

Approval(p) == Record(p) \/ Reread(p) \/ FailOrder(p)

Confirm(c) ==
  \/ \E o \in Orders, k \in Keys : ConfirmRead(c, o, k)
  \/ ConfirmDuplicate(c) \/ TossConfirm(c) \/ TossDecline(c)
  \/ Approval(c) \/ Fulfilment(c)

Webhook(w) ==
  \/ \E o \in Orders, k \in Keys : WebhookRead(w, o, k)
  \/ TossLookup(w) \/ Withdraw(w) \/ Approval(w) \/ Fulfilment(w)

Cancel(x) == CancelWrite(x) \/ \E o \in Orders : CancelRead(x, o)

External ==
  \/ \E o \in Orders, k \in Keys : Authenticate(o, k)
  \/ \E k \in Keys : Abort(k) \/ Refund(k)
  \/ \E o \in Orders : BotGrant(o)

Next ==
  \/ \E c \in Confirmers : Confirm(c)
  \/ \E w \in Webhooks : Webhook(w)
  \/ \E x \in Cancellers : Cancel(x)
  \/ \E p \in Requests : Throw(p)
  \/ Deploy
  \/ External

Spec == Init /\ [][Next]_vars

\* Toss tells webhook w of the captured payment of an order with one of these statuses.
Notify(w, o, statuses) ==
  /\ order[o].status \in statuses
  /\ \E k \in Keys : payment[k].status = "DONE" /\ WebhookRead(w, o, k)

\* Toss repeats a notification as long as no handler has answered it with 200, and one
\* repetition is not lost.  A handler that answers 200 has left the order recorded,
\* and, where the deployment has handed out gold all along, completed; without
\* fulfilment it answers 200 for a PAID order too, and nobody repeats that one.
Redelivery(w) ==
  /\ \A o \in Orders : SF_vars(Notify(w, o, {"PENDING"}))
  /\ enabled => \A o \in Orders : SF_vars(Notify(w, o, {"PENDING", "PAID", "FULFILLING"}))

\* Each call a handler makes may fail any number of times but not for ever, and no
\* request hangs.  The browser's requests get no fairness: the user may never come back.
Handled(w) ==
  /\ SF_vars(TossLookup(w)) /\ SF_vars(Record(w)) /\ SF_vars(StartFulfilment(w))
  /\ SF_vars(RereadStarted(w)) /\ SF_vars(AskGrant(w))
  /\ SF_vars(GrantReply(w)) /\ SF_vars(Complete(w))
  /\ WF_vars(Throw(w))

FairSpec ==
  /\ Spec
  /\ \A w \in Webhooks : Redelivery(w) /\ Handled(w)
  /\ \A o \in Orders : WF_vars(BotGrant(o))

-----------------------------------------------------------------------------
(* Properties.                                                             *)

TypeOK ==
  /\ order \in [Orders -> Row]
  /\ req \in [Requests -> Request]
  /\ payment \in [Keys -> Payment]
  /\ asked \subseteq Orders
  /\ granted \subseteq asked
  /\ enabled \in BOOLEAN

\* The payment behind k is a captured payment of order o, for o's price.
PaidBy(o, k) ==
  k \in Keys /\ payment[k].order = o /\ Captured(k) /\ Amount[k] = Price[o]

\* Gold leaves the bot, or is on its way, only for a valid order that a captured
\* payment of exactly its price has paid, whatever was lost, repeated, raced or
\* cancelled on the way (confirm and webhook checks before fulfill).
GoldIsPaidFor ==
  \A o \in asked : o \in ValidOrders /\ PaidBy(o, order[o].key)

\* A row that claims to be paid carries the key of the payment that paid it, so
\* no payment ever pays two orders (recordApproved).
PaidRowsMatchToss ==
  \A o \in Orders :
    /\ order[o].key # None => PaidBy(o, order[o].key)
    /\ order[o].status \in {"PAID", "FULFILLING", "COMPLETED"} => order[o].key # None

\* The failure code never contradicts the status, even when the catch block of a
\* slow request runs after another request has completed or cancelled the order,
\* and a COMPLETED order is one the bot has really served, with its balance.
StatusTellsTheTruth ==
  \A o \in Orders :
    LET row == order[o]
    IN  /\ row.failure = "verification" <=> row.status = "FAILED"
        /\ row.failure = "gold_fulfillment_failed" => row.status = "FULFILLING"
        /\ row.status = "COMPLETED" => o \in granted
        /\ row.gold # None => o \in granted

\* The key that paid an order, and the balance a completed order reports, are
\* written once: a slow request never replaces those of a faster one.
WrittenOnce ==
  [][\A o \in Orders :
       /\ order[o].key # None => order'[o].key = order[o].key
       /\ order[o].gold # None => order'[o].gold = order[o].gold]_order

\* README.md:264: every status is reached by a move of the lifecycle, whatever the
\* row was when the request that writes it read it; the user's cancel alone
\* writes over any status.
Moves == {<<"PENDING", "PAID">>, <<"PENDING", "FAILED">>, <<"PENDING", "CANCELLED">>,
          <<"PAID", "CANCELLED">>, <<"PAID", "FULFILLING">>, <<"FULFILLING", "COMPLETED">>}

UserCancels(o) == \E x \in Cancellers : req[x].order = o /\ CancelWrite(x)

StatusesMoveForward ==
  [][\A o \in Orders :
       order'[o].status # order[o].status =>
         \/ <<order[o].status, order'[o].status>> \in Moves
         \/ UserCancels(o)]_vars

\* payments.service.ts:249-256: a paid order is withdrawn only when the very payment
\* that paid it has been refunded at Toss, though the webhook that withdraws it
\* looked the payment up before and names no key.
OnlyRefundsAreWithdrawn ==
  [][\A o \in Orders :
       order[o].status = "PAID" /\ order'[o].status = "CANCELLED" =>
         \/ payment[order[o].key].status = "CANCELED"
         \/ UserCancels(o)]_vars

\* README.md:264: seen from the rows and the ledger, the orders live the
\* lifecycle of OrderLifecycle.
Lifecycle == INSTANCE OrderLifecycle WITH status <- [o \in Orders |-> order[o].status]
FollowsLifecycle == Lifecycle!Spec

\* payments.service.ts:276-277: an order that has left PENDING cannot be
\* cancelled by its user; a completed one in particular stays as it is.
CompletedIsFinal ==
  [][\A o \in Orders : order[o].status = "COMPLETED" => order'[o] = order[o]]_order

\* README.md:266: the webhook brings the row in step with Toss, so an order whose
\* payment is captured and not refunded is never left failed or cancelled.
CapturedIsNeverAbandoned ==
  \A o \in Orders, k \in Keys :
    payment[k].order = o /\ payment[k].status = "DONE" /\ Amount[k] = Price[o]
      /\ o \in ValidOrders
      => order[o].status \notin {"FAILED", "CANCELLED"}

\* README.md:264 (a failed grant is retried safely under the same order id): on a
\* deployment that has handed out gold from the beginning, a paid order whose payment
\* is not refunded is completed in the end, though every call may fail and the
\* browser be gone.  (An order paid before fulfilment was turned on is not taken up.)
PaidIsCompleted ==
  enabled => \A o \in Orders :
    order[o].status \in {"PAID", "FULFILLING"}
      ~> \/ order[o].status = "COMPLETED"
         \/ \E k \in PaymentsOf(o) : payment[k].status = "CANCELED"

\* README.md:266 (the webhook brings the row in step with Toss): a valid order
\* whose payment Toss has captured does not stay PENDING, although confirm may
\* have lost Toss's answer or never run.
CaptureIsRecorded ==
  \A o \in ValidOrders, k \in Keys :
    payment[k] = [order |-> o, status |-> "DONE"] /\ Amount[k] = Price[o]
      ~> order[o].status # "PENDING" \/ payment[k].status = "CANCELED"
=============================================================================
