# Formal models of iris_homepage

The repository is the website of a chat-bot RPG: a NestJS API (`apps/api`), a
Next.js front end (`apps/web`) and a Prisma/PostgreSQL schema
(`packages/database`). Players log in by typing a code into the chat, see their
characters, and buy gold through Toss Payments, which the game bot then hands
out. The modules here model the parts in which concurrent requests,
lost answers and retries decide whether money and identities stay right: payment
orders and the limiter before them, the device login, and the pages that drive the
login, the purchase and the dashboard. File names below are relative to `src/apps/api/src`
unless they begin with `apps` or `packages`.

## 1. Inventory

| component | state | operations | what is hard | what makes it correct |
|---|---|---|---|---|
| order creation, `payments/payments.service.ts` | `payment_orders` | `createOrder`, `replayOrder` | two calls with one idempotency key; answers lost | one order per key, all answers agree |
| order lifecycle, `payments/payments.service.ts` | `payment_orders`, Toss's payments, the bot's ledger | `confirm`, `cancel`, `reconcileTossWebhook`, `fulfillApprovedOrder` | confirm, webhook, cancel and grant interleave; every outside call may fail after taking effect | gold only against a captured payment; the row is true; paid orders complete |
| Toss provider, `payments/toss-payments.provider.ts` | none of its own | `verifyPayment`, `lookupPayment`, `cancelPayment` | an answer that is not captured yet; a lost answer | verdict matches Toss's payment |
| gold client, `payments/gold-fulfillment.client.ts` | none of its own | `fulfill` | a time-out does not withdraw the request | nothing granted twice, nothing unpaid granted |
| device login, `auth/auth.service.ts`, `auth/auth.controller.ts` | `web_login_requests`, `web_accounts`, `web_sessions`, two cookies | `start`, `restart`, `poll`, `approve`, `complete`, `cancel`, `me`, `logout`, `cleanup` | tabs, two players on one code, a status read and used later | sessions stem from approvals, browsers are isolated |
| connect page, `apps/web/app/connect/page.tsx` | view, shown request, the effect that polls, three refs | initialise, poll loop, renew, cancel, sign out | answers that arrive after the shown request was replaced, before or after its effect is cleaned up | an approved request is completed, and only the one that is drawn |
| home page, `apps/web/app/page.tsx`, `apps/web/lib/dashboard-refresh.ts` | who is logged in, data shown, refresh effect, one request in flight | refresh, sign out | an effect that is late to start and to be cleaned up, answers of different ages | what is shown never gets older; nothing loads for ever |
| shop page, `apps/web/app/shop/page.tsx` | storefront, selected product, consent, busy flag | load, open, accept, purchase, sign out | the price policy changes under the page; a purchase outlives its page | the user pays for what he was shown; one purchase at a time |
| Toss SDK loader, `apps/web/lib/toss-payments.ts` | script element, shared promise, one request per window | load, open the window | a script whose events are long past, a time-out racing it | nobody waits for ever, a retry may succeed |
| payment result pages, `apps/web/app/payment` | shown order | confirm once, list | page reloaded, page never opened | none of its own |
| rate limiter, `infrastructure/redis.service.ts` | one counter per subject in Redis, one connection | `consumeRateLimit` | INCR and EXPIRE are two commands; the connection is never opened again | limits hold; no subject is locked out unless an EXPIRE is lost |
| portal proxy, `portal/portal.service.ts` | a cache nobody is served from | `dashboard` | time-outs | an answer belongs to the session that asked |
| gold products, `payments/payment-products.ts` | none | price check, gold of a price | the page repeats the rules with a policy it was given | page and server agree or the purchase stops |
| configuration, HTTP plumbing, notices, rankings, admin, health, display helpers, static pages | none that changes | pure functions and read-only queries | | |

How they interact. The browser talks to the API only by HTTP with two HttpOnly
cookies; the chat bot calls `POST /internal/auth/device/approve`; the payment
handlers find the player through the session cookie (`requireBotUid`), call Toss
and the bot, and are called back by Toss's webhook. The call to the bot has a time-out
(`gold-fulfillment.client.ts:37-39`); that to Toss has none of its own
(`toss-payments.provider.ts:137-143` passes no signal) and ends by the default time-outs of
Node's `fetch`. The login calls of the page have one of ten seconds (`authApi`), its
other calls none. Nothing but the database is shared between requests: there is no lock,
and each conditional `updateMany` or transaction is the only atomic unit. So in every
module a handler is a process whose awaited calls are separate actions.

`PROJECT.json` lists each component with its status, and under `hazards` the
lines at which a step can go wrong in a way a unit test would hardly reach.

## 2. Modules

| module | role |
|---|---|
| `OrderLifecycle` | abstract specification of an order: pending, paid, fulfilling, completed, with the bot's ledger |
| `PaymentOrders` | the handlers of `payments.service.ts` with Toss and the bot around them |
| `MCPaymentOrders` | prices and amounts for TLC |
| `PaymentOrdersProofs`, `PaymentLifecycleProofs` | proofs about `PaymentOrders` |
| `WebLogin` | abstract specification of a login: who approves a request and what it opens |
| `LoginRequests` | abstract specification of a login request and its session, one step for each write: implemented by `DeviceLogin` and by `ConnectPage` |
| `DeviceLogin` | the handlers of `auth.service.ts` and the cookies of `auth.controller.ts` |
| `MCDeviceLogin` | the symmetry set for TLC |
| `DeviceLoginProofs`, `DeviceLoginSafetyProofs` | proofs about `DeviceLogin` |
| `ConnectPage`, `MCConnectPage` | the login page in the tabs of one browser, with the calls it makes |
| `ConnectPageProofs` | proofs about `ConnectPage` |
| `OrderBook` | abstract specification of an idempotency key: what is asked, the order that it places, the answers |
| `OrderCreation`, `OrderCreationProofs` | `createOrder` with its idempotency key |
| `RateLimit` | `consumeRateLimit`: INCR, EXPIRE and the connection |
| `OrderRequests`, `MCOrderRequests` | `POST /payments/orders`: `RateLimit` and `OrderCreation` composed |
| `OrderRequestsProofs` | proofs about the composition |
| `GoldProducts` | the price policy, on the server and on the page |
| `PortalProxy` | the session and the dashboard's answers, as the pages see them |
| `HomePage` | the home page: log-in state and refresh effect |
| `ShopPage` | the shop, its purchases and the SDK loader |
| `WebApp`, `MCWebApp` | one tab that shows the home page, the shop or another page: the two composed |
| `WebAppProofs` | proofs about `WebApp` |

Operators commented `Faulty:` are variants of the action that follows them, in
which the code has a plausible bug; they are no part of a specification and are
listed as mutants in `PROJECT.json`, each with the property that notices it.

### PaymentOrders

| variable | code |
|---|---|
| `order` | rows of `payment_orders`: `status`, `providerPaymentKey`, `failureCode`, `goldBalanceAfter` |
| `req` | the local variables of each request in progress and the awaited call it stands at |
| `payment` | Toss's payments, by payment key |
| `asked`, `granted` | gold requests that have left the API; those the bot has executed |
| `enabled` | `PAYMENT_FULFILLMENT_ENABLED`; `Deploy` turns it on and never off |

One action per awaited call: `ConfirmRead`, `ConfirmDuplicate`, `TossConfirm`,
`TossDecline` are `confirm`; `WebhookRead`, `TossLookup`, `Withdraw` the webhook;
`CancelRead`, `CancelWrite` the user's cancel; `Record`, `Reread`, `FailOrder` are
`recordApproved` and `failOrder`; `StartFulfilment` to `FulfilmentFailed` are
`fulfillApprovedOrder`. `Throw` lets any request stop at any awaited call: the
process dies, the database fails, or Toss's answer is lost after Toss has
acted. `TossDecline` is any answer that does not carry the verdict approved: a payment
that was aborted or cancelled, or one that is still IN_PROGRESS, which stands for every
status before the capture, WAITING_FOR_DEPOSIT among them (PARTIAL_CANCELED is CANCELED: `mapPayment` treats the
two alike). `Authenticate`, `Abort`, `Refund` and `BotGrant` are external: the
user in Toss's window, the shop's staff in Toss's dashboard, the bot. A grant the client gave up on
(`GrantError`) stays in `asked` and may still be executed.

Abstracted: the audit rows (`audit` swallows its errors and nothing reads them),
formats and lengths, the `approvedAt` check, customer keys. An order
whose stored row fails `isValidStoredGoldOrder` is one outside `ValidOrders`.
The disabled provider refuses every call before a table is touched, and the
mock provider exists for tests, so `provider` is Toss. That is the sandbox
only: `payment.config.ts:41` refuses Toss in production.

### DeviceLogin

| variable | code |
|---|---|
| `request` | rows of `web_login_requests`: `status`, `approvedBotUid`, and whether `expiresAt` has passed |
| `session` | rows of `web_sessions`, with the request each was opened by |
| `account` | rows of `web_accounts` |
| `jar` | the pending and the session cookie of each browser |
| `held` | the requests whose device secret a page of the browser was given |
| `call` | each call in progress: what it has read and the step it stands at |
| `approvedBy`, `dismissed` | history: what the bot and the browser were told |

A call reads its cookies when it begins and writes them when its answer arrives
(`StartReply`, `CompleteReply`, `CancelReply`, `LogoutReply`); calls of other tabs
run in between. `approve` reads and updates in a transaction, which at
PostgreSQL's default READ COMMITTED does not keep two transactions from both
reading PENDING: `Approve`, the conditional update `ApproveCommit` and, when that has
matched no row, the re-read `ApproveReread` are three actions. `complete`'s
transaction writes only after its conditional update has claimed the row, so all
of it takes effect in `CompleteCommit`. `Throw` loses a call or its answer, also
after the commit. `Environment` lets requests and sessions expire, an operator
suspend an account and a browser drop its cookies. `me` writes only `lastSeenAt`,
which nothing reads, and is not an action. A deleted row keeps its data under
the status DELETED, so that the properties can still speak of it.

HMACs are abstracted to knowledge: a browser knows a request's secret (`held`)
or cannot name it. `cleanup` deletes rows that are long past; the calls that hold
one have ended by then (rows are kept for seven days unless configured
otherwise, a call lasts seconds).

### ConnectPage

| variable | code |
|---|---|
| `request`, `live` | the API's requests (status, expired or not) and live sessions |
| `cookie` | the browser's pending and session cookie, shared by its tabs |
| `page` | per tab, `view` and `deviceRequest` (`shown`) as they were last set; what React has drawn of them: the buttons (`screen`) and the request whose effect is active (`effect`); whether that effect is about to poll; `completingRef`; the `approvedUid` |
| `calls` | the calls on their way, with their answers |

A call is sent by the page, takes effect at the API in one step (`Serve`; its inside
is `DeviceLogin`'s subject) and is heard of (`HearMe` to `HearLogout`). What is heard
may be an error whatever the API did: `authApi`'s time-out or a lost answer. The call
is then gone or, if its kind is one of `LateKinds`, goes on as one of `Late` (`Left`), and
may still reach the API and set cookies (`Drop`).

`setDeviceRequest` (`Showing`, `Cleared`) changes what the page will show. The buttons and the
effect of the request before stay, with `active` true and its timer running, until
`Draw`, in which React commits the new state and flushes the effects: the old one is
cleaned up and that of the new request polls at once. Any answer, timer or click may come
between the two. An effect that was torn down is one for a request other than
`effect` (`Active`): a page is never given one request twice. React commits first and
flushes the effects a moment later. The model takes both in one step: an answer or a timer in
that moment finds the old effect as it was before the commit, and the only thing left out is a
click on the new buttons before the old effect is cleaned up. `Load` is a new page.

That one step per call at the API is enough is
no assumption: requests and sessions change in both modules as `LoginRequests`
says. `DeviceLogin`, in which another call may run between any two statements, sees them
through the status, the expiry and the live sessions of its tables; here
`Stored` names the status as the table does, in capitals, and `restart`, one step here and two
there, is its `Renew`. `renewingRef` is a restart on its
way. The page tests an expiry by its own clock, which is taken to agree with the API's.

### OrderCreation

`order` is the table as `createOrder` fills it in, `call` the calls in progress,
`answered` what was asked and which order the answer named. `Read` is the
look-up by key, `Insert` the `create` that may fail with P2002 on the unique
index, `Reread` the second look-up, `Answer` the reply. A price stands for price
and gold. Through `Entries`, the orders with what each was asked for, the module is
seen as `OrderBook`. With Toss `createPayment` only builds the checkout and never
throws, so the branch that writes `provider_create_failed` is not reached.
`PaymentOrders` takes the orders from there on, each PENDING.

### RateLimit and OrderRequests

| variable | code |
|---|---|
| `counter` | each key's value in Redis, 0 for no key, and whether it has a time to live |
| `redis` | the state of the API's one ioredis connection: `lazyConnect`, `retryStrategy: () => null` |
| `gate` | how far a call has got in `create` of `payments.controller.ts` before `createOrder` |
| `windows`, `lost` | history: how often a counter was begun, which counters lost their EXPIRE |

`Arrive` is the INCR for the address, `CountAccount` that for the account, `Expire` the
EXPIRE that only the first call of a window makes, `Admit` the beginning of
`createOrder`, whose later actions follow under `Create`. `GiveUp` lets a call end
anywhere: Redis refuses the command, or the process stops. `WindowEnds` is Redis
dropping a key, `Disconnect` and `Reconnect` (a restart) the connection. A count above
the limit is as good as any other, so it is cut off at limit + 1. `OrderRequests`
extends `OrderCreation`, and a theorem says that its steps are steps of that module.

### HomePage, ShopPage and WebApp

| variable | code |
|---|---|
| `session` | whether the browser's session cookie names a live session |
| `game` | the version of the player's data at the bot |
| `home` | the home page: `auth`, `dashboard`, the sign-out on its way, and of the refresh effect whether it is active, `requestInFlight`, whether `lastRequestedAt` is less than a second ago, and its requests |
| `policy` | `PAYMENT_POLICY` of the API that is deployed |
| `shop` | the shop: `auth`, `storefront`, `portal`, `selectedProduct`, `accepted`, `busy`, the sign-out on its way |
| `script`, `loading` | the script element of Toss's SDK and whether `sdkPromise` is pending; both belong to the document |
| `purchase` | each run of `purchase()`: the awaited call it stands at, what was shown, what was ordered, whether its page is still there, and how often Toss was asked |

On the home page React commits a state first and runs effects later, so `StartEffect`
and `CleanUpEffect` are steps of their own, after those that log the user in and out.
`Send`, `ServeHome` and `HearHome` are a request of the effect; `Slots` has more places
than the code means to use. In the shop `Click` to `PressPay` are one purchase. It goes
on when its page is left (`Leave`), since links do not load the document; only `Unload`
ends it. `Load` is `loadTossPayments`: it uses the SDK, shares the promise or makes
one; `ScriptLoads` and `LoadTimeout` settle it. `Deploy` changes the price policy under a
page that goes by the one it was given, so `AsQuoted`, the comparison at
`shop/page.tsx:154-160`, has something to do.

What the API says is one step: `AuthAnswers`, `DashboardAnswers`, `OrderAnswers`. A page
takes a failed `me` for a guest. Of a player's data only its version is kept.

## 3. Runs

| run | instance | distinct states | what it shows |
|---|---|---|---|
| `payment_cancel` | 2 orders (one invalid), 2 keys (one of the wrong amount), 2 balances, 2 confirmations, 1 webhook, 1 cancel | 5,452,684 | `TypeOK`, `GoldIsPaidFor`, `PaidRowsMatchToss`, `StatusTellsTheTruth`, `WrittenOnce`: gold only against a captured payment, rows tell the truth, keys and balances are written once, the user's cancel in the race; `StatusesMoveForward`: every change of a status, stale reads and all, follows the status it finds, but for that cancel |
| `payment_liveness` | 1 order, 2 keys, 1 confirmation, 1 webhook, fairness | 18,246 | `PaidIsCompleted`, `CaptureIsRecorded`, `FollowsLifecycle`: the handlers implement `OrderLifecycle`; `OnlyRefundsAreWithdrawn`: a webhook withdraws a paid order only after the refund of the payment that paid it |
| `payment_cancel_race` | as `payment_liveness`, with 1 cancel, no fairness | violation | finding 1 |
| `payment_abandoned` | as `payment_liveness`, no fairness | violation | finding 2 |
| `device_login` | 2 browsers, 1 player, 2 requests, sessions and calls, 1 approval | 2,121,661 | `TypeOK`, `SessionsAreApproved`, `BrowsersAreIsolated`, `DismissedOpensNothing`, `ImplementsWebLogin` with two tabs |
| `device_approvals` | 2 browsers, 2 players, 2 requests and sessions, 1 call, 2 approvals | 1,796,040 | `SessionsAreApproved`, `ApprovalIsKept`, `ImplementsWebLogin`, `ImplementsLoginRequests` with two players on one code |
| `connect_page` | 1 tab, 1 late call (restart, complete or cancel), 2 requests | 4,350,802 | `TypeOK`, `OneLoop`, `SuccessIsALogin`, `CompletesWhatIsDrawn` |
| `connect_liveness` | 1 tab, 2 requests, fairness | 428,052 | `ApprovalIsNoticed`, `BusyEnds`, `ImplementsLoginRequests` |
| `connect_renewal` | 2 tabs, 3 requests | violation | finding 3 |
| `order_requests` | 2 orders, 2 keys, 2 accounts at 1 address, 2 calls; limits 1 and 2; 3 windows | 1,716,992 | `GateTypeOK`, `OneOrderPerKey`, `AnswersAgree`, `OrdersWithinLimit`, `CountersExpire`, `ImplementsOrderBook` |
| `web_app` | 2 request places, 2 prices, 2 policies, 2 purchases, 1 change of the game, fairness | 473,580 | `TypeOK`, `QuoteIsHonoured`, `BusyIsOnePurchase`, `NobodyWaitsInVain`, `NeverGoesBack`, `LoadingEnds`, `RequestEnds`, `PurchaseEnds` |
| `web_signout` | 1 of each, 2 policies | violation | finding 4 |

Two counters are capped. `MaxWindows` is the most `windows` counts, a history
variable: once a counter has been begun so often, `OrdersWithinLimit` says nothing of it.
With 3, two full windows of the account's limit 1 are seen, one after the other;
the theorem holds for every cap. `MaxGame` is how often the game's data changes: one
change is enough for an answer that is older than another. No state constraint is used.
Ids, keys and tokens are finite sets, and everything else is bounded by them. A process
in these sets is a slot: a request that has answered may begin again, so one confirmation
slot stands for any number of confirmations one after the other, two for those that
overlap in pairs.

Why these bounds. Every bad step looked for needs two handlers on one row, one of
which acts on what it read before the other wrote: hence two
overlapping requests. In `payment_cancel` the second order is one whose stored row is
invalid, and the second key a payment of the wrong amount; the two orders do not compete
for a key, since Toss answers for a payment with the order it belongs to, so the
duplicate check of `confirm` (`KeyTaken`) never decides there. In `payment_liveness` the second key
is there because an order may have a payment that failed before one that succeeds, or a
refunded one beside it. A second balance is needed because a slow
reply may report another one. A second login request is needed for `restart`, a
second session for "a request opens two", a second browser only for isolation, a second
player for two approvals of one code. In `order_requests` two calls with one key make an
order too many if they can, and two accounts behind one address fill the address's
counter before their own; one price is enough, since a key that is used again for something else is
seen with another account. In `web_app` two request places show that one is
never needed, two purchases that a page has one; the two policies overlap in
one price that buys different gold, and the price 7 belongs to neither.
The late calls of `connect_page` are of the kinds that change a request the browser still has
or set a cookie after the page has gone on; a late `start` does less than a late `restart`, a
late `logout` clears cookies as a late `complete` does, and a late `poll` can only mark an
expired request as such.
The theorems of section 5 lift the safety properties to every size.

Symmetry is declared where the specification only compares the members of
a set for equality: all sets of `DeviceLogin` and `OrderRequests`, and those of `ConnectPage` but in its
liveness run. The properties of
those runs are invariants and `[][A]_v` formulas, for which the reduction is sound. The
payment runs use none: there `Price` and `Amount` tell ids apart. Neither does `web_app`,
which checks liveness.

Larger instances were run by hand, with no error: `payment_cancel` with one order, two
confirmations, two webhooks and a cancel (19.9 million states), and with three keys, two
valid orders, one confirmation, one webhook and a cancel (15.3 million); `device_login` with
two approvals, two calls and one session (4.1 million); `connect_page` with late calls of every kind but
`me` (8.5 million), and `ImplementsLoginRequests` on its instance; `OrderCreation` by itself with
three orders, two prices and three calls.

Deadlock checking is on in every run: the system never stops, since a handler can
always begin or the process can stop it.

### Fairness

In `payment_liveness` the browser gets none: `confirm` may
never be called and a call in progress may stop. Toss repeats a
notification that was not answered with 200. For a PENDING order whose payment is captured
the handler answers otherwise until the capture is recorded, so beginning its webhook is strongly
fair (`Redelivery`). For a PAID or FULFILLING order it answers otherwise until the order is completed
only if fulfilment is enabled: while it is disabled, `fulfillApprovedOrder` returns the
PAID order (`payments.service.ts:367`), the webhook answers 200 (line 267), Toss is content and
nothing takes the order up when a later deployment enables fulfilment. So that part of
`Redelivery`, and `PaidIsCompleted`, are for behaviours in which `enabled` holds from the
beginning; README.md:262 of the repository says that orders stop at paid otherwise. Toss
gives up after a number of repetitions: strong fairness assumes that one of them gets
through.

A call the webhook makes may fail any number of times but not for
ever when it is tried again and again: strong fairness of each such step. Every
call ends at some time, that to the bot by the client's own time-out and that to Toss by those of
Node's `fetch`, so no request hangs: weak fairness of `Throw` (`Handled`). The bot executes a request
that reached it: weak fairness of `BotGrant`. Nothing makes the user pay, the
staff refund or the operator turn fulfilment on.

In `connect_liveness` every login call is answered or fails, since `authApi` aborts
it after ten seconds, and what is settled is heard of: weak fairness of `Settles`, for each
tab and kind of call. A timer fires and React draws what was set: weak fairness of `SendPoll` and
`Draw`. Nobody has to click, approve or load, and requests need not expire. `BusyEnds`
excepts a user who loads the page again and again for ever.

In `web_app` React runs an effect it has scheduled: weak fairness of `StartEffect`. A
request is answered, or the browser gives it up, and is heard of: weak fairness of
`ServeHome` and `HearHome`. `api()` has no time-out of its own, so this is what
the browser and the API's own time-outs are trusted with. The same goes for the call that makes
an order and the SDK's promises for the window (`Shopping`). The ten-second timer
fires: weak fairness of `LoadTimeout`. Nobody has to click, and the SDK's script may
never load, fail or say so.

## 4. Findings

1. `payments.service.ts:276` refuses to cancel an order that is not PENDING, but the
   update at line 291 names the order by id alone. A confirmation that
   completes the order in between is overwritten: `payment_cancel_race` shows an
   order whose gold was handed out and which ends CANCELLED.
2. `toss-payments.provider.ts:44-46` reads every Toss status but DONE and the
   cancelled ones as failed, also a payment that is about to be captured. A webhook that
   looks the payment up just before `confirm` captures it writes FAILED;
   `confirm` then finds no PENDING row, and no later webhook takes a FAILED order up:
   the money is captured and neither gold nor a refund follows. `payment_abandoned`.
3. `apps/web/app/connect/page.tsx:133` tells the user that issuing a new code cancels
   the existing request. `renew` has the API cancel the request of the pending cookie
   instead (`auth.service.ts:90-104`), which the tabs of a browser share: once another tab
   has started, the new code leaves the shown one open and cancels the other tab's.
   `connect_renewal`.
4. `VERCEL_DEPLOYMENT.md:237` lists the hiding of personal data after a sign-out. The
   shop shows the dashboard it asked for whenever the answer comes
   (`apps/web/app/shop/page.tsx:61`), also after `signOut` has cleared the page: the
   player's name, job and gold appear after the sign-out and stay. `web_signout`.
   The home page has the same flaw between its sign-out and React's cleanup of the
   refresh effect.

They are stated as the properties that ought to hold (`CompletedIsFinal`,
`CapturedIsNeverAbandoned`, `RenewalCancelsShown`, `GuestSeesNoDashboard`); the other
properties hold in the presence of all four.

Two more defects are the exceptions that properties make; no text of the repository
promises the contrary, so neither is a finding with a run. One is that of `ApprovalIsNoticed`. When the answer to a
renewal comes between that to a poll that sent `complete` and that to `complete`, the
latter returns at `connect/page.tsx:94` or 99 with `completingRef` still set. The page
then shows a new code, and once that is approved it neither completes it nor polls
again. The other is that of `BusyEnds`. When an approval is heard after `setDeviceRequest`
(line 139 or, by `clearRequest`, 33) and before the cleanup of the effect (line 126), the page sends `complete`
for the request that was just replaced or cancelled and shows 'completing'; its answer then finds
the effect torn down. After a cancel the page stays at 'completing' until it is loaded again;
after a renewal it hides the new code until that expires. The API refuses that `complete` if it was the
request's cancellation that the page had asked for and the API has done it.

## 5. Proofs

TLAPS proves these for every value of the constants, under the assumptions named in
the modules: ids of different kinds are different, `None` is no id, valid orders
are orders, limits and policies are numbers. Nothing is assumed finite but the payment
keys in the one theorem that counts.

| theorem | module | statement |
|---|---|---|
| `TypeCorrect` | `PaymentOrdersProofs` | `Spec => []TypeOK` |
| `GoldIsAlwaysPaidFor` | `PaymentOrdersProofs` | `Spec => []GoldIsPaidFor` |
| `PaidRowsAlwaysMatchToss` | `PaymentOrdersProofs` | `Spec => []PaidRowsMatchToss` |
| `StatusAlwaysTellsTheTruth` | `PaymentOrdersProofs` | `Spec => []StatusTellsTheTruth` |
| `KeyAndBalanceAreWrittenOnce` | `PaymentOrdersProofs` | `Spec => WrittenOnce` |
| `OrdersFollowLifecycle` | `PaymentLifecycleProofs` | `Spec => FollowsLifecycle`, if there is no user's cancel |
| `StatusesAlwaysMoveForward` | `PaymentLifecycleProofs` | `Spec => StatusesMoveForward`, user's cancels included |
| `OnlyRefundsWithdraw` | `PaymentLifecycleProofs` | `Spec => OnlyRefundsAreWithdrawn`, user's cancels included |
| `CompletedStaysWithoutCancels` | `PaymentLifecycleProofs` | `Spec => CompletedIsFinal`, if there is no user's cancel |
| `GoldNeedsAPaymentEach` | `PaymentLifecycleProofs` | `Spec => []`: the bot is asked for the gold of no more orders than payments were captured, if `Keys` is finite |
| `TypeCorrect` | `DeviceLoginProofs` | `Spec => []TypeOK` |
| `ApprovalsAreKept` | `DeviceLoginSafetyProofs` | `Spec => []ApprovalIsKept` |
| `SessionsStemFromApprovals` | `DeviceLoginSafetyProofs` | `Spec => []SessionsAreApproved` |
| `DismissalIsFinal` | `DeviceLoginSafetyProofs` | `Spec => DismissedOpensNothing` |
| `BrowsersStayIsolated` | `DeviceLoginSafetyProofs` | `Spec => []BrowsersAreIsolated` |
| `DeviceLoginImplementsWebLogin` | `DeviceLoginSafetyProofs` | `Spec => ImplementsWebLogin` |
| `HandlersUseLoginRequests` | `DeviceLoginSafetyProofs` | `Spec => ImplementsLoginRequests` |
| `KeysAreUsedOnce` | `OrderCreationProofs` | `Spec => [](TypeOK /\ OneOrderPerKey)` |
| `AnswersAlwaysAgree` | `OrderCreationProofs` | `Spec => []AnswersAgree` |
| `CreationImplementsOrderBook` | `OrderCreationProofs` | `Spec => ImplementsOrderBook` |
| `RequestsCreateOrders` | `OrderRequestsProofs` | `RequestSpec => Spec`: behind the limiter, `createOrder` is called as `OrderCreation` says |
| `RequestsUseKeysOnce`, `RequestsAgree` | `OrderRequestsProofs` | `RequestSpec => []OneOrderPerKey`, `RequestSpec => []AnswersAgree` |
| `RequestsImplementOrderBook` | `OrderRequestsProofs` | `RequestSpec => ImplementsOrderBook` |
| `GateTypeCorrect` | `OrderRequestsProofs` | `RequestSpec => []GateTypeOK` |
| `CountersAlwaysExpire` | `OrderRequestsProofs` | `RequestSpec => []CountersExpire` |
| `OrdersStayWithinLimit` | `OrderRequestsProofs` | `RequestSpec => []OrdersWithinLimit` |
| `TypeCorrect` | `ConnectPageProofs` | `Spec => []TypeOK` |
| `SuccessIsAlwaysALogin` | `ConnectPageProofs` | `Spec => []SuccessIsALogin` |
| `LoopsAreSingle` | `ConnectPageProofs` | `Spec => []OneLoop` |
| `PagesCompleteWhatIsDrawn` | `ConnectPageProofs` | `Spec => CompletesWhatIsDrawn` |
| `PagesUseLoginRequests` | `ConnectPageProofs` | `Spec => ImplementsLoginRequests` |
| `TypeCorrect` | `WebAppProofs` | `Spec => []TypeOK` |
| `QuotesAreHonoured` | `WebAppProofs` | `Spec => []QuoteIsHonoured` |
| `BusyMeansOnePurchase` | `WebAppProofs` | `Spec => []BusyIsOnePurchase` |
| `NobodyEverWaitsInVain` | `WebAppProofs` | `Spec => []NobodyWaitsInVain` |
| `DashboardNeverGoesBack` | `WebAppProofs` | `Spec => NeverGoesBack` |

`OrdersFollowLifecycle` and `CompletedStaysWithoutCancels` assume `Cancellers = {}` because
they are false otherwise: that is finding 1, and `payment_cancel_race` refutes the
property of the second one. `StatusesAlwaysMoveForward` and `OnlyRefundsWithdraw` need no
such assumption: they name the steps of the user's cancel as the one exception.

`HandlersUseLoginRequests` and `PagesUseLoginRequests` together are what justifies the one
step that a call takes in `ConnectPage`: both sides refine one specification.

The inductive invariants, and why the properties need them:

- `TypeInv` adds to `TypeOK` which fields a handler has filled in at each step;
  without it a step that reads a field could read `None`.
- `PaidInv` adds to `GoldIsPaidFor` and `PaidRowsMatchToss` what a handler
  knows between two awaited calls: one about to record has seen a captured payment
  of the exact price for a valid order, one about to ask the bot serves an order
  with a key. Two facts carry it from step to step: `PaymentsKept` (no step
  un-captures a payment) and `KeysKept` (no step takes a key off a row).
- `RowsTruthful` ties status, failure code, balance and the bot's ledger of one row
  together, and `RepliesAreGrants` says that a handler about to complete
  an order has the bot's reply. The former also gives `WrittenOnce`.
- `ServedInv` says that an order taken up for fulfilment stays FULFILLING or
  COMPLETED, which makes every conditional update one move of `OrderLifecycle`.
- `RefundInv` is what keeps the look-up of a webhook from going stale before it withdraws
  an order: `SawRefund`, that a refunded payment of that order exists, which stays so
  (`RefundsKept`), and `OneCapture`, that no order has two payments that were captured, so
  that the refunded one is the one the order was paid with.
- `SessionInv` adds that a session not opened yet belongs to nobody. The steps are
  first classified by what they do to one request and to the sessions
  (`RequestStep`, `SessionStep`), which all of the later proofs use. That live sessions
  have different requests is also why ending the one a completion replaces ends
  one request's session in `LoginRequests`, and no other.
- `DismissedInv` says why a dismissed request cannot be completed: it has ended,
  or it has expired and no call that found it approved before is left. Its part
  `CallsFound` makes a poll's EXPIRED one of a request that has expired.
- `IsolationInv` says that a request is known to one browser, in pages and calls
  alike, and that cookies and calls name requests their own browser knows.
- In `OrderCreationProofs`, `Inv` adds that a call about to answer found or made
  exactly the order it was asked for. Rows never change, so that is never stale.
- `CounterInv` of `OrderRequestsProofs` adds to `CountersExpire` that a call in the
  limiter knows what it asks for. `LimitInv` says what `OrdersWithinLimit` leaves open in the
  middle of a window: orders made and calls on their way to one are no more than the
  limit for each window that is over and what the running one has counted (`MayMake`),
  at most the limit. A call in the limiter is not in `createOrder` yet, so an
  order takes the place of its call and nothing is counted twice.
- `BaseInv` of `ConnectPageProofs` says that what pages and calls name exists at the
  API, and that a login they name has been completed. `LoopInv` is about each tab
  by itself, its page and its calls: `me` and `start` are alone on their way,
  there is one restart at a time, one complete at a time and only with `completingRef` set,
  and nothing is polled yet for a request that a restart brings or that is shown but not drawn,
  which is why the loop that begins when it is drawn cannot meet an old one.
- `ShopInv` of `WebAppProofs` ties a purchase's step to what it has asked and its page to
  `busy`; `HomeInv` says that a request implies an active effect with
  `requestInFlight`, that there is one at most, and that what is shown is no newer than what
  is on its way, which is no newer than the game.

`ImplementsOrderBook` needs no more than `Inv`: a step that inserts a row places an
entry, a reply repeats one, and nothing else is visible.

The invariants of the payment, login and order modules were checked by TLC before they were proved.

Every safety property that a passing run checks is also proved. Model-checked only: the
liveness properties (temporal reasoning under
fairness is beyond the prover), and the violations, which are counterexamples.

## 6. Not modelled

The table in `PROJECT.json` gives the reason for each component. In short:

- The payment result pages: the success page calls `confirm` once per load, which
  `PaymentOrders` covers as a call that may come any number of times or never; the
  others read and show. `history` and `getOrder` change nothing.
- The portal cache: entries are written and deleted, but the only caller of `dashboard`
  bypasses the read (`portal.controller.ts:19`), so nobody is served from it.
- In the shop, a storefront that is disabled (the button is then off and no purchase
  begins) and a provider with a `checkoutUrl` (the mock's). The characters of the amount field.
- `isValidStoredGoldOrder` with the legacy product ids is the constant `ValidOrders`. A
  deployment that changes the policy makes stored orders invalid; `PaymentOrders` has orders
  that are invalid from the beginning, not such as become so.
- The disabled and mock payment providers, which cannot be reached with Toss.
- The sections, menus and formats of the pages, the parsers of the portal's answer, the
  read-only endpoints, configuration read at start, and HTTP plumbing: they keep
  no state that changes, and unit tests reach all of them.

## 7. Plan

Done: `OrderLifecycle`, `PaymentOrders`; `WebLogin`, `LoginRequests`, `DeviceLogin`,
`ConnectPage`; `OrderBook`, `OrderCreation`, `RateLimit`, `OrderRequests`; `GoldProducts`,
`PortalProxy`, `HomePage`, `ShopPage`, `WebApp`; the proofs of all their safety
properties and of the refinements. Left, most important first:

1. `PaymentOrders`: orders that a deployment makes invalid after they were paid, and the
   answers of `confirm` as the success page shows them.
2. A link from `OrderCreation` to `PaymentOrders`: that an order is READY, with the amount
   `OrderBook` fixed for it, when `confirm` first sees it, so that the two need not be
   related by reading their `Init`s.
3. `OrdersFollowLifecycle` with cancels that are conditional, once finding 1 is mended.
4. `DeviceLogin`: an instance in which no page polls, for the requests that stay PENDING
   after `cleanup` (a hazard without a property in `PROJECT.json`).
