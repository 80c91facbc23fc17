------------------------------ MODULE ShopPage ------------------------------
(***************************************************************************)
(* The gold shop, apps/web/app/shop/page.tsx, and the loader of Toss's     *)
(* payment window, lib/toss-payments.ts, up to the point where the browser *)
(* leaves for Toss.  What becomes of the order is PaymentOrders' subject.  *)
(*                                                                         *)
(* A purchase is one run of purchase(): it goes on when the page it was    *)
(* clicked on is gone, and only a load of the whole document ends it.  The *)
(* price policy is the server's; a deployment may change it while a page   *)
(* goes by the one it was given.                                           *)
(***************************************************************************)
EXTENDS PortalProxy, GoldProducts

CONSTANTS
  Prices,     \* the prices users type
  Policies,   \* the price policies of the deployments
  Purchases   \* runs of purchase() at the same time

ASSUME PricesAreNat == Prices \subseteq Nat
ASSUME PoliciesArePolicies == Policies \subseteq Policy

VARIABLES
  policy,    \* PAYMENT_POLICY of the API that is deployed
  shop,      \* the page's state, or None while the tab shows another page
  script,    \* the script element of Toss's SDK in the document
  loading,   \* sdkPromise is a promise that has not settled
  purchase   \* what each purchase knows and where it stands

Quotes == {Quote(p, price) : p \in Policies, price \in Prices}

Shop == [auth : {"loading", "guest", "authenticated"},
         store : Policies \union {None},      \* the policy of the storefront
         fetch : Answers, portal : BOOLEAN,   \* the call for the dashboard; it is shown
         selected : Quotes \union {None}, accepted : BOOLEAN,
         busy : BOOLEAN, leaving : BOOLEAN]

\* "run": window.TossPayments is there; "empty": the script ran without defining it.
Scripts == {"absent", "loading", "run", "empty", "failed"}

\* here: the page it was clicked on is still shown; asks counts requestPayment.
Purchase == [pc : {"idle", "create", "sdk", "render", "window", "asking", "dead"},
             quote : Quotes \union {None}, order : Quotes \union {None},
             here : BOOLEAN, asks : 0..2]

ASSUME NoneIsNoShop == None \notin Shop

FreshShop == [auth |-> "loading", store |-> None, fetch |-> "none", portal |-> FALSE,
              selected |-> None, accepted |-> FALSE, busy |-> FALSE, leaving |-> FALSE]
Idle == [pc |-> "idle", quote |-> None, order |-> None, here |-> FALSE, asks |-> 0]

At(p, pc) == purchase[p].pc = pc
Waiting == {p \in Purchases : At(p, "sdk")}

server == <<session, game, policy>>
sdk == <<script, loading>>

-----------------------------------------------------------------------------
(* What the page loads and shows.                                          *)

OnPage(action) == shop # None /\ action /\ UNCHANGED <<server, sdk, purchase>>

ShopStore == OnPage(shop.store = None /\ shop' = [shop EXCEPT !.store = policy])

ShopAuth ==
  OnPage(/\ shop.auth = "loading"
         /\ \E auth \in AuthAnswers :
              shop' = [shop EXCEPT !.auth = auth, 
                                      !.fetch = IF auth = "authenticated" THEN "sent" ELSE @])

ServeShop ==
  OnPage(/\ shop.fetch = "sent"
         /\ \E a \in DashboardAnswers : shop' = [shop EXCEPT !.fetch = a.kind])

\* Nothing drops the answer: the page is still there, whoever it shows as logged in.
ShopPortal ==
  OnPage(/\ shop.fetch \in {"data", "failed"}
         /\ shop' = [shop EXCEPT !.fetch = "none", !.portal = (shop.fetch = "data")])

\* The amount is whatever the user types; the button is there for a user only.
OpenModal ==
  OnPage(/\ shop.auth = "authenticated" /\ shop.store # None
         /\ \E price \in Prices :
              /\ Offered(shop.store, price)
              /\ shop' = [shop EXCEPT !.selected = Quote(shop.store, price),
                                      !.accepted = FALSE])

Accept ==
  OnPage(/\ shop.selected # None
         /\ shop' = [shop EXCEPT !.accepted = ~@])

CloseModal ==
  OnPage(/\ shop.selected # None
         /\ shop' = [shop EXCEPT !.selected = None, !.accepted = FALSE])

ShopSignOut ==
  OnPage(/\ shop.auth = "authenticated" /\ ~shop.leaving
         /\ shop' = [shop EXCEPT !.leaving = TRUE])

\* Whether or not the API has ended the session, the page takes it for ended.
ShopSignedOut ==
  /\ shop # None /\ shop.leaving
  /\ LogoutFails
  /\ shop' = [shop EXCEPT !.leaving = FALSE, !.auth = "guest", !.portal = FALSE]
  /\ UNCHANGED <<game, policy, sdk, purchase>>

-----------------------------------------------------------------------------
(* A purchase.                                                             *)

\* The catch block of the purchases in ps: busy is reset for the page they are on.
Fail(ps) ==
  /\ purchase' = [p \in Purchases |-> IF p \in ps THEN Idle ELSE purchase[p]]
  /\ shop' = IF \E p \in ps : purchase[p].here THEN [shop EXCEPT !.busy = FALSE] ELSE shop

GoOn(p, pc) ==
  /\ purchase' = [purchase EXCEPT ![p].pc = pc]
  /\ UNCHANGED shop

Click(p) ==
  /\ At(p, "idle") /\ shop # None
  /\ shop.selected # None /\ ~shop.busy
  /\ shop.auth = "authenticated" /\ shop.accepted
  /\ shop' = [shop EXCEPT !.busy = TRUE]
  /\ purchase' = [purchase EXCEPT ![p] = [Idle EXCEPT !.pc = "create", !.here = TRUE,
                                                      !.quote = shop.selected]]
  /\ UNCHANGED <<server, sdk>>

\* Faulty: only the price is compared.
SamePrice(order, quote) == order.price = quote.price

\* The comparison of the order with what was shown to the user.
AsQuoted(order, quote) == order = quote

\* The API's part of createPaymentOrder; it may refuse for other reasons as well.
OrderAnswers(price) ==
  IF session /\ Payable(policy, price) THEN {Quote(policy, price)} ELSE {}

\* loadTossPayments: what there is of the SDK is used, else a promise is made or shared.
Load(p, order) ==
  /\ purchase' = [purchase EXCEPT ![p].order = order,
                                  ![p].pc = IF script = "run" THEN "render" ELSE "sdk"]
  /\ loading' = (script # "run")
  /\ script' = IF script = "absent" THEN "loading" ELSE script
  /\ UNCHANGED shop

Created(p) ==
  /\ At(p, "create")
  /\ \/ \E order \in OrderAnswers(purchase[p].quote.price) :
          IF AsQuoted(order, purchase[p].quote) THEN Load(p, order)
          ELSE Fail({p}) /\ UNCHANGED sdk
     \/ Fail({p}) /\ UNCHANGED sdk
  /\ UNCHANGED server

\* Faulty: no listener is added to a script element that is there already.
ScriptLoadsUnheard ==
  /\ script = "loading" /\ script' = "run"
  /\ UNCHANGED <<server, shop, loading, purchase>>

\* The promise settles: those who wait for it go on, or fail.
ScriptLoads ==
  /\ script = "loading"
  /\ \/ /\ script' = "run"
        /\ purchase' = [p \in Purchases |->
             IF p \in Waiting THEN [purchase[p] EXCEPT !.pc = "render"] ELSE purchase[p]]
        /\ UNCHANGED shop
     \/ script' = "empty" /\ Fail(Waiting)
     \/ script' = "failed" /\ Fail(Waiting)
  /\ loading' = FALSE
  /\ UNCHANGED server

\* Faulty: only a script that is still loading is waited for with a timer.
LoadTimeoutOfNew ==
  /\ loading /\ script = "loading"
  /\ Fail(Waiting)
  /\ loading' = FALSE
  /\ UNCHANGED <<server, script>>

\* After ten seconds, whatever the script does: its events may be long past.
LoadTimeout ==
  /\ loading
  /\ Fail(Waiting)
  /\ loading' = FALSE
  /\ UNCHANGED <<server, script>>

\* Faulty: busy is reset when the window is there.
RenderedFreesButton(p) ==
  /\ At(p, "render")
  /\ \/ /\ purchase' = [purchase EXCEPT ![p].pc = "window"]
        /\ shop' = IF purchase[p].here THEN [shop EXCEPT !.busy = FALSE] ELSE shop
     \/ Fail({p})
  /\ UNCHANGED <<server, sdk>>

\* setAmount and renderPaymentWindow.
Rendered(p) ==
  /\ At(p, "render")
  /\ GoOn(p, "window") \/ Fail({p})
  /\ UNCHANGED <<server, sdk>>

\* Faulty: the button works as long as the window is there.
PressPayAgain(p) ==
  /\ purchase[p].pc \in {"window", "asking", "dead"}
  /\ purchase' = [purchase EXCEPT ![p].pc = "asking", ![p].asks = @ + 1]
  /\ UNCHANGED <<server, sdk, shop>>

\* The button of the payment window: it asks Toss once, however that ends.
PressPay(p) ==
  /\ At(p, "window")
  /\ purchase' = [purchase EXCEPT ![p].pc = "asking", ![p].asks = @ + 1]
  /\ UNCHANGED <<server, sdk, shop>>

Refused(p) ==
  /\ At(p, "asking")
  /\ GoOn(p, "dead")
  /\ UNCHANGED <<server, sdk>>

Deploy ==
  /\ policy' \in Policies
  /\ UNCHANGED <<session, game, shop, sdk, purchase>>

ShopStep ==
  \/ ShopStore \/ ShopAuth \/ ServeShop \/ ShopPortal \/ OpenModal \/ Accept \/ CloseModal
  \/ ShopSignOut \/ ShopSignedOut \/ ScriptLoads \/ LoadTimeout \/ Deploy
  \/ \E p \in Purchases : Click(p) \/ Created(p) \/ Rendered(p) \/ PressPay(p) \/ Refused(p)
=============================================================================
