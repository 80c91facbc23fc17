------------------------------- MODULE WebApp -------------------------------
(***************************************************************************)
(* One tab of the web app.  It shows the home page, the shop or another    *)
(* page; a link goes from one to the other without loading the document,   *)
(* so the SDK's script and the purchases begun in the shop live on.        *)
(***************************************************************************)
EXTENDS HomePage, ShopPage

vars == <<session, game, home, policy, shop, script, loading, purchase>>
pages == <<home, shop>>

Init ==
  /\ session \in BOOLEAN /\ game = 0
  /\ policy \in Policies
  /\ home = None /\ shop = None
  /\ script = "absent" /\ loading = FALSE
  /\ purchase = [p \in Purchases |-> Idle]

NoPage == home = None /\ shop = None

OpenHome == NoPage /\ home' = FreshHome /\ UNCHANGED <<server, sdk, shop, purchase>>
OpenShop == NoPage /\ shop' = FreshShop /\ UNCHANGED <<server, sdk, home, purchase>>

\* A link to another page: what is on its way goes on, but no page hears of it.
Leave ==
  /\ ~NoPage
  /\ home' = None /\ shop' = None
  /\ purchase' = [p \in Purchases |-> [purchase[p] EXCEPT !.here = FALSE]]
  /\ UNCHANGED <<server, sdk>>

\* The document is left: for Toss, by a reload, or to be opened anew later.
Unload ==
  /\ home' = None /\ shop' = None
  /\ script' = "absent" /\ loading' = FALSE
  /\ purchase' = [p \in Purchases |-> Idle]
  /\ UNCHANGED server

Browse == OpenHome \/ OpenShop \/ Leave \/ Unload
World == (Play \/ OtherTab) /\ UNCHANGED <<pages, policy, sdk, purchase>>

Next ==
  \/ HomeStep /\ UNCHANGED <<policy, shop, sdk, purchase>>
  \/ ShopStep /\ UNCHANGED home
  \/ Browse \/ World

Spec == Init /\ [][Next]_vars

\* React runs an effect in the end, a timer fires, the browser gives up a call that
\* nobody answers (api() has no time-out of its own), and the SDK's own promises are
\* taken to settle.  Nobody has to click, and Toss's script need not come.
Shopping(p) == (Created(p) \/ Rendered(p)) /\ UNCHANGED home
OnHome(action) == action /\ UNCHANGED <<policy, shop, sdk, purchase>>

FairSpec ==
  /\ Spec
  /\ WF_vars(OnHome(StartEffect))
  /\ \A s \in Slots : WF_vars(OnHome(ServeHome(s))) /\ WF_vars(OnHome(HearHome(s)))
  /\ \A p \in Purchases : WF_vars(Shopping(p))
  /\ WF_vars(LoadTimeout /\ UNCHANGED home)

-----------------------------------------------------------------------------
(* Properties.                                                             *)

TypeOK ==
  /\ session \in BOOLEAN /\ game \in Versions
  /\ home \in Home \union {None}
  /\ policy \in Policies
  /\ shop \in Shop \union {None}
  /\ script \in Scripts /\ loading \in BOOLEAN
  /\ purchase \in [Purchases -> Purchase]

\* shop/page.tsx:154-160, README.md:130: whatever policy the server has by the time
\* an order is made, the payment window is opened for the price and the gold that
\* the user was shown, and a payment is asked for at most once.
QuoteIsHonoured ==
  \A p \in Purchases :
    /\ purchase[p].pc \in {"sdk", "render", "window", "asking", "dead"}
         => purchase[p].order = purchase[p].quote
    /\ purchase[p].asks <= 1

\* shop/page.tsx:143, 172, 182: a page runs one purchase at a time and opens one
\* payment window; its button is busy exactly as long as that purchase lives, so a
\* failed one can be repeated and an open window is not joined by a second.
BusyIsOnePurchase ==
  LET running == {p \in Purchases : purchase[p].here}
  IN  /\ \A p, q \in running : p = q
      /\ shop # None => (shop.busy <=> running # {})

\* toss-payments.ts:33-58: nobody waits for a promise that has settled, a promise is
\* waited for only while the SDK is not there, and so every purchase that waits
\* when the script runs gets on.
NobodyWaitsInVain == (Waiting # {} => loading) /\ (loading => script \notin {"absent", "run"})

\* app/page.tsx:109-142: answers of one page never overtake each other, so that what
\* it shows of the game never goes back in time.
NeverGoesBack ==
  [][home # None /\ home' # None
       /\ home.dash.status = "success" /\ home'.dash.status = "success"
         => home'.dash.version >= home.dash.version]_vars

\* app/page.tsx:109-142: a page that says it is loading its dashboard does not say so
\* for ever, and a page whose request has ended can refresh again.
LoadingEnds == 
  (home # None /\ home.dash.status = "loading")
    ~> (home = None \/ home.dash.status # "loading")
RequestEnds == (home # None /\ home.inFlight) ~> (home = None \/ ~home.inFlight)

\* toss-payments.ts:39, shop/page.tsx:151-183: a purchase ends in a payment window or
\* in a message, even if the SDK's script has failed for good.
PurchaseEnds ==
  \A p \in Purchases :
    (purchase[p].pc \in {"create", "sdk", "render"})
      ~> (purchase[p].pc \notin {"create", "sdk", "render"})

\* VERCEL_DEPLOYMENT.md:237: personal data is hidden after a sign-out.
GuestSeesNoDashboard ==
  /\ home # None /\ home.auth = "guest" => home.dash.status # "success"
  /\ shop # None /\ shop.auth = "guest" => ~shop.portal
=============================================================================
