---------------------------- MODULE WebAppProofs ----------------------------
(***************************************************************************)
(* Proofs about WebApp, for every number of purchases and slots and every  *)
(* set of prices and policies.                                             *)
(***************************************************************************)
EXTENDS WebApp, TLAPS

-----------------------------------------------------------------------------
(* The shop.  The invariant adds to the properties that a purchase which   *)
(* has not asked Toss yet has asked nothing, and that one which belongs to *)
(* the page on show runs on a page that is there.                          *)

ShopTyped ==
  /\ session \in BOOLEAN /\ game \in Versions
  /\ policy \in Policies
  /\ shop \in Shop \union {None}
  /\ script \in Scripts /\ loading \in BOOLEAN
  /\ purchase \in [Purchases -> Purchase]

Orderly(p) ==
  /\ purchase[p].pc \notin {"asking", "dead"} => purchase[p].asks = 0
  /\ purchase[p].pc \in {"asking", "dead"} => purchase[p].asks = 1
  /\ purchase[p].here => shop # None

ShopInv ==
  /\ ShopTyped
  /\ \A p \in Purchases : Orderly(p)
  /\ QuoteIsHonoured
  /\ BusyIsOnePurchase
  /\ NobodyWaitsInVain

\* What the page loads and shows touches no purchase and leaves busy alone.
LEMMA PageKeepsShopInv ==
  ASSUME ShopInv,
         UNCHANGED <<session, game, policy, sdk, purchase>>,
         shop # None, shop' \in Shop, shop'.busy = shop.busy
  PROVE  ShopInv'
<1>1. ShopTyped'
  BY DEF ShopInv, ShopTyped, sdk
<1>2. shop' # None
  BY NoneIsNoShop
<1>3. \A p \in Purchases : Orderly(p)'
  BY <1>2 DEF ShopInv, Orderly
<1>4. QuoteIsHonoured'
  BY DEF ShopInv, QuoteIsHonoured
<1>5. BusyIsOnePurchase'
  BY DEF ShopInv, BusyIsOnePurchase
<1>6. NobodyWaitsInVain'
  BY DEF ShopInv, NobodyWaitsInVain, Waiting, At, sdk
<1> QED
  BY <1>1, <1>3, <1>4, <1>5, <1>6 DEF ShopInv

\* What the page is shown as after each of its own steps.
LEMMA PageStepsAreTyped ==
  ASSUME ShopInv,
         ShopStore \/ ShopAuth \/ ServeShop \/ ShopPortal \/ OpenModal \/ Accept
           \/ CloseModal \/ ShopSignOut
  PROVE  ShopInv'
<1>1. /\ shop \in Shop
      /\ shop # None /\ UNCHANGED <<session, game, policy, sdk, purchase>>
  BY DEF ShopInv, ShopTyped, OnPage, ShopStore, ShopAuth, ServeShop, ShopPortal, OpenModal,
         Accept, CloseModal, ShopSignOut, server
<1>2. policy \in Policies /\ session \in BOOLEAN
  BY DEF ShopInv, ShopTyped
<1>3. shop' \in Shop /\ shop'.busy = shop.busy
  <2>1. CASE ShopStore
    BY <1>1, <1>2, <2>1 DEF ShopStore, OnPage, Shop
  <2>2. CASE ShopAuth
    BY <1>1, <1>2, <2>2 DEF ShopAuth, OnPage, Shop, AuthAnswers, Answers
  <2>3. CASE ServeShop
    BY <1>1, <1>2, <2>3 DEF ServeShop, OnPage, Shop, DashboardAnswers, Answers, Failed
  <2>4. CASE ShopPortal
    BY <1>1, <2>4 DEF ShopPortal, OnPage, Shop, Answers
  <2>5. CASE OpenModal
    <3>1. PICK price \in Prices :
            shop.store # None
            /\ shop' = [shop EXCEPT !.selected = Quote(shop.store, price), !.accepted = FALSE]
      BY <2>5 DEF OpenModal, OnPage
    <3>2. Quote(shop.store, price) \in Quotes
      BY <1>1, <3>1 DEF Shop, Quotes
    <3> QED
      BY <1>1, <3>1, <3>2 DEF Shop
  <2>6. CASE Accept
    BY <1>1, <2>6 DEF Accept, OnPage, Shop
  <2>7. CASE CloseModal
    BY <1>1, <2>7 DEF CloseModal, OnPage, Shop
  <2>8. CASE ShopSignOut
    BY <1>1, <2>8 DEF ShopSignOut, OnPage, Shop
  <2> QED
    BY <2>1, <2>2, <2>3, <2>4, <2>5, <2>6, <2>7, <2>8
<1> QED
  BY <1>1, <1>3, PageKeepsShopInv

LEMMA SignOutKeepsShopInv == ShopInv /\ ShopSignedOut => ShopInv'
<1> SUFFICES ASSUME ShopInv, ShopSignedOut PROVE ShopInv'
  OBVIOUS
<1>1. shop # None /\ shop \in Shop
  BY DEF ShopSignedOut, ShopInv, ShopTyped
<1>2. shop' \in Shop /\ shop'.busy = shop.busy /\ shop' # None
  BY <1>1, NoneIsNoShop DEF ShopSignedOut, Shop
<1>3. ShopTyped'
  BY <1>2 DEF ShopSignedOut, LogoutFails, ShopInv, ShopTyped, sdk
<1>4. \A p \in Purchases : Orderly(p)'
  BY <1>2 DEF ShopSignedOut, ShopInv, Orderly
<1>5. QuoteIsHonoured'
  BY DEF ShopSignedOut, ShopInv, QuoteIsHonoured
<1>6. BusyIsOnePurchase'
  BY <1>1, <1>2 DEF ShopSignedOut, ShopInv, BusyIsOnePurchase
<1>7. NobodyWaitsInVain'
  BY DEF ShopSignedOut, ShopInv, NobodyWaitsInVain, Waiting, At, sdk
<1> QED
  BY <1>3, <1>4, <1>5, <1>6, <1>7 DEF ShopInv

-----------------------------------------------------------------------------
(* The purchases.                                                          *)

\* The catch block frees the button of the page on show exactly when it ends that
\* page's purchase.
LEMMA FailKeepsShopInv ==
  ASSUME ShopInv, NEW ps \in SUBSET Purchases, Fail(ps), UNCHANGED server,
         script' \in Scripts, loading' \in BOOLEAN, NobodyWaitsInVain'
  PROVE  ShopInv'
<1>1. \A p \in Purchases : purchase'[p] = IF p \in ps THEN Idle ELSE purchase[p]
  BY DEF Fail
<1>2. Idle \in Purchase /\ ~Idle.here /\ Idle.pc = "idle" /\ Idle.asks = 0
  BY DEF Idle, Purchase
<1>3. \A p \in Purchases : purchase'[p].here <=> p \notin ps /\ purchase[p].here
  BY <1>1, <1>2
<1>4. purchase' \in [Purchases -> Purchase]
  BY <1>1, <1>2 DEF Fail, ShopInv, ShopTyped
<1>5. CASE \E p \in ps : purchase[p].here
  <2>1. PICK q \in ps : purchase[q].here
    BY <1>5
  <2>2. shop \in Shop /\ shop # None
    BY <2>1 DEF ShopInv, Orderly, ShopTyped
  <2>3. shop' = [shop EXCEPT !.busy = FALSE]
    BY <1>5 DEF Fail
  <2>4. shop' \in Shop /\ ~shop'.busy /\ shop' # None
    BY <2>2, <2>3, NoneIsNoShop DEF Shop
  <2>5. \A p \in Purchases : ~purchase'[p].here
    BY <1>3, <2>1 DEF ShopInv, BusyIsOnePurchase
  <2>6. BusyIsOnePurchase'
    BY <2>4, <2>5 DEF BusyIsOnePurchase
  <2>7. \A p \in Purchases : Orderly(p)'
    BY <1>1, <1>2, <2>5 DEF ShopInv, Orderly
  <2>8. QuoteIsHonoured'
    BY <1>1, <1>2 DEF ShopInv, QuoteIsHonoured
  <2> QED
    BY <1>4, <2>4, <2>6, <2>7, <2>8 DEF ShopInv, ShopTyped, server
<1>6. CASE ~\E p \in ps : purchase[p].here
  <2>1. shop' = shop
    BY <1>6 DEF Fail
  <2>2. \A p \in Purchases : purchase'[p].here <=> purchase[p].here
    BY <1>3, <1>6
  <2>3. BusyIsOnePurchase'
    BY <2>1, <2>2 DEF ShopInv, BusyIsOnePurchase
  <2>4. \A p \in Purchases : Orderly(p)'
    BY <1>1, <1>2, <2>1 DEF ShopInv, Orderly
  <2>5. QuoteIsHonoured'
    BY <1>1, <1>2 DEF ShopInv, QuoteIsHonoured
  <2> QED
    BY <1>4, <2>1, <2>3, <2>4, <2>5 DEF ShopInv, ShopTyped, server
<1> QED
  BY <1>5, <1>6

\* A purchase that gets on keeps its page and what was shown to the user.
LEMMA MoveKeepsShopInv ==
  ASSUME ShopInv, NEW p \in Purchases, NEW f \in Purchase,
         purchase' = [purchase EXCEPT ![p] = f],
         f.here = purchase[p].here,
         f.pc \notin {"asking", "dead"} => f.asks = 0,
         f.pc \in {"asking", "dead"} => f.asks = 1,
         f.pc \in {"sdk", "render", "window", "asking", "dead"} => f.order = f.quote,
         UNCHANGED <<server, shop>>,
         script' \in Scripts, loading' \in BOOLEAN, NobodyWaitsInVain'
  PROVE  ShopInv'
<1>1. ShopTyped'
  BY DEF ShopInv, ShopTyped, server
<1>2. \A q \in Purchases : purchase'[q] = IF q = p THEN f ELSE purchase[q]
  BY DEF ShopInv, ShopTyped
<1>3. \A q \in Purchases : Orderly(q)'
  BY <1>2 DEF ShopInv, Orderly
<1>4. f.asks <= 1
  BY DEF Purchase
<1>5. QuoteIsHonoured'
  BY <1>2, <1>4 DEF ShopInv, QuoteIsHonoured
<1>6. \A q \in Purchases : purchase'[q].here <=> purchase[q].here
  BY <1>2
<1>7. BusyIsOnePurchase'
  BY <1>6 DEF ShopInv, BusyIsOnePurchase
<1> QED
  BY <1>1, <1>3, <1>5, <1>7 DEF ShopInv

LEMMA ClickKeepsShopInv ==
  ASSUME ShopInv, NEW p \in Purchases, Click(p)
  PROVE  ShopInv'
<1> DEFINE f == [Idle EXCEPT !.pc = "create", !.here = TRUE, !.quote = shop.selected]
<1>1. shop \in Shop /\ shop # None /\ ~shop.busy
  BY DEF Click, ShopInv, ShopTyped
<1>2. shop' \in Shop /\ shop'.busy /\ shop' # None
  BY <1>1, NoneIsNoShop DEF Click, Shop
<1>3. /\ f \in Purchase /\ f.here /\ f.pc = "create" /\ f.asks = 0
  <2>1. shop.selected \in Quotes \union {None}
    BY <1>1 DEF Shop
  <2>2. Idle \in Purchase /\ Idle.asks = 0
    BY DEF Idle, Purchase
  <2> QED
    BY <2>1, <2>2 DEF Purchase
<1>4. purchase' = [purchase EXCEPT ![p] = f]
  BY DEF Click
<1> HIDE DEF f
<1>5. \A q \in Purchases : purchase'[q] = IF q = p THEN f ELSE purchase[q]
  BY <1>4 DEF ShopInv, ShopTyped
<1>6. ShopTyped'
  BY <1>2, <1>3, <1>4 DEF Click, ShopInv, ShopTyped, server, sdk
<1>7. \A q \in Purchases : Orderly(q)'
  BY <1>2, <1>3, <1>5 DEF ShopInv, Orderly
<1>8. QuoteIsHonoured'
  BY <1>3, <1>5 DEF ShopInv, QuoteIsHonoured
<1>9. BusyIsOnePurchase'
  <2>1. \A q \in Purchases : ~purchase[q].here
    BY <1>1 DEF ShopInv, BusyIsOnePurchase
  <2>2. \A q \in Purchases : purchase'[q].here <=> q = p
    BY <2>1, <1>3, <1>5
  <2> QED
    BY <1>2, <2>2 DEF BusyIsOnePurchase
<1>10. NobodyWaitsInVain'
  <2>1. Waiting' \subseteq Waiting
    BY <1>3, <1>5 DEF Waiting, At
  <2> QED
    BY <2>1 DEF Click, ShopInv, NobodyWaitsInVain, sdk
<1> QED
  BY <1>6, <1>7, <1>8, <1>9, <1>10 DEF ShopInv

\* An order goes on to the payment window only if it is as quoted; if the SDK has to
\* be waited for, there is a promise to wait for.
LEMMA CreatedKeepsShopInv ==
  ASSUME ShopInv, NEW p \in Purchases, Created(p)
  PROVE  ShopInv'
<1>1. UNCHANGED server /\ At(p, "create")
  BY DEF Created
<1>2. CASE Fail({p}) /\ UNCHANGED sdk
  <2>1. Waiting' \subseteq Waiting
    BY <1>2 DEF Fail, Waiting, At, Idle
  <2>2. NobodyWaitsInVain'
    BY <1>2, <2>1 DEF ShopInv, NobodyWaitsInVain, sdk
  <2> QED
    BY <1>1, <1>2, <2>2, FailKeepsShopInv DEF ShopInv, ShopTyped, sdk
<1>3. ASSUME NEW order, AsQuoted(order, purchase[p].quote), Load(p, order)
      PROVE  ShopInv'
  <2> DEFINE f == [purchase[p] EXCEPT !.order = order,
                                      !.pc = IF script = "run" THEN "render" ELSE "sdk"]
  <2>1. purchase[p] \in Purchase /\ order = purchase[p].quote
    BY <1>3 DEF AsQuoted, ShopInv, ShopTyped
  <2>2. /\ f \in Purchase /\ f.here = purchase[p].here /\ f.order = f.quote
        /\ f.asks = purchase[p].asks
        /\ f.pc = IF script = "run" THEN "render" ELSE "sdk"
    BY <2>1 DEF Purchase
  <2>3. f.asks = 0
    BY <2>2, <1>1 DEF ShopInv, Orderly, At
  <2>4. purchase' = [purchase EXCEPT ![p] = f]
    BY <1>3 DEF Load, ShopInv, ShopTyped
  <2>5. script' \in Scripts /\ loading' \in BOOLEAN
    BY <1>3 DEF Load, ShopInv, ShopTyped, Scripts
  <2>6. NobodyWaitsInVain'
    <3>1. CASE script = "run"
      <4>1. Waiting = {}
        BY <3>1 DEF ShopInv, NobodyWaitsInVain
      <4>2. Waiting' = {}
        BY <3>1, <4>1, <2>2, <2>4 DEF Waiting, At, ShopInv, ShopTyped
      <4> QED
        BY <3>1, <4>2, <1>3 DEF Load, NobodyWaitsInVain
    <3>2. CASE script # "run"
      BY <3>2, <1>3 DEF Load, NobodyWaitsInVain
    <3> QED
      BY <3>1, <3>2
  <2> HIDE DEF f
  <2>7. UNCHANGED <<server, shop>>
    BY <1>1, <1>3 DEF Load
  <2>8. f.pc \notin {"asking", "dead"}
    BY <2>2
  <2> QED
    BY <2>2, <2>3, <2>4, <2>5, <2>6, <2>7, <2>8, MoveKeepsShopInv
<1> QED
  BY <1>2, <1>3 DEF Created

\* When the script runs, or the promise settles, those who wait get on together.
LEMMA ScriptKeepsShopInv ==
  ASSUME ShopInv, ScriptLoads \/ LoadTimeout
  PROVE  ShopInv'
<1>1. CASE Fail(Waiting) /\ loading' = FALSE /\ UNCHANGED server /\ script' \in Scripts
  <2>1. Waiting' = {}
    BY <1>1 DEF Fail, Waiting, At, Idle
  <2>2. NobodyWaitsInVain'
    BY <1>1, <2>1 DEF NobodyWaitsInVain
  <2> QED
    BY <1>1, <2>2, FailKeepsShopInv DEF Waiting
<1>2. ASSUME ScriptLoads, script' = "run",
             purchase' = [p \in Purchases |->
               IF p \in Waiting THEN [purchase[p] EXCEPT !.pc = "render"] ELSE purchase[p]],
             UNCHANGED shop
      PROVE  ShopInv'
  <2>1. loading' = FALSE /\ UNCHANGED server
    BY <1>2 DEF ScriptLoads
  <2>2. \A p \in Purchases :
          /\ purchase'[p] \in Purchase
          /\ purchase'[p].here = purchase[p].here /\ purchase'[p].asks = purchase[p].asks
          /\ purchase'[p].quote = purchase[p].quote /\ purchase'[p].order = purchase[p].order
          /\ purchase'[p].pc = IF purchase[p].pc = "sdk" THEN "render" ELSE purchase[p].pc
    BY <1>2 DEF ShopInv, ShopTyped, Purchase, Waiting, At
  <2>3. ShopTyped'
    BY <1>2, <2>1, <2>2 DEF ShopInv, ShopTyped, server, Scripts
  <2>4. \A p \in Purchases : Orderly(p)'
    BY <1>2, <2>2 DEF ShopInv, Orderly
  <2>5. QuoteIsHonoured'
    BY <2>2 DEF ShopInv, QuoteIsHonoured
  <2>6. BusyIsOnePurchase'
    BY <1>2, <2>2 DEF ShopInv, BusyIsOnePurchase
  <2>7. NobodyWaitsInVain'
    BY <2>1, <2>2 DEF NobodyWaitsInVain, Waiting, At
  <2> QED
    BY <2>3, <2>4, <2>5, <2>6, <2>7 DEF ShopInv
<1>3. CASE LoadTimeout
  BY <1>1, <1>3 DEF LoadTimeout, ShopInv, ShopTyped
<1>4. CASE ScriptLoads
  BY <1>1, <1>2, <1>4 DEF ScriptLoads, Scripts
<1> QED
  BY <1>3, <1>4

LEMMA WindowKeepsShopInv ==
  ASSUME ShopInv, NEW p \in Purchases, Rendered(p) \/ PressPay(p) \/ Refused(p)
  PROVE  ShopInv'
<1>1. UNCHANGED server /\ UNCHANGED sdk /\ purchase[p] \in Purchase
  BY DEF Rendered, PressPay, Refused, ShopInv, ShopTyped
<1>2. ASSUME NEW f \in Purchase, purchase' = [purchase EXCEPT ![p] = f], UNCHANGED shop,
             f.here = purchase[p].here, f.order = f.quote,
             f.pc \in {"window", "asking", "dead"}, f.asks = IF f.pc = "window" THEN 0 ELSE 1
      PROVE  ShopInv'
  <2>1. Waiting' \subseteq Waiting
    BY <1>2 DEF Waiting, At, ShopInv, ShopTyped
  <2>2. NobodyWaitsInVain'
    BY <1>1, <2>1 DEF ShopInv, NobodyWaitsInVain, sdk
  <2> QED
    BY <1>1, <1>2, <2>2, MoveKeepsShopInv DEF ShopInv, ShopTyped, sdk, server
<1>3. ASSUME NEW pc \in {"window", "dead"}, GoOn(p, pc),
             purchase[p].pc = IF pc = "window" THEN "render" ELSE "asking"
      PROVE  ShopInv'
  <2> DEFINE f == [purchase[p] EXCEPT !.pc = pc]
  <2>1. /\ f \in Purchase /\ f.here = purchase[p].here /\ f.pc = pc
        /\ f.order = purchase[p].order /\ f.quote = purchase[p].quote
        /\ f.asks = purchase[p].asks
    BY <1>1 DEF Purchase
  <2>2. f.order = f.quote
    BY <1>3, <2>1 DEF ShopInv, QuoteIsHonoured
  <2>3. f.asks = IF pc = "window" THEN 0 ELSE 1
    BY <1>3, <2>1 DEF ShopInv, Orderly
  <2>4. purchase' = [purchase EXCEPT ![p] = f] /\ UNCHANGED shop
    BY <1>3 DEF GoOn, ShopInv, ShopTyped
  <2> QED
    BY <1>2, <2>1, <2>2, <2>3, <2>4
<1>4. CASE PressPay(p)
  <2> DEFINE f == [purchase[p] EXCEPT !.pc = "asking", !.asks = 1]
  <2>1. purchase[p].asks = 0 /\ purchase[p].order = purchase[p].quote
    BY <1>4 DEF PressPay, At, ShopInv, Orderly, QuoteIsHonoured
  <2>2. /\ f \in Purchase /\ f.here = purchase[p].here /\ f.order = f.quote
        /\ f.pc = "asking" /\ f.asks = 1
    <3>1. 1 \in 0..2
      OBVIOUS
    <3>2. f \in Purchase
      BY <1>1, <3>1 DEF Purchase
    <3>3. /\ f.here = purchase[p].here /\ f.pc = "asking" /\ f.asks = 1
          /\ f.order = purchase[p].order /\ f.quote = purchase[p].quote
      BY <1>1 DEF Purchase
    <3> QED
      BY <2>1, <3>2, <3>3
  <2>3. f = [purchase[p] EXCEPT !.pc = "asking", !.asks = @ + 1]
    BY <1>1, <2>1 DEF Purchase
  <2>4. purchase' = [purchase EXCEPT ![p] = f] /\ UNCHANGED shop
    BY <1>4, <2>3 DEF PressPay
  <2> QED
    BY <1>2, <2>2, <2>4
<1>5. CASE Refused(p)
  BY <1>3, <1>5 DEF Refused, At
<1>6. CASE Rendered(p)
  <2>1. CASE Fail({p})
    <3>1. Waiting' \subseteq Waiting
      BY <2>1 DEF Fail, Waiting, At, Idle
    <3>2. NobodyWaitsInVain'
      BY <1>1, <3>1 DEF ShopInv, NobodyWaitsInVain, sdk
    <3> QED
      BY <1>1, <2>1, <3>2, FailKeepsShopInv DEF ShopInv, ShopTyped, sdk
  <2> QED
    BY <1>3, <1>6, <2>1 DEF Rendered, At
<1> QED
  BY <1>4, <1>5, <1>6

-----------------------------------------------------------------------------
(* The tab.                                                                *)

LEMMA InitShopInv == Init => ShopInv
<1> SUFFICES ASSUME Init PROVE ShopInv
  OBVIOUS
<1>1. Idle \in Purchase /\ ~Idle.here /\ Idle.pc = "idle" /\ Idle.asks = 0
  BY DEF Idle, Purchase
<1>2. \A p \in Purchases : purchase[p] = Idle
  BY DEF Init
<1>3. ShopTyped
  <2>1. 0 \in Versions
    BY MaxGameIsNat DEF Versions
  <2>2. purchase \in [Purchases -> Purchase]
    BY <1>1 DEF Init
  <2> QED
    BY <2>1, <2>2 DEF Init, ShopTyped, Scripts
<1>4. \A p \in Purchases : Orderly(p)
  BY <1>1, <1>2 DEF Orderly
<1>5. QuoteIsHonoured
  BY <1>1, <1>2 DEF QuoteIsHonoured
<1>6. BusyIsOnePurchase
  BY <1>1, <1>2 DEF Init, BusyIsOnePurchase
<1>7. NobodyWaitsInVain
  BY <1>1, <1>2 DEF Init, NobodyWaitsInVain, Waiting, At
<1> QED
  BY <1>3, <1>4, <1>5, <1>6, <1>7 DEF ShopInv

\* Another page, or another document, has no part in what was begun before.
LEMMA BrowseKeepsShopInv == ShopInv /\ Browse => ShopInv'
<1> SUFFICES ASSUME ShopInv, Browse PROVE ShopInv'
  OBVIOUS
<1>1. CASE OpenHome
  BY <1>1 DEF OpenHome, server, sdk, ShopInv, ShopTyped, Orderly, QuoteIsHonoured,
              BusyIsOnePurchase, NobodyWaitsInVain, Waiting, At
<1>2. CASE OpenShop
  <2>1. FreshShop \in Shop /\ ~FreshShop.busy
    BY DEF FreshShop, Shop, Answers
  <2>2. \A p \in Purchases : ~purchase[p].here
    BY <1>2 DEF OpenShop, NoPage, ShopInv, Orderly
  <2>3. ShopTyped'
    BY <1>2, <2>1 DEF OpenShop, server, sdk, ShopInv, ShopTyped
  <2>4. \A p \in Purchases : Orderly(p)'
    BY <1>2, <2>2 DEF OpenShop, ShopInv, Orderly
  <2>5. QuoteIsHonoured'
    BY <1>2 DEF OpenShop, ShopInv, QuoteIsHonoured
  <2>6. BusyIsOnePurchase'
    BY <1>2, <2>1, <2>2 DEF OpenShop, BusyIsOnePurchase
  <2>7. NobodyWaitsInVain'
    BY <1>2 DEF OpenShop, sdk, ShopInv, NobodyWaitsInVain, Waiting, At
  <2> QED
    BY <2>3, <2>4, <2>5, <2>6, <2>7 DEF ShopInv
<1>3. CASE Leave
  <2>1. \A p \in Purchases :
          /\ purchase'[p] \in Purchase
          /\ ~purchase'[p].here /\ purchase'[p].asks = purchase[p].asks
          /\ purchase'[p].quote = purchase[p].quote /\ purchase'[p].order = purchase[p].order
          /\ purchase'[p].pc = purchase[p].pc
    BY <1>3 DEF Leave, ShopInv, ShopTyped, Purchase
  <2>2. ShopTyped'
    BY <1>3, <2>1 DEF Leave, server, sdk, ShopInv, ShopTyped
  <2>3. \A p \in Purchases : Orderly(p)'
    BY <2>1 DEF ShopInv, Orderly
  <2>4. QuoteIsHonoured'
    BY <2>1 DEF ShopInv, QuoteIsHonoured
  <2>5. BusyIsOnePurchase'
    BY <1>3, <2>1 DEF Leave, BusyIsOnePurchase
  <2>6. NobodyWaitsInVain'
    BY <1>3, <2>1 DEF Leave, sdk, ShopInv, NobodyWaitsInVain, Waiting, At
  <2> QED
    BY <2>2, <2>3, <2>4, <2>5, <2>6 DEF ShopInv
<1>4. CASE Unload
  <2>1. Idle \in Purchase /\ ~Idle.here /\ Idle.pc = "idle" /\ Idle.asks = 0
    BY DEF Idle, Purchase
  <2>2. \A p \in Purchases : purchase'[p] = Idle
    BY <1>4 DEF Unload
  <2>3. ShopTyped'
    BY <1>4, <2>1 DEF Unload, server, ShopInv, ShopTyped, Scripts
  <2>4. \A p \in Purchases : Orderly(p)'
    BY <2>1, <2>2 DEF Orderly
  <2>5. QuoteIsHonoured'
    BY <2>1, <2>2 DEF QuoteIsHonoured
  <2>6. BusyIsOnePurchase'
    BY <1>4, <2>1, <2>2 DEF Unload, BusyIsOnePurchase
  <2>7. NobodyWaitsInVain'
    BY <1>4, <2>1, <2>2 DEF Unload, NobodyWaitsInVain, Waiting, At
  <2> QED
    BY <2>3, <2>4, <2>5, <2>6, <2>7 DEF ShopInv
<1> QED
  BY <1>1, <1>2, <1>3, <1>4 DEF Browse

\* What happens elsewhere changes at most the session and the game.
LEMMA OthersKeepShopInv ==
  ASSUME ShopInv, session' \in BOOLEAN, game' \in Versions, policy' \in Policies,
         UNCHANGED <<shop, sdk, purchase>>
  PROVE  ShopInv'
BY DEF sdk, ShopInv, ShopTyped, Orderly, QuoteIsHonoured, BusyIsOnePurchase,
       NobodyWaitsInVain, Waiting, At

LEMMA HomeKeepsShopInv ==
  ASSUME ShopInv, HomeStep, UNCHANGED <<policy, shop, sdk, purchase>>
  PROVE  ShopInv'
<1>1. session \in BOOLEAN /\ game \in Versions /\ policy \in Policies
  BY DEF ShopInv, ShopTyped
<1>2. game' = game /\ session' \in {session, FALSE}
  BY DEF HomeStep, HomeAuth, StartEffect, Refresh, SecondPasses, HomeSignOut, HomeSignedOut,
         CleanUpEffect, ServeHome, HearHome, homeOnly, LogoutFails
<1> QED
  BY <1>1, <1>2, OthersKeepShopInv

LEMMA NextKeepsShopInv == ShopInv /\ [Next]_vars => ShopInv'
<1> SUFFICES ASSUME ShopInv, [Next]_vars PROVE ShopInv'
  OBVIOUS
<1>1. session \in BOOLEAN /\ game \in Versions /\ policy \in Policies
  BY DEF ShopInv, ShopTyped
<1>2. CASE HomeStep /\ UNCHANGED <<policy, shop, sdk, purchase>>
  BY <1>2, HomeKeepsShopInv
<1>3. CASE ShopStep
  <2>1. CASE ShopStore \/ ShopAuth \/ ServeShop \/ ShopPortal \/ OpenModal \/ Accept
               \/ CloseModal \/ ShopSignOut
    BY <2>1, PageStepsAreTyped
  <2>2. CASE ShopSignedOut
    BY <2>2, SignOutKeepsShopInv
  <2>3. CASE ScriptLoads \/ LoadTimeout
    BY <2>3, ScriptKeepsShopInv
  <2>4. CASE Deploy
    BY <1>1, <2>4, OthersKeepShopInv DEF Deploy
  <2>5. ASSUME NEW p \in Purchases,
               Click(p) \/ Created(p) \/ Rendered(p) \/ PressPay(p) \/ Refused(p)
        PROVE  ShopInv'
    BY <2>5, ClickKeepsShopInv, CreatedKeepsShopInv, WindowKeepsShopInv
  <2> QED
    BY <1>3, <2>1, <2>2, <2>3, <2>4, <2>5 DEF ShopStep
<1>4. CASE Browse
  BY <1>4, BrowseKeepsShopInv
<1>5. CASE World
  <2>1. session' \in BOOLEAN /\ game' \in Versions
    <3>1. CASE Play
      <4>1. game + 1 \in Versions
        BY <1>1, <3>1, MaxGameIsNat DEF Play, Versions
      <4> QED
        BY <1>1, <3>1, <4>1 DEF Play
    <3>2. CASE OtherTab
      BY <1>1, <3>2 DEF OtherTab
    <3> QED
      BY <1>5, <3>1, <3>2 DEF World
  <2> QED
    BY <1>1, <1>5, <2>1, OthersKeepShopInv DEF World, pages
<1>6. CASE UNCHANGED vars
  BY <1>1, <1>6, OthersKeepShopInv DEF vars, sdk
<1> QED
  BY <1>2, <1>3, <1>4, <1>5, <1>6 DEF Next

LEMMA ShopInvariant == Spec => []ShopInv
BY InitShopInv, NextKeepsShopInv, PTL DEF Spec

\* shop/page.tsx:154-160: the payment window is opened for what the user was shown,
\* and a payment is asked for at most once.
THEOREM QuotesAreHonoured == Spec => []QuoteIsHonoured
BY ShopInvariant, PTL DEF ShopInv

\* shop/page.tsx:143, 172, 182: the button is busy as long as the page's purchase
\* lives, and there is one at a time.
THEOREM BusyMeansOnePurchase == Spec => []BusyIsOnePurchase
BY ShopInvariant, PTL DEF ShopInv

\* toss-payments.ts:33-58: whoever waits for the SDK has a promise to wait for.
THEOREM NobodyEverWaitsInVain == Spec => []NobodyWaitsInVain
BY ShopInvariant, PTL DEF ShopInv

-----------------------------------------------------------------------------
(* The home page.  One request is on its way at a time, so what it brings  *)
(* is at least as new as what the page shows already.                      *)

InPlace(h, s) == h.request[s].answer.kind # "none"

OneRequest(h) ==
  /\ ~h.effect => ~h.inFlight
  /\ \A s \in Slots : InPlace(h, s) => h.inFlight
  /\ \A s, t \in Slots : InPlace(h, s) /\ InPlace(h, t) => s = t

InTime(h, now) ==
  /\ h.dash.version <= now
  /\ \A s \in Slots : h.request[s].answer.kind = "data" =>
       h.dash.version <= h.request[s].answer.version /\ h.request[s].answer.version <= now

HomeInv ==
  /\ game \in Versions
  /\ home # None => home \in Home /\ OneRequest(home) /\ InTime(home, game)

Request == [initial : BOOLEAN, answer : [kind : Answers, version : Versions]]

\* The page goes on with its requests as they are and what it shows no newer.
LEMMA ShowKeepsHomeInv ==
  ASSUME HomeInv, home # None, home' \in Home, UNCHANGED game,
         home'.request = home.request, home'.effect = home.effect,
         home'.inFlight = home.inFlight,
         home'.dash.version \in {0, home.dash.version}
  PROVE  HomeInv'
<1>1. \A s \in Slots : home.request[s].answer.version \in Nat
  BY MaxGameIsNat DEF HomeInv, Home, Versions
<1>2. game \in Nat
  BY MaxGameIsNat DEF HomeInv, Versions
<1>3. OneRequest(home')
  BY DEF HomeInv, OneRequest, InPlace
<1>4. InTime(home', game)
  BY <1>1, <1>2 DEF HomeInv, InTime
<1> QED
  BY <1>3, <1>4 DEF HomeInv

\* A request is sent where and when there is none.
LEMMA SendKeepsHomeInv ==
  ASSUME HomeInv, home # None, ~home.inFlight, UNCHANGED game,
         NEW s \in Slots, NEW initial \in BOOLEAN, Send(s, initial)
  PROVE  /\ HomeInv'
         /\ home'.dash.status = "success" => home'.dash = home.dash
<1>1. home \in Home /\ OneRequest(home) /\ InTime(home, game)
  BY DEF HomeInv
<1>2. 0 \in Versions /\ 0 <= game /\ game \in Nat
  BY MaxGameIsNat DEF HomeInv, Versions
<1> DEFINE r == [initial |-> initial, answer |-> Answer("sent")]
           dash == IF initial THEN Says("loading") ELSE home.dash
<1>3. r \in Request /\ r.answer.kind = "sent"
  BY <1>2 DEF Request, Answer, Answers
<1>4. /\ dash \in [status : DashStates, version : Versions]
      /\ dash.version <= game
      /\ dash.status = "success" => dash = home.dash
  BY <1>1, <1>2 DEF Says, DashStates, Home, InTime
<1>5. home' = [home EXCEPT !.effect = TRUE, !.inFlight = TRUE, !.recent = TRUE,
                           !.dash = dash, !.request[s] = r]
  BY DEF Send
<1> HIDE DEF r, dash
<1>6. /\ home' \in Home /\ home'.effect /\ home'.inFlight /\ home'.dash = dash
      /\ home'.request = [home.request EXCEPT ![s] = r]
  BY <1>1, <1>3, <1>4, <1>5 DEF Home, Request
<1>7. \A q \in Slots : home'.request[q] = IF q = s THEN r ELSE home.request[q]
  BY <1>1, <1>6 DEF Home
<1>8. \A q \in Slots : ~InPlace(home, q)
  BY <1>1 DEF OneRequest
<1>9. OneRequest(home')
  BY <1>6, <1>7, <1>8 DEF OneRequest, InPlace
<1>10. InTime(home', game)
  BY <1>3, <1>4, <1>6, <1>7, <1>8 DEF InTime, InPlace
<1> QED
  BY <1>4, <1>6, <1>9, <1>10 DEF HomeInv

LEMMA ServeKeepsHomeInv ==
  ASSUME HomeInv, NEW s \in Slots, ServeHome(s)
  PROVE  HomeInv' /\ home'.dash = home.dash
<1>1. home # None /\ home \in Home /\ OneRequest(home) /\ InTime(home, game)
  BY DEF HomeInv, ServeHome
<1>2. 0 \in Versions /\ game \in Versions /\ game \in Nat /\ UNCHANGED game
  BY MaxGameIsNat DEF HomeInv, Versions, ServeHome, homeOnly
<1>3. PICK a \in DashboardAnswers : home' = [home EXCEPT !.request[s].answer = a]
  BY DEF ServeHome
<1>4. /\ a \in [kind : Answers, version : Versions] /\ a.kind # "none"
      /\ a.kind = "data" => a.version = game
  BY <1>2 DEF DashboardAnswers, Failed, Answers
<1>5. home.request[s].answer.kind = "sent"
  BY DEF ServeHome, Answer
<1> DEFINE r == [home.request[s] EXCEPT !.answer = a]
<1>6. r \in Request /\ r.answer = a
  BY <1>1, <1>4 DEF Request, Home
<1>7. home' = [home EXCEPT !.request[s] = r]
  BY <1>3
<1> HIDE DEF r
<1>8. /\ home' \in Home /\ home'.dash = home.dash
      /\ home'.effect = home.effect /\ home'.inFlight = home.inFlight
      /\ home'.request = [home.request EXCEPT ![s] = r]
  BY <1>1, <1>6, <1>7 DEF Home, Request
<1>9. \A q \in Slots : home'.request[q] = IF q = s THEN r ELSE home.request[q]
  BY <1>1, <1>8 DEF Home
<1>10. OneRequest(home')
  BY <1>1, <1>5, <1>6, <1>8, <1>9 DEF OneRequest, InPlace
<1>11. InTime(home', game)
  BY <1>1, <1>2, <1>4, <1>6, <1>8, <1>9 DEF InTime
<1> QED
  BY <1>2, <1>8, <1>10, <1>11 DEF HomeInv

LEMMA HearKeepsHomeInv ==
  ASSUME HomeInv, NEW s \in Slots, HearHome(s)
  PROVE  /\ HomeInv'
         /\ home'.dash.status = "success" =>
              home'.dash = home.dash \/ home'.dash.version >= home.dash.version
<1>1. home # None /\ home \in Home /\ OneRequest(home) /\ InTime(home, game)
  BY DEF HomeInv, HearHome
<1>2. 0 \in Versions /\ 0 <= game /\ game \in Nat /\ UNCHANGED game
  BY MaxGameIsNat DEF HomeInv, Versions, HearHome, homeOnly
<1>3. home.request[s] \in Request /\ InPlace(home, s)
  BY <1>1 DEF HearHome, Answered, InPlace, Home, Request
<1> DEFINE r == home.request[s]
           dash == IF r.answer.kind = "data"
                   THEN [status |-> "success", version |-> r.answer.version]
                   ELSE IF r.initial THEN Says("error") ELSE home.dash
<1>4. /\ dash \in [status : DashStates, version : Versions] /\ dash.version <= game
      /\ dash.status = "success" => dash = home.dash \/ dash.version >= home.dash.version
  <2>1. CASE r.answer.kind = "data"
    <3>1. dash = [status |-> "success", version |-> r.answer.version]
      BY <2>1
    <3>2. home.dash.version <= r.answer.version /\ r.answer.version <= game
      BY <1>1, <2>1 DEF InTime
    <3>3. r.answer.version \in Versions /\ home.dash.version \in Versions
      BY <1>1, <1>3 DEF Request, Home
    <3> HIDE DEF dash
    <3> QED
      BY <3>1, <3>2, <3>3, MaxGameIsNat DEF DashStates, Versions
  <2>2. CASE r.answer.kind # "data"
    BY <1>1, <1>2, <2>2 DEF Says, DashStates, Home, InTime
  <2> QED
    BY <2>1, <2>2
<1>5. Free \in Request /\ Free.answer.kind = "none"
  BY <1>2 DEF Free, Request, Answer, Answers
<1>6. home' = [home EXCEPT !.inFlight = FALSE, !.dash = dash, !.request[s] = Free]
  BY DEF HearHome
<1> HIDE DEF dash
<1>7. /\ home' \in Home /\ home'.dash = dash /\ ~home'.inFlight
      /\ home'.request = [home.request EXCEPT ![s] = Free]
  BY <1>1, <1>4, <1>5, <1>6 DEF Home, Request
<1>8. \A q \in Slots : ~InPlace(home', q)
  BY <1>1, <1>3, <1>5, <1>7 DEF OneRequest, InPlace, Home
<1>9. OneRequest(home') /\ InTime(home', game)
  BY <1>4, <1>7, <1>8 DEF OneRequest, InTime, InPlace
<1> QED
  BY <1>2, <1>4, <1>7, <1>9 DEF HomeInv

LEMMA CleanUpKeepsHomeInv ==
  ASSUME HomeInv, CleanUpEffect
  PROVE  HomeInv' /\ home'.dash = home.dash
<1>1. home # None /\ home \in Home /\ InTime(home, game) /\ UNCHANGED game
  BY DEF HomeInv, CleanUpEffect, homeOnly
<1>2. Free \in Request /\ Free.answer.kind = "none"
  BY MaxGameIsNat DEF Free, Request, Answer, Answers, Versions
<1>3. [s \in Slots |-> Free] \in [Slots -> Request]
  BY <1>2
<1>4. /\ home' \in Home /\ home'.dash = home.dash /\ ~home'.inFlight
      /\ home'.request = [s \in Slots |-> Free]
  BY <1>1, <1>3 DEF CleanUpEffect, Home, Request
<1>5. OneRequest(home') /\ InTime(home', game)
  BY <1>1, <1>2, <1>4 DEF OneRequest, InTime, InPlace
<1> QED
  BY <1>1, <1>4, <1>5 DEF HomeInv

\* What a page shows after a step that leaves its requests alone is what it showed,
\* or that it is loading or has nothing to show.
LEMMA OtherHomeSteps ==
  ASSUME HomeInv, HomeAuth \/ SecondPasses \/ HomeSignOut \/ HomeSignedOut
  PROVE  HomeInv' /\ (home'.dash.status = "success" => home'.dash = home.dash)
<1>1. home # None /\ home \in Home /\ UNCHANGED game
  BY DEF HomeInv, HomeAuth, SecondPasses, HomeSignOut, HomeSignedOut, homeOnly
<1>2. /\ \A status \in {"loading", "idle"} :
           Says(status) \in [status : DashStates, version : Versions]
      /\ Says("loading").version = 0 /\ Says("loading").status = "loading"
      /\ Says("idle").version = 0 /\ Says("idle").status = "idle"
  BY MaxGameIsNat DEF Says, DashStates, Versions
<1>3. /\ home' \in Home /\ home'.request = home.request
      /\ home'.effect = home.effect /\ home'.inFlight = home.inFlight
      /\ home'.dash \in {home.dash, Says("loading"), Says("idle")}
  <2>1. CASE HomeAuth
    BY <1>1, <1>2, <2>1 DEF HomeAuth, AuthAnswers, Home
  <2>2. CASE SecondPasses
    BY <1>1, <2>2 DEF SecondPasses, Home
  <2>3. CASE HomeSignOut
    BY <1>1, <2>3 DEF HomeSignOut, Home
  <2>4. CASE HomeSignedOut
    <3>1. \/ home' = [home EXCEPT !.leaving = FALSE, !.auth = "guest", !.dash = Says("idle")]
          \/ home' = [home EXCEPT !.leaving = FALSE]
      BY <2>4 DEF HomeSignedOut
    <3>2. CASE home' = [home EXCEPT !.leaving = FALSE, !.auth = "guest", !.dash = Says("idle")]
      <4> DEFINE idle == Says("idle")
      <4>1. idle \in [status : DashStates, version : Versions]
        BY <1>2
      <4> HIDE DEF idle
      <4>2. home' = [home EXCEPT !.leaving = FALSE, !.auth = "guest", !.dash = idle]
        BY <3>2 DEF idle
      <4>3. /\ home' \in Home /\ home'.request = home.request
            /\ home'.effect = home.effect /\ home'.inFlight = home.inFlight
            /\ home'.dash = idle
        BY <1>1, <4>1, <4>2 DEF Home
      <4> QED
        BY <4>3 DEF idle
    <3>3. CASE home' = [home EXCEPT !.leaving = FALSE]
      BY <1>1, <3>3 DEF Home
    <3> QED
      BY <3>1, <3>2, <3>3
  <2> QED
    BY <2>1, <2>2, <2>3, <2>4
<1>4. /\ home'.dash.version \in {0, home.dash.version}
      /\ home'.dash.status = "success" => home'.dash = home.dash
  BY <1>2, <1>3
<1> QED
  BY <1>1, <1>3, <1>4, ShowKeepsHomeInv

NotBack ==
  home # None /\ home' # None
    /\ home.dash.status = "success" /\ home'.dash.status = "success"
      => home'.dash.version >= home.dash.version

LEMMA VersionsCompare ==
  ASSUME HomeInv, HomeInv', home' = None \/ home'.dash = home.dash
  PROVE  NotBack
<1>1. home # None => home.dash.version \in Nat
  BY MaxGameIsNat DEF HomeInv, Home, Versions
<1> QED
  BY <1>1 DEF NotBack

LEMMA HomeSteps == HomeInv /\ HomeStep => HomeInv' /\ NotBack
<1> SUFFICES ASSUME HomeInv, HomeStep PROVE HomeInv' /\ NotBack
  OBVIOUS
<1>1. home # None => home.dash.version >= home.dash.version
  <2>1. home # None => home.dash.version \in Nat
    BY MaxGameIsNat DEF HomeInv, Home, Versions
  <2> QED
    BY <2>1
<1>2. CASE HomeAuth \/ SecondPasses \/ HomeSignOut \/ HomeSignedOut
  BY <1>1, <1>2, OtherHomeSteps DEF NotBack
<1>3. CASE StartEffect
  <2>1. home # None /\ ~home.inFlight /\ UNCHANGED game
    BY <1>3 DEF StartEffect, HomeInv, OneRequest, homeOnly
  <2>2. PICK s \in Slots : Send(s, TRUE)
    BY <1>3 DEF StartEffect
  <2> QED
    BY <1>1, <2>1, <2>2, SendKeepsHomeInv DEF NotBack
<1>4. CASE Refresh
  <2>1. home # None /\ ~home.inFlight /\ UNCHANGED game
    BY <1>4 DEF Refresh, homeOnly
  <2>2. PICK s \in Slots : Send(s, FALSE)
    BY <1>4 DEF Refresh
  <2> QED
    BY <1>1, <2>1, <2>2, SendKeepsHomeInv DEF NotBack
<1>5. CASE CleanUpEffect
  BY <1>1, <1>5, CleanUpKeepsHomeInv DEF NotBack
<1>6. ASSUME NEW s \in Slots, ServeHome(s)
      PROVE  HomeInv' /\ NotBack
  BY <1>1, <1>6, ServeKeepsHomeInv DEF NotBack
<1>7. ASSUME NEW s \in Slots, HearHome(s)
      PROVE  HomeInv' /\ NotBack
  BY <1>1, <1>7, HearKeepsHomeInv DEF NotBack
<1> QED
  BY <1>2, <1>3, <1>4, <1>5, <1>6, <1>7 DEF HomeStep

\* The game goes on while the page shows what it shows.
LEMMA WorldKeepsHomeInv ==
  ASSUME HomeInv, UNCHANGED home, UNCHANGED game \/ Play
  PROVE  HomeInv' /\ NotBack
<1>1. game' \in Versions /\ game \in Nat /\ game' \in Nat /\ game <= game'
  BY MaxGameIsNat DEF HomeInv, Play, Versions
<1>2. ASSUME home # None
      PROVE  /\ home.dash.version \in Nat
             /\ \A s \in Slots : home.request[s].answer.version \in Nat
  BY <1>2, MaxGameIsNat DEF HomeInv, Home, Versions
<1>3. HomeInv'
  BY <1>1, <1>2 DEF HomeInv, OneRequest, InTime
<1> QED
  BY <1>3, VersionsCompare

LEMMA NextKeepsHomeInv == HomeInv /\ [Next]_vars => HomeInv' /\ NotBack
<1> SUFFICES ASSUME HomeInv, [Next]_vars PROVE HomeInv' /\ NotBack
  OBVIOUS
<1>1. CASE HomeStep /\ UNCHANGED <<policy, shop, sdk, purchase>>
  BY <1>1, HomeSteps
<1>2. CASE ShopStep /\ UNCHANGED home
  <2>1. UNCHANGED game
    BY <1>2 DEF ShopStep, OnPage, server, ShopStore, ShopAuth, ServeShop, ShopPortal,
                OpenModal, Accept, CloseModal, ShopSignOut, ShopSignedOut, ScriptLoads,
                LoadTimeout, Deploy, Click, Created, Rendered, PressPay, Refused
  <2> QED
    BY <1>2, <2>1, WorldKeepsHomeInv
<1>3. CASE Browse
  <2>1. CASE OpenHome
    <3>1. UNCHANGED game /\ home = None /\ home' = FreshHome
      BY <2>1 DEF OpenHome, NoPage, server
    <3>2. Free \in Request /\ Free.answer.kind = "none"
      BY MaxGameIsNat DEF Free, Request, Answer, Answers, Versions
    <3>3. Says("idle") \in [status : DashStates, version : Versions]
      BY MaxGameIsNat DEF Says, DashStates, Versions
    <3>4. FreshHome \in Home
      BY <3>2, <3>3 DEF FreshHome, Home, Request
    <3>5. OneRequest(FreshHome) /\ InTime(FreshHome, game)
      BY <3>2, MaxGameIsNat DEF FreshHome, OneRequest, InTime, InPlace, Says, HomeInv,
                                Versions
    <3> QED
      BY <3>1, <3>4, <3>5 DEF HomeInv, NotBack
  <2>2. CASE OpenShop
    BY <2>2, WorldKeepsHomeInv DEF OpenShop, server
  <2>3. CASE Leave \/ Unload
    BY <2>3 DEF Leave, Unload, server, HomeInv, NotBack
  <2> QED
    BY <1>3, <2>1, <2>2, <2>3 DEF Browse
<1>4. CASE World
  BY <1>4, WorldKeepsHomeInv DEF World, pages, OtherTab
<1>5. CASE UNCHANGED vars
  BY <1>5, WorldKeepsHomeInv DEF vars
<1> QED
  BY <1>1, <1>2, <1>3, <1>4, <1>5 DEF Next

LEMMA InitHomeInv == Init => HomeInv
BY MaxGameIsNat DEF Init, HomeInv, Versions

\* Every variable keeps its type.
THEOREM TypeCorrect == Spec => []TypeOK
<1>1. ShopInv /\ HomeInv => TypeOK
  BY DEF ShopInv, ShopTyped, HomeInv, TypeOK
<1> QED
  BY <1>1, ShopInvariant, InitHomeInv, NextKeepsHomeInv, PTL DEF Spec

\* app/page.tsx:109-142: what the home page shows of the game never goes back in
\* time, for every number of requests there could have been room for.
THEOREM DashboardNeverGoesBack == Spec => NeverGoesBack
<1>1. HomeInv /\ [Next]_vars
        => [home # None /\ home' # None
              /\ home.dash.status = "success" /\ home'.dash.status = "success"
                => home'.dash.version >= home.dash.version]_vars
  BY NextKeepsHomeInv DEF NotBack
<1> QED
  BY <1>1, InitHomeInv, NextKeepsHomeInv, PTL DEF Spec, NeverGoesBack
=============================================================================
