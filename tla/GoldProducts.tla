---------------------------- MODULE GoldProducts ----------------------------
(***************************************************************************)
(* The price policy: which prices may be paid and what gold they buy, as   *)
(* the server decides it (payment-products.ts) and as the shop page does   *)
(* with the policy it was given (validatePaymentAmount of shop/page.tsx).  *)
(* Prices are safe integers on both sides; anything else is refused.       *)
(***************************************************************************)
EXTENDS Naturals

Policy == [min : Nat \ {0}, max : Nat, step : Nat \ {0}, rate : Nat \ {0}]

\* What the server checks: validatePaymentPrice.
Payable(policy, price) ==
  price >= policy.min /\ price <= policy.max /\ price % policy.step = 0

\* What the page checks before it lets the user ask: validatePaymentAmount.
Offered(policy, price) ==
  ~(price < policy.min \/ price > policy.max \/ price % policy.step # 0)

\* calculateGoldAmount on the server; the page multiplies by the rate it was given.
GoldFor(policy, price) == price * policy.rate

\* What is bought: by createGoldPurchase on the server, by openModal on the page.
Quote(policy, price) == [price |-> price, gold |-> GoldFor(policy, price)]
=============================================================================
