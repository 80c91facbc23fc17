-------------------------- MODULE MCPaymentOrders --------------------------
(* Instances of PaymentOrders for TLC: prices and amounts for small sets.  *)
EXTENDS PaymentOrders, TLC

CONSTANTS o1, k1, k2, o2

MCPrice  == [o \in Orders |-> 100]
MCAmount == [k \in Keys |-> IF k = k2 THEN 200 ELSE 100]
MCAmountEqual == [k \in Keys |-> 100]
=============================================================================
