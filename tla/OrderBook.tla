------------------------------ MODULE OrderBook ------------------------------
(***************************************************************************)
(* What an idempotency key promises a shop (payments.service.ts:84-113,    *)
(* schema.prisma:151): the first call that uses it places an order, every  *)
(* later one that asks for the same is answered with that order, and one   *)
(* that asks for anything else is never answered.                          *)
(***************************************************************************)
CONSTANTS Orders, Asks   \* what is asked for, a key among it

VARIABLES book,      \* the orders placed, and what each was asked for
          answered   \* the answers given

vars == <<book, answered>>

Entry == [asked : Asks, order : Orders]

Init == book = {} /\ answered = {}

Place(e) ==
  /\ \A f \in book : f.asked.key # e.asked.key /\ f.order # e.order
  /\ book' = book \union {e}
  /\ UNCHANGED answered

Reply(e) ==
  /\ e \in book
  /\ answered' = answered \union {e}
  /\ UNCHANGED book

Next == \E e \in Entry : Place(e) \/ Reply(e)

Spec == Init /\ [][Next]_vars
=============================================================================
