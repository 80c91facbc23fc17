---------------------------- MODULE OrderCreation ----------------------------
(***************************************************************************)
(* createOrder of payments.service.ts: a shop page asks for an order with  *)
(* an idempotency key of its own making, and may ask again, from another   *)
(* tab or after a lost answer, while the first call still runs.  What      *)
(* becomes of an order once it exists is the subject of PaymentOrders.     *)
(*                                                                         *)
(* Each awaited statement is one action; a call refused before it has      *)
(* written anything is not a step.  An order is never deleted.             *)
(***************************************************************************)
CONSTANTS
  Orders,    \* order ids, random and never drawn twice
  Keys,      \* idempotency keys
  Accounts,  \* web accounts
  Prices,    \* the prices validatePaymentPrice accepts; the gold is 2000 times that
  Calls,     \* calls of createOrder in progress at the same time
  None       \* no row, or nothing read

\* A row, or what a call asks for.
Row == [key : Keys, account : Accounts, price : Prices]

ASSUME NoneIsNoValue == None \notin Orders /\ None \notin Row

VARIABLES
  order,     \* the payment_orders table, as far as createOrder fills it in
  call,      \* what each call was asked and where it stands
  answered   \* history: what was asked for, and the order the answer names

vars == <<order, call, answered>>

Call == [pc : {"idle", "insert", "reread", "answer"}, asked : Row \union {None},
         order : Orders \union {None}]

Idle == [pc |-> "idle", asked |-> None, order |-> None]

Init ==
  /\ order = [o \in Orders |-> None]
  /\ call = [c \in Calls |-> Idle]
  /\ answered = {}

At(c, step) == call[c].pc = step

\* The order the index on idempotencyKeyHash finds.
Holds(o, k) == order[o] # None /\ order[o].key = k
Taken(k) == \E o \in Orders : Holds(o, k)

\* assertIdempotentOrder passes: the key was used for the same account and price.
SameOrder(o, asked) == order[o] = asked

AnswerWith(c, asked, o) ==
  call' = [call EXCEPT ![c] = [pc |-> "answer", asked |-> asked, order |-> o]]

-----------------------------------------------------------------------------
\* Faulty: the order found first is replayed without comparing it.
ReadAny(c, asked) ==
  /\ At(c, "idle")
  /\ \/ \E o \in Orders : Holds(o, asked.key) /\ AnswerWith(c, asked, o)
     \/ /\ ~Taken(asked.key)
        /\ call' = [call EXCEPT ![c] = [pc |-> "insert", asked |-> asked, order |-> None]]
  /\ UNCHANGED <<order, answered>>

\* A key in use is answered with its order, if that is what was asked for.
Read(c, asked) ==
  /\ At(c, "idle")
  /\ \/ \E o \in Orders :
          Holds(o, asked.key) /\ SameOrder(o, asked) /\ AnswerWith(c, asked, o)
     \/ /\ ~Taken(asked.key)
        /\ call' = [call EXCEPT ![c] = [pc |-> "insert", asked |-> asked, order |-> None]]
  /\ UNCHANGED <<order, answered>>

\* Faulty: the key has no unique index.
InsertAnyway(c) ==
  LET asked == call[c].asked
  IN  /\ At(c, "insert")
      /\ \E o \in Orders : /\ order[o] = None
                           /\ order' = [order EXCEPT ![o] = asked]
                           /\ AnswerWith(c, asked, o)
      /\ UNCHANGED answered

\* Faulty: the order is created before its account is known.
InsertAnonymous(c) ==
  LET asked == call[c].asked
  IN  /\ At(c, "insert") /\ ~Taken(asked.key)
      /\ \E o \in Orders : /\ order[o] = None
                           /\ order' = [order EXCEPT ![o] = [asked EXCEPT !.account = None]]
                           /\ AnswerWith(c, asked, o)
      /\ UNCHANGED answered

\* The insertion fails with P2002 when another call has used the key since.
Insert(c) ==
  LET asked == call[c].asked
  IN  /\ At(c, "insert")
      /\ \/ /\ ~Taken(asked.key)
            /\ \E o \in Orders : /\ order[o] = None
                                 /\ order' = [order EXCEPT ![o] = asked]
                                 /\ AnswerWith(c, asked, o)
         \/ /\ Taken(asked.key)
            /\ call' = [call EXCEPT ![c].pc = "reread"]
            /\ UNCHANGED order
      /\ UNCHANGED answered

\* Faulty: after P2002 the order found is replayed without comparing it.
RereadAny(c) ==
  LET asked == call[c].asked
  IN  /\ At(c, "reread")
      /\ \E o \in Orders : Holds(o, asked.key) /\ AnswerWith(c, asked, o)
      /\ UNCHANGED <<order, answered>>

Reread(c) ==
  LET asked == call[c].asked
  IN  /\ At(c, "reread")
      /\ \E o \in Orders :
           /\ Holds(o, asked.key)
           /\ \/ SameOrder(o, asked) /\ AnswerWith(c, asked, o)
              \/ ~SameOrder(o, asked) /\ call' = [call EXCEPT ![c] = Idle]
      /\ UNCHANGED <<order, answered>>

Answer(c) ==
  /\ At(c, "answer")
  /\ answered' = answered \union {[asked |-> call[c].asked, order |-> call[c].order]}
  /\ call' = [call EXCEPT ![c] = Idle]
  /\ UNCHANGED order

\* The process stops, or the answer is lost.
Throw(c) ==
  /\ ~At(c, "idle")
  /\ call' = [call EXCEPT ![c] = Idle]
  /\ UNCHANGED <<order, answered>>

Next == \E c \in Calls :
  \/ \E asked \in Row : Read(c, asked)
  \/ Insert(c) \/ Reread(c) \/ Answer(c) \/ Throw(c)

Spec == Init /\ [][Next]_vars

-----------------------------------------------------------------------------
(* Properties.                                                             *)

TypeOK ==
  /\ order \in [Orders -> Row \union {None}]
  /\ call \in [Calls -> Call]
  /\ answered \subseteq [asked : Row, order : Orders]

\* schema.prisma:151 and payments.service.ts:104-126: calls that race with one key
\* leave one order behind, whatever becomes of their answers.
OneOrderPerKey ==
  \A o, q \in Orders : order[o] # None /\ order[q] # None /\ order[o].key = order[q].key
    => o = q

\* payments.service.spec.ts:126-150: all answers to one key name one order, that
\* was asked for at that price by that account; a key used again for another
\* price or by another account is never answered.
AnswersAgree ==
  \A x, y \in answered :
    /\ order[x.order] = x.asked
    /\ x.asked.key = y.asked.key => x = y

\* payments.service.ts:84-113: the table is the book of OrderBook; a call places an
\* order under a key nobody used, or is answered with the order its key stands for,
\* and nothing that races with it changes what the key stands for.
Entries == {[asked |-> order[o], order |-> o] : o \in {p \in Orders : order[p] # None}}

Book == INSTANCE OrderBook WITH Asks <- Row, book <- Entries

ImplementsOrderBook == Book!Spec
=============================================================================
