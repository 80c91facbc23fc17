------------------------- MODULE OrderCreationProofs -------------------------
(***************************************************************************)
(* What OrderCreation keeps for every number of orders, keys, accounts,    *)
(* prices and concurrent calls.                                            *)
(***************************************************************************)
EXTENDS OrderCreation, TLAPS

\* A call that has yet to write knows what it was asked for; a call about to
\* answer found, or made, exactly that order.
CallsFound ==
  \A c \in Calls :
    /\ call[c].pc \in {"insert", "reread", "answer"} => call[c].asked \in Row
    /\ At(c, "answer") => /\ call[c].order \in Orders
                          /\ order[call[c].order] = call[c].asked

AnswersAreAsked == \A x \in answered : order[x.order] = x.asked

Inv == TypeOK /\ CallsFound /\ OneOrderPerKey /\ AnswersAreAsked

LEMMA InvInit == Init => Inv
BY DEF Init, Inv, TypeOK, CallsFound, OneOrderPerKey, AnswersAreAsked, Call, Idle, At

\* Nothing a call does without writing an order can break the invariant, as long as
\* what it goes on with is what it found.
LEMMA CallMoves ==
  ASSUME Inv, NEW c \in Calls, NEW f \in Call, UNCHANGED order,
         call' = [call EXCEPT ![c] = f],
         f.pc \in {"insert", "reread", "answer"} => f.asked \in Row,
         f.pc = "answer" => f.order \in Orders /\ order[f.order] = f.asked
  PROVE  /\ CallsFound' /\ OneOrderPerKey'
         /\ order' \in [Orders -> Row \union {None}] /\ call' \in [Calls -> Call]
BY DEF Inv, TypeOK, CallsFound, OneOrderPerKey, At

LEMMA InsertStep ==
  ASSUME Inv, NEW c \in Calls, NEW o \in Orders, At(c, "insert"),
         ~Taken(call[c].asked.key), order[o] = None,
         order' = [order EXCEPT ![o] = call[c].asked],
         AnswerWith(c, call[c].asked, o), UNCHANGED answered
  PROVE  Inv'
<1> DEFINE asked == call[c].asked
<1>1. asked \in Row /\ asked # None
  BY NoneIsNoValue DEF Inv, CallsFound, At
<1>2. \A q \in Orders : order[q] # None => order'[q] = order[q] /\ order[q].key # asked.key
  BY DEF Inv, TypeOK, Taken, Holds
<1>3. order'[o] = asked
  BY DEF Inv, TypeOK
<1>4. \A q \in Orders : q # o => order'[q] = order[q]
  BY DEF Inv, TypeOK
<1>5. TypeOK'
  BY <1>1 DEF Inv, TypeOK, Call, AnswerWith
<1>6. OneOrderPerKey'
  BY <1>2, <1>3, <1>4 DEF Inv, OneOrderPerKey
<1>7. CallsFound'
  <2>1. ASSUME NEW q \in Calls, q # c
        PROVE  call'[q] = call[q]
    BY <2>1 DEF Inv, TypeOK, AnswerWith
  <2>2. call'[c] = [pc |-> "answer", asked |-> asked, order |-> o]
    BY DEF Inv, TypeOK, AnswerWith
  <2>3. /\ call'[c].pc = "answer" /\ call'[c].asked \in Row
        /\ call'[c].order \in Orders /\ order'[call'[c].order] = call'[c].asked
    BY <1>1, <1>3, <2>2
  <2>4. ASSUME NEW q \in Calls, q # c
        PROVE  /\ call'[q].pc \in {"insert", "reread", "answer"} => call'[q].asked \in Row
               /\ call'[q].pc = "answer" => /\ call'[q].order \in Orders
                                           /\ order'[call'[q].order] = call'[q].asked
    BY <1>2, <2>1, <2>4, NoneIsNoValue DEF Inv, CallsFound, At
  <2>5. QED
    BY <2>3, <2>4 DEF CallsFound, At
<1>8. AnswersAreAsked'
  BY <1>2, NoneIsNoValue DEF Inv, AnswersAreAsked, TypeOK
<1>9. QED
  BY <1>5, <1>6, <1>7, <1>8 DEF Inv

LEMMA InvStep == Inv /\ [Next]_vars => Inv'
<1> SUFFICES ASSUME Inv, [Next]_vars
             PROVE  Inv'
  OBVIOUS
<1>0. Idle \in Call
  BY DEF Idle, Call
<1>1. ASSUME NEW c \in Calls, NEW asked \in Row, Read(c, asked)
      PROVE  Inv'
  <2>1. CASE \E o \in Orders :
               Holds(o, asked.key) /\ SameOrder(o, asked) /\ AnswerWith(c, asked, o)
    BY <1>1, <2>1, CallMoves
       DEF Read, AnswerWith, SameOrder, Call, Inv, TypeOK, AnswersAreAsked
  <2>2. CASE call' = [call EXCEPT ![c] = [pc |-> "insert", asked |-> asked, order |-> None]]
    BY <1>1, <2>2, CallMoves DEF Read, Call, Inv, TypeOK, AnswersAreAsked
  <2>3. QED
    BY <1>1, <2>1, <2>2 DEF Read
<1>2. ASSUME NEW c \in Calls, Insert(c)
      PROVE  Inv'
  <2>1. CASE Taken(call[c].asked.key)
    <3>1. call' = [call EXCEPT ![c] = [call[c] EXCEPT !.pc = "reread"]]
      BY <1>2, <2>1 DEF Insert
    <3>2. /\ [call[c] EXCEPT !.pc = "reread"] \in Call
          /\ [call[c] EXCEPT !.pc = "reread"].pc = "reread"
          /\ [call[c] EXCEPT !.pc = "reread"].asked \in Row
      BY <1>2 DEF Insert, At, Inv, TypeOK, CallsFound, Call
    <3>3. QED
      BY <1>2, <2>1, <3>1, <3>2, CallMoves DEF Insert, Inv, TypeOK, AnswersAreAsked
  <2>2. CASE ~Taken(call[c].asked.key)
    BY <1>2, <2>2, InsertStep DEF Insert
  <2>3. QED
    BY <2>1, <2>2
<1>3. ASSUME NEW c \in Calls, Reread(c)
      PROVE  Inv'
  <2>1. PICK o \in Orders :
          \/ SameOrder(o, call[c].asked) /\ AnswerWith(c, call[c].asked, o)
          \/ call' = [call EXCEPT ![c] = Idle]
    BY <1>3 DEF Reread
  <2>2. call[c].asked \in Row
    BY <1>3 DEF Reread, At, Inv, CallsFound
  <2>3. CASE SameOrder(o, call[c].asked) /\ AnswerWith(c, call[c].asked, o)
    BY <1>3, <2>2, <2>3, CallMoves
       DEF Reread, AnswerWith, SameOrder, Call, Inv, TypeOK, AnswersAreAsked
  <2>4. CASE call' = [call EXCEPT ![c] = Idle]
    BY <1>0, <1>3, <2>4, CallMoves DEF Reread, Idle, Inv, TypeOK, AnswersAreAsked
  <2>5. QED
    BY <2>1, <2>3, <2>4
<1>4. ASSUME NEW c \in Calls, Answer(c)
      PROVE  Inv'
  <2>1. /\ [asked |-> call[c].asked, order |-> call[c].order] \in [asked : Row, order : Orders]
        /\ order[call[c].order] = call[c].asked
    BY <1>4 DEF Answer, At, Inv, CallsFound
  <2>2. TypeOK' /\ CallsFound' /\ OneOrderPerKey'
    BY <1>0, <1>4, <2>1, CallMoves DEF Answer, Idle, Inv, TypeOK
  <2>3. AnswersAreAsked'
    BY <1>4, <2>1 DEF Answer, Inv, AnswersAreAsked
  <2>4. QED
    BY <2>2, <2>3 DEF Inv
<1>5. ASSUME NEW c \in Calls, Throw(c)
      PROVE  Inv'
  BY <1>0, <1>5, CallMoves DEF Throw, Idle, Inv, TypeOK, AnswersAreAsked
<1>6. CASE UNCHANGED vars
  BY <1>6 DEF vars, Inv, TypeOK, CallsFound, OneOrderPerKey, AnswersAreAsked, At
<1>7. QED
  BY <1>1, <1>2, <1>3, <1>4, <1>5, <1>6 DEF Next

LEMMA Safety == Spec => []Inv
BY InvInit, InvStep, PTL DEF Spec

\* Calls that race with one idempotency key leave one order, however many there are.
THEOREM KeysAreUsedOnce == Spec => [](TypeOK /\ OneOrderPerKey)
<1>1. Inv => TypeOK /\ OneOrderPerKey
  BY DEF Inv
<1>2. QED
  BY <1>1, Safety, PTL

\* All answers to one key name one order, which has the account and the price that
\* every one of the answered calls asked for.
THEOREM AnswersAlwaysAgree == Spec => []AnswersAgree
<1>1. Inv => AnswersAgree
  <2> SUFFICES ASSUME Inv, NEW x \in answered, NEW y \in answered
               PROVE  /\ order[x.order] = x.asked
                      /\ x.asked.key = y.asked.key => x = y
    BY DEF AnswersAgree
  <2>1. /\ x \in [asked : Row, order : Orders] /\ y \in [asked : Row, order : Orders]
        /\ order[x.order] = x.asked /\ order[y.order] = y.asked
    BY DEF Inv, TypeOK, AnswersAreAsked
  <2>2. ASSUME x.asked.key = y.asked.key
        PROVE  x.order = y.order
    BY <2>1, <2>2, NoneIsNoValue DEF Inv, OneOrderPerKey
  <2>3. QED
    BY <2>1, <2>2
<1>2. QED
  BY <1>1, Safety, PTL

-----------------------------------------------------------------------------
(* createOrder implements OrderBook.                                       *)

LEMMA EntryIn ==
  ASSUME Inv
  PROVE  \A e : e \in Entries <=> /\ e \in Book!Entry
                                  /\ order[e.order] = e.asked
BY NoneIsNoValue DEF Entries, Book!Entry, Inv, TypeOK

\* An insertion places an order under a key that no entry has.
LEMMA InsertPlaces ==
  ASSUME Inv, NEW c \in Calls, NEW o \in Orders, At(c, "insert"),
         ~Taken(call[c].asked.key), order[o] = None,
         order' = [order EXCEPT ![o] = call[c].asked], UNCHANGED answered
  PROVE  Book!Next
<1> DEFINE e == [asked |-> call[c].asked, order |-> o]
<1>1. call[c].asked \in Row /\ call[c].asked # None
  BY NoneIsNoValue DEF Inv, CallsFound, At
<1>2. e \in Book!Entry
  BY <1>1 DEF Book!Entry
<1>3. \A f \in Entries : f.asked.key # e.asked.key /\ f.order # e.order
  <2> SUFFICES ASSUME NEW f \in Entries
               PROVE  f.asked.key # e.asked.key /\ f.order # e.order
    OBVIOUS
  <2>1. PICK p \in Orders : order[p] # None /\ f = [asked |-> order[p], order |-> p]
    BY DEF Entries
  <2>2. p # o /\ order[p].key # call[c].asked.key
    BY <2>1 DEF Taken, Holds
  <2>3. QED
    BY <2>1, <2>2
<1>4. Entries' = Entries \union {e}
  <2>1. /\ order'[o] = call[c].asked
        /\ \A p \in Orders : p # o => order'[p] = order[p]
    BY DEF Inv, TypeOK
  <2>2. Entries' = {[asked |-> order'[p], order |-> p] : p \in {p \in Orders : order'[p] # None}}
    BY DEF Entries
  <2>3. \A x \in Entries' : x \in Entries \/ x = e
    BY <2>1, <2>2 DEF Entries
  <2>4. \A x \in Entries : x \in Entries'
    BY <2>1, <2>2 DEF Entries
  <2>5. e \in Entries'
    BY <1>1, <2>1, <2>2
  <2> HIDE DEF e
  <2>6. QED
    BY <2>3, <2>4, <2>5
<1>5. Book!Place(e)
  BY <1>3, <1>4 DEF Book!Place
<1>6. QED
  BY <1>2, <1>5 DEF Book!Next

LEMMA StepBooks == Inv /\ [Next]_vars => [Book!Next]_(Book!vars)
<1> SUFFICES ASSUME Inv, [Next]_vars
             PROVE  Book!Next \/ UNCHANGED <<Entries, answered>>
  BY DEF Book!vars
<1>1. ASSUME UNCHANGED <<order, answered>>
      PROVE  UNCHANGED <<Entries, answered>>
  BY <1>1 DEF Entries
<1>2. ASSUME NEW c \in Calls, Insert(c)
      PROVE  Book!Next \/ UNCHANGED <<Entries, answered>>
  BY <1>1, <1>2, InsertPlaces DEF Insert
<1>3. ASSUME NEW c \in Calls, Answer(c)
      PROVE  Book!Next
  <2> DEFINE e == [asked |-> call[c].asked, order |-> call[c].order]
  <2>1. call[c].asked \in Row /\ call[c].order \in Orders
        /\ order[call[c].order] = call[c].asked
    BY <1>3 DEF Answer, At, Inv, CallsFound
  <2>2. e \in Book!Entry /\ e \in Entries
    BY <2>1, EntryIn DEF Book!Entry
  <2>3. Entries' = Entries
    BY <1>3 DEF Answer, Entries
  <2>4. Book!Reply(e)
    BY <1>3, <2>2, <2>3 DEF Answer, Book!Reply
  <2>5. QED
    BY <2>2, <2>4 DEF Book!Next
<1>4. QED
  BY <1>1, <1>2, <1>3 DEF Next, Read, Reread, Throw, vars

\* payments.service.ts:84-113: whatever races, a key stands for the order that was
\* placed under it first and for nothing else.
THEOREM CreationImplementsOrderBook == Spec => ImplementsOrderBook
<1>1. Init => Book!Init
  BY DEF Init, Book!Init, Entries
<1>2. QED
  BY <1>1, StepBooks, Safety, PTL DEF Spec, ImplementsOrderBook, Book!Spec
=============================================================================
