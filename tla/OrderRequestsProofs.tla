------------------------- MODULE OrderRequestsProofs -------------------------
(***************************************************************************)
(* Proofs about OrderRequests: counted and refused as they are, the calls  *)
(* of createOrder behind the limiter are calls of OrderCreation, a counter *)
(* that stays has lost its EXPIRE, and orders keep to the limits, for      *)
(* every number of subjects and calls and every limit.                     *)
(***************************************************************************)
EXTENDS OrderRequests, OrderCreationProofs, FiniteSetTheorems

-----------------------------------------------------------------------------
(* The counters.  A call that is being counted knows what it asks for; a   *)
(* call whose count was the first of a window is the one to set it.        *)

CountersTyped ==
  /\ counter \in [Subjects -> Counter]
  /\ gate \in [Calls -> Gate]
  /\ \A c \in Calls : gate[c].at # "closed" => gate[c].asked \in Row

CounterInv == CountersTyped /\ CountersExpire

\* The call c is to set the window of k.
Sets(c, k) == gate[c].at = "expire" /\ k = Subject(gate[c].asked, gate[c].scope)

LEMMA SubjectsExist ==
  ASSUME NEW asked \in Row, NEW scope
  PROVE  Subject(asked, scope) \in Subjects
BY SubjectsAreCounted DEF Subject, Row

LEMMA InitCounterInv == RequestInit => CounterInv
BY DEF RequestInit, LimiterInit, CounterInv, CountersTyped, CountersExpire, Counter, NoKey,
       Gate, Closed, Scopes

\* INCR: a key that was not there is begun by a call that passes.
LEMMA CountKeepsCounterInv ==
  ASSUME CounterInv, NEW c \in Calls, NEW asked \in Row, NEW scope \in Scopes,
         gate[c].at # "expire", Count(c, asked, scope)
  PROVE  CounterInv'
<1> DEFINE k == Subject(asked, scope)
           n == counter[k].count + 1
           g == IF Passes(k, n)
                THEN [at |-> IF First(k, n) THEN "expire" ELSE "counted",
                      scope |-> scope, asked |-> asked]
                ELSE Closed
<1>1. k \in Subjects
  BY SubjectsExist
<1>2. /\ counter[k] \in Counter /\ counter[k].count \in Nat /\ Limit[k] \in Nat \ {0}
  BY <1>1, LimitIsPositive DEF CounterInv, CountersTyped, Counter
<1>3. gate' = [gate EXCEPT ![c] = g] /\ lost' = lost
  BY DEF Count, Increment
<1>4. counter' = [counter EXCEPT ![k].count = UpTo(Limit[k] + 1, n)]
  BY <1>2 DEF Count, Increment
<1>5. UpTo(Limit[k] + 1, n) \in Nat
  BY <1>2 DEF UpTo
<1>6. g \in Gate /\ (g.at # "closed" => g.asked = asked)
  BY DEF Gate, Closed, Scopes
<1>7. /\ \A q \in Subjects : q # k => counter'[q] = counter[q]
      /\ counter'[k].expires = counter[k].expires
      /\ counter' \in [Subjects -> Counter]
  BY <1>1, <1>2, <1>4, <1>5 DEF CounterInv, CountersTyped, Counter
<1>8. counter[k].count = 0 => g.at = "expire" /\ g.asked = asked /\ g.scope = scope
  BY <1>2 DEF Passes, First
<1> HIDE DEF k, n, g
<1>9. /\ gate' \in [Calls -> Gate]
      /\ \A q \in Calls : gate'[q] = IF q = c THEN g ELSE gate[q]
  BY <1>3, <1>6 DEF CounterInv, CountersTyped
<1>10. CountersTyped'
  BY <1>6, <1>7, <1>9 DEF CounterInv, CountersTyped
<1>11. \A q \in Calls, s \in Subjects : Sets(q, s) => Sets(q, s)'
  BY <1>9 DEF Sets, Subject
<1>12. ASSUME NEW s \in Subjects, counter'[s].count > 0
       PROVE  counter'[s].expires \/ s \in lost' \/ \E q \in Calls : Sets(q, s)'
  <2>1. CASE counter[s].count > 0
    <3>1. counter[s].expires \/ s \in lost \/ \E q \in Calls : Sets(q, s)
      BY <2>1 DEF CounterInv, CountersExpire, Sets
    <3> QED
      BY <3>1, <1>3, <1>7, <1>11
  <2>2. CASE ~(counter[s].count > 0)
    <3>1. counter[s].count = 0
      BY <2>2 DEF CounterInv, CountersTyped, Counter
    <3>2. s = k
      BY <1>7, <1>12, <2>2
    <3>3. Sets(c, s)'
      BY <1>8, <1>9, <3>1, <3>2 DEF Sets, Subject, k
    <3> QED
      BY <3>3
  <2> QED
    BY <2>1, <2>2
<1>13. CountersExpire'
  BY <1>12 DEF CountersExpire, Sets
<1> QED
  BY <1>10, <1>13 DEF CounterInv

LEMMA ExpireKeepsCounterInv ==
  ASSUME CounterInv, NEW c \in Calls, Expire(c)
  PROVE  CounterInv'
<1> DEFINE k == Subject(gate[c].asked, gate[c].scope)
           there == counter[k].count > 0
<1>1. k \in Subjects
  BY SubjectsExist DEF Expire, CounterInv, CountersTyped
<1>2. counter[k] \in Counter /\ gate[c] \in Gate
  BY <1>1 DEF CounterInv, CountersTyped
<1>3. /\ counter' = [counter EXCEPT ![k].expires = there]
      /\ gate' = [gate EXCEPT ![c].at = "counted"]
      /\ lost' = lost
  BY DEF Expire, SetExpiry
<1>4. there \in BOOLEAN /\ (counter[k].count > 0 => there)
  OBVIOUS
<1> HIDE DEF k, there
<1>5. /\ counter' \in [Subjects -> Counter]
      /\ \A q \in Subjects : counter'[q].count = counter[q].count
      /\ \A q \in Subjects : q # k => counter'[q] = counter[q]
      /\ counter'[k].count > 0 => counter'[k].expires
  BY <1>1, <1>2, <1>3, <1>4 DEF CounterInv, CountersTyped, Counter
<1>6. /\ gate' \in [Calls -> Gate]
      /\ \A q \in Calls : gate'[q].asked = gate[q].asked
      /\ \A q \in Calls : gate'[q].at # "closed" => gate[q].at # "closed"
  BY <1>2, <1>3 DEF Expire, CounterInv, CountersTyped, Gate
<1>7. \A q \in Calls, s \in Subjects : s # k /\ Sets(q, s) => Sets(q, s)'
  BY <1>2, <1>3 DEF CounterInv, CountersTyped, Sets, k
<1>8. CountersTyped'
  BY <1>5, <1>6 DEF CounterInv, CountersTyped
<1>9. ASSUME NEW s \in Subjects, counter'[s].count > 0
      PROVE  counter'[s].expires \/ s \in lost' \/ \E q \in Calls : Sets(q, s)'
  <2>1. CASE s = k
    BY <1>5, <1>9, <2>1
  <2>2. CASE s # k
    BY <1>3, <1>5, <1>7, <1>9, <2>2 DEF CounterInv, CountersExpire, Sets
  <2> QED
    BY <2>1, <2>2
<1> QED
  BY <1>8, <1>9 DEF CounterInv, CountersExpire, Sets

\* A call that ends while its EXPIRE is due is the one way to lose it.
LEMMA CloseKeepsCounterInv ==
  ASSUME CounterInv, NEW c \in Calls, UNCHANGED counter,
         gate' = [gate EXCEPT ![c] = Closed], lost \subseteq lost',
         gate[c].at = "expire" => Subject(gate[c].asked, gate[c].scope) \in lost'
  PROVE  CounterInv'
<1>1. Closed \in Gate /\ Closed.at = "closed"
  BY DEF Closed, Gate, Scopes
<1>2. \A q \in Calls : gate'[q] = IF q = c THEN Closed ELSE gate[q]
  BY DEF CounterInv, CountersTyped
<1>3. CountersTyped'
  BY <1>1, <1>2 DEF CounterInv, CountersTyped
<1>4. \A q \in Calls, s \in Subjects : Sets(q, s) => Sets(q, s)' \/ s \in lost'
  BY <1>2 DEF Sets, Subject
<1>5. CountersExpire'
  BY <1>4 DEF CounterInv, CountersExpire, Sets
<1> QED
  BY <1>3, <1>5 DEF CounterInv

LEMMA NextKeepsCounterInv == CounterInv /\ [RequestNext]_allVars => CounterInv'
<1> SUFFICES ASSUME CounterInv, [RequestNext]_allVars PROVE CounterInv'
  OBVIOUS
<1>1. ASSUME NEW c \in Calls, NEW asked \in Row, Arrive(c, asked)
      PROVE  CounterInv'
  BY <1>1, CountKeepsCounterInv DEF Arrive, Closed, Scopes
<1>2. ASSUME NEW c \in Calls, CountAccount(c)
      PROVE  CounterInv'
  BY <1>2, CountKeepsCounterInv DEF CountAccount, Scopes, CounterInv, CountersTyped
<1>3. ASSUME NEW c \in Calls, Admit(c)
      PROVE  CounterInv'
  BY <1>3, CloseKeepsCounterInv DEF Admit, limiter
<1>4. ASSUME NEW c \in Calls, GiveUp(c)
      PROVE  CounterInv'
  BY <1>4, CloseKeepsCounterInv DEF GiveUp
<1>5. CASE UNCHANGED <<counter, gate, lost>>
  BY <1>5 DEF CounterInv, CountersTyped, CountersExpire, Subject
<1>6. ASSUME NEW k \in Subjects, WindowEnds(k), UNCHANGED gate
      PROVE  CounterInv'
  <2>1. NoKey \in Counter /\ NoKey.count = 0
    BY DEF NoKey, Counter
  <2>2. \A q \in Subjects : counter'[q] = IF q = k THEN NoKey ELSE counter[q]
    BY <1>6 DEF WindowEnds, CounterInv, CountersTyped
  <2>3. CountersTyped'
    BY <1>6, <2>1 DEF WindowEnds, CounterInv, CountersTyped
  <2>4. CountersExpire'
    BY <1>6, <2>1, <2>2 DEF WindowEnds, CounterInv, CountersExpire, Subject
  <2> QED
    BY <2>3, <2>4 DEF CounterInv
<1> QED
  BY <1>1, <1>2, <1>3, <1>4, <1>5, <1>6, ExpireKeepsCounterInv
     DEF RequestNext, Create, Redis, Disconnect, Reconnect, allVars, limiter

\* redis.service.ts:8-9: a counter that does not expire has lost its EXPIRE.
THEOREM CountersAlwaysExpire == RequestSpec => []CountersExpire
<1>1. CounterInv => CountersExpire
  BY DEF CounterInv
<1> QED
  BY <1>1, InitCounterInv, NextKeepsCounterInv, PTL DEF RequestSpec

-----------------------------------------------------------------------------
(* The limiter takes nothing from what createOrder promises.               *)

LEMMA RequestStepCreates == CounterInv /\ [RequestNext]_allVars => [Next]_vars
<1> SUFFICES ASSUME CounterInv, [RequestNext]_allVars PROVE [Next]_vars
  OBVIOUS
<1>1. ASSUME NEW c \in Calls,
             (\E asked \in Row : Arrive(c, asked)) \/ Expire(c) \/ CountAccount(c) \/ GiveUp(c)
      PROVE  UNCHANGED vars
  BY <1>1 DEF Arrive, Expire, CountAccount, Count, GiveUp
<1>2. ASSUME NEW c \in Calls, Admit(c)
      PROVE  Next
  BY <1>2 DEF Admit, Next, CounterInv, CountersTyped
<1>3. ASSUME NEW c \in Calls, Create(c)
      PROVE  Next
  BY <1>3 DEF Create, Next
<1> QED
  BY <1>1, <1>2, <1>3 DEF RequestNext, Redis, allVars

\* payments.controller.ts:88-101: whatever the counters do, createOrder is called as
\* OrderCreation says.
THEOREM RequestsCreateOrders == RequestSpec => Spec
<1>1. RequestInit => Init
  BY DEF RequestInit
<1> QED
  BY <1>1, InitCounterInv, NextKeepsCounterInv, RequestStepCreates, PTL DEF RequestSpec, Spec

\* payments.service.ts:104-126: one key makes one order, limiter and all.
THEOREM RequestsUseKeysOnce == RequestSpec => []OneOrderPerKey
BY RequestsCreateOrders, KeysAreUsedOnce, PTL

\* payments.service.spec.ts:126-150: all answers to a key name one order.
THEOREM RequestsAgree == RequestSpec => []AnswersAgree
BY RequestsCreateOrders, AnswersAlwaysAgree, PTL

\* payments.service.ts:84-113: behind the limiter, a key stands for one order.
THEOREM RequestsImplementOrderBook == RequestSpec => ImplementsOrderBook
BY RequestsCreateOrders, CreationImplementsOrderBook, PTL

-----------------------------------------------------------------------------
(* The limit.  The window that runs has let no more calls pass than it has *)
(* counted, the ones before it no more than the limit each.  A call that   *)
(* passed is counted once, wherever it is on its way to its order.         *)

MayMake(k) ==
  IF counter[k].count = 0 THEN windows[k] * Limit[k]
  ELSE (windows[k] - 1) * Limit[k] + UpTo(Limit[k], counter[k].count)

Bounded(k) ==
  /\ IsFiniteSet(Made(k)) /\ IsFiniteSet(Making(k))
  /\ counter[k].count > 0 => windows[k] > 0
  /\ \/ windows[k] = MaxWindows
     \/ Cardinality(Made(k)) + Cardinality(Making(k)) <= MayMake(k)

OpenIsIdle == \A c \in Calls : gate[c].at # "closed" => At(c, "idle")

Typed ==
  /\ CounterInv /\ Inv
  /\ windows \in [Subjects -> 0..MaxWindows]

LimitInv == Typed /\ OpenIsIdle /\ \A k \in Subjects : Bounded(k)

\* The numbers: a call more in a window that lets it pass, and a window that ends.
LEMMA OneMore ==
  ASSUME NEW w \in Nat, NEW n \in Nat, NEW l \in Nat \ {0}, NEW m \in Nat \ {0},
         NEW t \in Nat, n > 0 => w > 0,
         t <= IF n = 0 THEN w * l ELSE (w - 1) * l + UpTo(l, n),
         NEW v, v = IF n = 0 THEN UpTo(m, w + 1) ELSE w, v # m
  PROVE  /\ t <= (v - 1) * l + UpTo(l, UpTo(l + 1, n + 1))
         /\ n + 1 <= l => t + 1 <= (v - 1) * l + UpTo(l, UpTo(l + 1, n + 1))
<1>1. CASE n = 0
  <2>1. v = w + 1 /\ UpTo(l, UpTo(l + 1, n + 1)) = 1
    BY <1>1 DEF UpTo
  <2>2. (v - 1) * l = w * l /\ w * l \in Nat
    BY <2>1
  <2> QED
    BY <1>1, <2>1, <2>2
<1>2. CASE n # 0
  <2>1. v = w /\ (v - 1) * l = (w - 1) * l /\ (w - 1) * l \in Int
    BY <1>2
  <2>2. UpTo(l, n) <= UpTo(l, UpTo(l + 1, n + 1))
    BY DEF UpTo
  <2>3. n + 1 <= l => UpTo(l, UpTo(l + 1, n + 1)) = UpTo(l, n) + 1
    BY DEF UpTo
  <2>4. UpTo(l, n) \in Nat /\ UpTo(l, UpTo(l + 1, n + 1)) \in Nat
    BY DEF UpTo
  <2> QED
    BY <1>2, <2>1, <2>2, <2>3, <2>4
<1> QED
  BY <1>1, <1>2

LEMMA WindowOver ==
  ASSUME NEW w \in Nat, NEW n \in Nat, NEW l \in Nat \ {0}, n > 0 => w > 0
  PROVE  (IF n = 0 THEN w * l ELSE (w - 1) * l + UpTo(l, n)) <= w * l
<1>1. UpTo(l, n) <= l /\ UpTo(l, n) \in Nat
  BY DEF UpTo
<1>2. (w - 1) * l = w * l - l
  OBVIOUS
<1>3. w * l \in Nat
  OBVIOUS
<1> QED
  BY <1>1, <1>2, <1>3

\* Sets that shrink, or grow by one, and what that does to their sizes.
LEMMA Fewer ==
  ASSUME NEW S, NEW T, IsFiniteSet(S), T \subseteq S
  PROVE  IsFiniteSet(T) /\ Cardinality(T) \in Nat /\ Cardinality(S) \in Nat
         /\ Cardinality(T) <= Cardinality(S)
BY FS_Subset, FS_CardinalityType

LEMMA OneMoreOf ==
  ASSUME NEW S, NEW T, NEW x, IsFiniteSet(S), T \subseteq S \union {x}
  PROVE  IsFiniteSet(T) /\ Cardinality(T) \in Nat /\ Cardinality(S) \in Nat
         /\ Cardinality(T) <= Cardinality(S) + 1
<1>1. IsFiniteSet(S \union {x}) /\ Cardinality(S \union {x}) <= Cardinality(S) + 1
      /\ Cardinality(S) \in Nat
  BY FS_AddElement, FS_CardinalityType
<1>2. IsFiniteSet(T) /\ Cardinality(T) \in Nat /\ Cardinality(S \union {x}) \in Nat
      /\ Cardinality(T) <= Cardinality(S \union {x})
  BY <1>1, Fewer
<1> QED
  BY <1>1, <1>2

LEMMA OneLessOf ==
  ASSUME NEW S, NEW T, NEW x \in S, IsFiniteSet(S), T \subseteq S \ {x}
  PROVE  IsFiniteSet(T) /\ Cardinality(T) \in Nat /\ Cardinality(S) \in Nat
         /\ Cardinality(T) + 1 <= Cardinality(S)
<1>1. IsFiniteSet(S \ {x}) /\ Cardinality(S \ {x}) = Cardinality(S) - 1
      /\ Cardinality(S) \in Nat
  BY FS_RemoveElement, FS_CardinalityType
<1>2. IsFiniteSet(T) /\ Cardinality(T) \in Nat /\ Cardinality(S \ {x}) \in Nat
      /\ Cardinality(T) <= Cardinality(S \ {x})
  BY <1>1, Fewer
<1> QED
  BY <1>1, <1>2

LEMMA MayMakeType ==
  ASSUME Typed, NEW k \in Subjects
  PROVE  MayMake(k) \in Int /\ windows[k] \in Nat /\ counter[k].count \in Nat
         /\ Limit[k] \in Nat \ {0} /\ windows[k] * Limit[k] \in Int
<1>1. windows[k] \in Nat /\ counter[k].count \in Nat /\ Limit[k] \in Nat \ {0}
  BY LimitIsPositive, MaxWindowsIsPositive DEF Typed, CounterInv, CountersTyped, Counter
<1>2. windows[k] * Limit[k] \in Int /\ (windows[k] - 1) * Limit[k] \in Int
  BY <1>1
<1>3. UpTo(Limit[k], counter[k].count) \in Int
  BY <1>1 DEF UpTo
<1> QED
  BY <1>1, <1>2, <1>3 DEF MayMake

\* Calls come to their end, by the order they were on their way to or without.
LEMMA NoMore ==
  ASSUME Typed, NEW k \in Subjects, Bounded(k),
         Made(k)' = Made(k), Making(k)' \subseteq Making(k),
         counter'[k].count = counter[k].count, windows'[k] = windows[k]
  PROVE  Bounded(k)'
<1>1. /\ IsFiniteSet(Making(k)') /\ Cardinality(Making(k)') \in Nat
      /\ Cardinality(Making(k)) \in Nat /\ Cardinality(Making(k)') <= Cardinality(Making(k))
  BY Fewer DEF Bounded
<1>2. IsFiniteSet(Made(k)') /\ Cardinality(Made(k)') = Cardinality(Made(k))
      /\ Cardinality(Made(k)) \in Nat
  BY FS_CardinalityType DEF Bounded
<1>3. MayMake(k)' = MayMake(k) /\ MayMake(k) \in Int
  BY MayMakeType DEF MayMake
<1> QED
  BY <1>1, <1>2, <1>3 DEF Bounded

\* One counter more: the call is on its way from now on, if it passes.
LEMMA CountKeepsBound ==
  ASSUME LimitInv, NEW c \in Calls, NEW asked \in Row, NEW scope \in Scopes,
         scope = "account" => gate[c].at = "counted",
         Count(c, asked, scope), NEW k \in Subjects
  PROVE  Bounded(k)'
<1> DEFINE q == Subject(asked, scope)
           n == counter[q].count
<1>1. q \in Subjects
  BY SubjectsExist
<1>2. /\ Increment(q) /\ order' = order /\ call' = call
      /\ gate' = [gate EXCEPT ![c] =
                    IF Passes(q, n + 1)
                    THEN [at |-> IF First(q, n + 1) THEN "expire" ELSE "counted",
                          scope |-> scope, asked |-> asked]
                    ELSE Closed]
  BY DEF Count, vars
<1>3. Made(k)' = Made(k)
  BY <1>2 DEF Made
<1>4. /\ gate \in [Calls -> Gate]
      /\ counter \in [Subjects -> Counter]
      /\ windows \in [Subjects -> 0..MaxWindows]
  BY DEF LimitInv, Typed, CounterInv, CountersTyped
<1>5. \A d \in Calls : d # c => gate'[d] = gate[d]
  BY <1>2, <1>4
<1>6. /\ Passes(q, n + 1) => /\ gate'[c].at # "closed"
                             /\ gate'[c].asked = asked /\ gate'[c].scope = scope
      /\ ~Passes(q, n + 1) => gate'[c].at = "closed"
  BY <1>2, <1>4 DEF Closed
<1> HIDE DEF n
<1>7. CASE k # q
  <2>1. c \in Making(k)' => c \in Making(k)
    BY <1>2, <1>6, <1>7 DEF Making, Subject, Scopes
  <2>2. Making(k)' \subseteq Making(k)
    BY <1>2, <1>5, <2>1 DEF Making
  <2>3. counter'[k] = counter[k] /\ windows'[k] = windows[k]
    BY <1>2, <1>4, <1>7 DEF Increment
  <2> QED
    BY <1>3, <2>2, <2>3, NoMore DEF LimitInv
<1>8. CASE k = q
  <2> DEFINE w == windows[k]
             l == Limit[k]
             v == windows'[k]
             t == Cardinality(Made(k)) + Cardinality(Making(k))
  <2>1. /\ w \in Nat /\ n \in Nat /\ l \in Nat \ {0} /\ MaxWindows \in Nat \ {0}
        /\ w \in 0..MaxWindows
    BY <1>4, <1>8, MayMakeType, MaxWindowsIsPositive DEF LimitInv, n
  <2>2. /\ counter'[k].count = UpTo(l + 1, n + 1)
        /\ v = IF n = 0 THEN UpTo(MaxWindows, w + 1) ELSE w
    <3>1. counter[k] \in Counter
      BY <1>1, <1>4, <1>8
    <3> QED
      BY <1>2, <1>4, <1>8, <3>1 DEF Increment, Counter, n
  <2>3. Making(k)' \subseteq Making(k) \union {c}
    BY <1>2, <1>5 DEF Making
  <2>4. ~Passes(k, n + 1) => Making(k)' \subseteq Making(k)
    BY <1>2, <1>5, <1>6, <1>8 DEF Making
  <2>5. /\ IsFiniteSet(Making(k)) /\ IsFiniteSet(Made(k))
        /\ Cardinality(Made(k)) \in Nat /\ Cardinality(Making(k)) \in Nat
    BY FS_CardinalityType DEF LimitInv, Bounded
  <2>6. /\ IsFiniteSet(Making(k)') /\ Cardinality(Making(k)') \in Nat
        /\ Cardinality(Making(k)') <= Cardinality(Making(k)) + 1
    BY <2>3, <2>5, OneMoreOf
  <2>7. ~Passes(k, n + 1) => Cardinality(Making(k)') <= Cardinality(Making(k))
    BY <2>4, <2>5, Fewer
  <2>8. n > 0 => w > 0
    BY <1>8 DEF LimitInv, Bounded, n
  <2>9. UpTo(l + 1, n + 1) \in Nat \ {0} /\ v > 0
    BY <2>1, <2>2, <2>8 DEF UpTo
  <2>10. CASE v = MaxWindows
    BY <1>3, <2>5, <2>6, <2>9, <2>10 DEF Bounded
  <2>11. CASE v # MaxWindows
    <3>1. w # MaxWindows
      BY <2>1, <2>2, <2>11 DEF UpTo
    <3>2. t \in Nat /\ t <= IF n = 0 THEN w * l ELSE (w - 1) * l + UpTo(l, n)
      BY <1>8, <2>5, <3>1 DEF LimitInv, Bounded, MayMake, n
    <3> HIDE DEF w, l, v, t
    <3>3. /\ t <= (v - 1) * l + UpTo(l, UpTo(l + 1, n + 1))
          /\ n + 1 <= l => t + 1 <= (v - 1) * l + UpTo(l, UpTo(l + 1, n + 1))
      BY <2>1, <2>2, <2>8, <2>11, <3>2, OneMore
    <3>4. MayMake(k)' = (v - 1) * l + UpTo(l, UpTo(l + 1, n + 1))
      <4>1. counter'[k].count # 0
        BY <2>2, <2>9
      <4> QED
        BY <2>2, <4>1 DEF MayMake, v, l
    <3>5. /\ v \in Nat /\ (v - 1) * l \in Int /\ UpTo(l, UpTo(l + 1, n + 1)) \in Int
      BY <2>1, <2>2 DEF UpTo
    <3>6. Passes(k, n + 1) <=> n + 1 <= l
      BY DEF Passes, l
    <3>7. Cardinality(Made(k)') + Cardinality(Making(k)') <= MayMake(k)'
      BY <1>3, <2>5, <2>6, <2>7, <3>2, <3>3, <3>4, <3>5, <3>6 DEF t
    <3> QED
      BY <1>3, <2>5, <2>6, <2>9, <3>7 DEF Bounded, v
  <2> QED
    BY <2>10, <2>11
<1> QED
  BY <1>7, <1>8

\* An order that is made takes the place of the call that was on its way to it.
LEMMA InsertKeepsBound ==
  ASSUME LimitInv, NEW c \in Calls, NEW o \in Orders, UNCHANGED <<limiter, gate>>,
         At(c, "insert"), order[o] = None,
         order' = [order EXCEPT ![o] = call[c].asked],
         AnswerWith(c, call[c].asked, o), NEW k \in Subjects
  PROVE  Bounded(k)'
<1>1. call[c].asked \in Row /\ call[c].asked # None
  BY NoneIsNoValue DEF LimitInv, Typed, Inv, CallsFound, At
<1>2. gate[c].at = "closed"
  BY DEF LimitInv, OpenIsIdle, At
<1>3. /\ call'[c].pc = "answer"
      /\ \A d \in Calls : d # c => call'[d] = call[d]
      /\ order'[o] = call[c].asked
      /\ \A p \in Orders : p # o => order'[p] = order[p]
  BY DEF LimitInv, Typed, Inv, TypeOK, AnswerWith
<1>4. c \notin Making(k)' /\ Making(k)' \subseteq Making(k)
  BY <1>2, <1>3 DEF Making
<1>5. counter' = counter /\ windows' = windows
  BY DEF limiter
<1>6. CASE k = Address \/ call[c].asked.account = k
  <2>1. Made(k)' = Made(k) \union {o} /\ o \notin Made(k)
    BY <1>1, <1>3, <1>6 DEF Made
  <2>2. c \in Making(k) /\ Making(k)' \subseteq Making(k) \ {c}
    BY <1>4, <1>6 DEF Making, At
  <2>3. /\ IsFiniteSet(Made(k)') /\ Cardinality(Made(k)') = Cardinality(Made(k)) + 1
        /\ Cardinality(Made(k)) \in Nat
    BY <2>1, FS_AddElement, FS_CardinalityType DEF LimitInv, Bounded
  <2>4. /\ IsFiniteSet(Making(k)') /\ Cardinality(Making(k)') \in Nat
        /\ Cardinality(Making(k)) \in Nat
        /\ Cardinality(Making(k)') + 1 <= Cardinality(Making(k))
    BY <2>2, OneLessOf DEF LimitInv, Bounded
  <2>5. MayMake(k)' = MayMake(k) /\ MayMake(k) \in Int
    BY <1>5, MayMakeType DEF MayMake, LimitInv
  <2> QED
    BY <1>5, <2>3, <2>4, <2>5 DEF LimitInv, Bounded
<1>7. CASE ~(k = Address \/ call[c].asked.account = k)
  <2>1. Made(k)' = Made(k)
    BY <1>3, <1>7 DEF Made
  <2> QED
    BY <1>4, <1>5, <2>1, NoMore DEF LimitInv
<1> QED
  BY <1>6, <1>7

\* What createOrder does besides, no new order and no new call.
LEMMA CallEnds ==
  ASSUME LimitInv, NEW c \in Calls, order' = order,
         \A d \in Calls : d # c => call'[d] = call[d] /\ gate'[d] = gate[d],
         UNCHANGED <<counter, windows>>,
         NEW k \in Subjects,
         gate'[c].at = "closed" \/ gate'[c] = gate[c],
         call'[c].pc = "insert" =>
           \/ call[c] = call'[c]
           \/ /\ gate[c].at # "closed" /\ gate[c].scope = "account"
              /\ call'[c].asked = gate[c].asked
  PROVE  Bounded(k)'
<1>1. Made(k)' = Made(k)
  BY DEF Made
<1>2. c \in Making(k)' => c \in Making(k)
  BY DEF Making, Subject
<1>3. Making(k)' \subseteq Making(k)
  BY <1>2 DEF Making
<1> QED
  BY <1>1, <1>3, NoMore DEF LimitInv

LEMMA CallStepBound ==
  ASSUME LimitInv, NEW c \in Calls, Expire(c) \/ Admit(c) \/ GiveUp(c) \/ Create(c),
         NEW k \in Subjects
  PROVE  Bounded(k)'
<1>1. /\ gate \in [Calls -> Gate] /\ counter \in [Subjects -> Counter]
      /\ call \in [Calls -> Call] /\ windows \in [Subjects -> 0..MaxWindows]
  BY DEF LimitInv, Typed, CounterInv, CountersTyped, Inv, TypeOK
<1>2. CASE Expire(c)
  <2>1. Made(k)' = Made(k)
    BY <1>2 DEF Expire, vars, Made
  <2>2. /\ \A d \in Calls : /\ gate'[d].asked = gate[d].asked
                            /\ gate'[d].scope = gate[d].scope
                            /\ gate'[d].at # "closed" => gate[d].at # "closed"
        /\ call' = call
    BY <1>1, <1>2 DEF Expire, vars, Gate
  <2>3. Making(k)' \subseteq Making(k)
    BY <2>2 DEF Making
  <2>4. counter'[k].count = counter[k].count /\ windows' = windows
    BY <1>1, <1>2 DEF Expire, SetExpiry, Counter
  <2> QED
    BY <2>1, <2>3, <2>4, NoMore DEF LimitInv
<1>3. CASE Admit(c)
  <2>1. gate'[c].at = "closed"
    BY <1>1, <1>3 DEF Admit, Closed
  <2>2. \A d \in Calls : d # c => call'[d] = call[d] /\ gate'[d] = gate[d]
    BY <1>1, <1>3 DEF Admit, Read, AnswerWith
  <2>3. call'[c].pc = "insert" => call'[c].asked = gate[c].asked
    BY <1>1, <1>3 DEF Admit, Read, AnswerWith
  <2>4. /\ order' = order /\ counter' = counter /\ windows' = windows
        /\ gate[c].at # "closed" /\ gate[c].scope = "account"
    BY <1>3 DEF Admit, Read, limiter
  <2> QED
    BY <2>1, <2>2, <2>3, <2>4, CallEnds
<1>4. CASE GiveUp(c)
  <2>1. gate'[c].at = "closed" /\ \A d \in Calls : d # c => gate'[d] = gate[d]
    BY <1>1, <1>4 DEF GiveUp, Closed
  <2>2. order' = order /\ call' = call /\ counter' = counter /\ windows' = windows
    BY <1>4 DEF GiveUp, vars
  <2> QED
    BY <2>1, <2>2, CallEnds
<1>5. CASE Create(c)
  <2>1. gate' = gate /\ UNCHANGED <<limiter, gate>> /\ counter' = counter /\ windows' = windows
    BY <1>5 DEF Create, limiter
  <2>2. CASE Insert(c) /\ ~Taken(call[c].asked.key)
    BY <2>1, <2>2, InsertKeepsBound DEF Insert
  <2>3. CASE (Insert(c) /\ Taken(call[c].asked.key)) \/ Reread(c) \/ Answer(c) \/ Throw(c)
    <3>1. order' = order
      BY <2>3 DEF Insert, Reread, Answer, Throw
    <3>2. \A d \in Calls : d # c => call'[d] = call[d]
      BY <1>1, <2>3 DEF Insert, Reread, Answer, Throw, AnswerWith
    <3>3. call'[c].pc # "insert"
      BY <1>1, <2>3 DEF Insert, Reread, Answer, Throw, AnswerWith, Idle, Call
    <3> QED
      BY <2>1, <3>1, <3>2, <3>3, CallEnds
  <2> QED
    BY <1>5, <2>2, <2>3 DEF Create
<1> QED
  BY <1>2, <1>3, <1>4, <1>5

LEMMA RedisKeepsBound ==
  ASSUME LimitInv, UNCHANGED <<order, call, gate>>, NEW k \in Subjects,
         UNCHANGED limiter \/ Redis
  PROVE  Bounded(k)'
<1>1. Made(k)' = Made(k) /\ Making(k)' = Making(k)
  BY DEF Made, Making
<1>2. counter \in [Subjects -> Counter]
  BY DEF LimitInv, Typed, CounterInv, CountersTyped
<1>3. CASE counter'[k] = counter[k] /\ windows' = windows
  BY <1>1, <1>3, NoMore DEF LimitInv
<1>4. CASE WindowEnds(k)
  <2>1. counter'[k].count = 0 /\ windows' = windows
    BY <1>2, <1>4 DEF WindowEnds, NoKey
  <2>2. MayMake(k)' = windows[k] * Limit[k]
    BY <2>1 DEF MayMake
  <2>3. MayMake(k) <= windows[k] * Limit[k]
    BY MayMakeType, WindowOver DEF MayMake, LimitInv, Bounded
  <2>4. /\ MayMake(k) \in Int /\ windows[k] * Limit[k] \in Int
        /\ Cardinality(Made(k)) \in Nat /\ Cardinality(Making(k)) \in Nat
    BY MayMakeType, FS_CardinalityType DEF LimitInv, Bounded
  <2> QED
    BY <1>1, <2>1, <2>2, <2>3, <2>4 DEF LimitInv, Bounded
<1>5. ASSUME NEW j \in Subjects, j # k, WindowEnds(j)
      PROVE  Bounded(k)'
  BY <1>2, <1>3, <1>5 DEF WindowEnds
<1> QED
  BY <1>3, <1>4, <1>5 DEF Redis, Disconnect, Reconnect, limiter

LEMMA OpenStaysIdle == LimitInv /\ [RequestNext]_allVars => OpenIsIdle'
<1> SUFFICES ASSUME LimitInv, [RequestNext]_allVars PROVE OpenIsIdle'
  OBVIOUS
<1>1. gate \in [Calls -> Gate] /\ call \in [Calls -> Call]
  BY DEF LimitInv, Typed, CounterInv, CountersTyped, Inv, TypeOK
<1>2. ASSUME NEW c \in Calls, call' = call, At(c, "idle"),
             \A d \in Calls : d # c => gate'[d] = gate[d]
      PROVE  OpenIsIdle'
  BY <1>2 DEF LimitInv, OpenIsIdle, At
<1>3. ASSUME NEW c \in Calls, gate'[c].at = "closed",
             \A d \in Calls : d # c => gate'[d] = gate[d] /\ call'[d] = call[d]
      PROVE  OpenIsIdle'
  BY <1>3 DEF LimitInv, OpenIsIdle, At
<1>4. ASSUME NEW c \in Calls, NEW asked \in Row, Arrive(c, asked)
      PROVE  OpenIsIdle'
  BY <1>1, <1>2, <1>4 DEF Arrive, Count, vars
<1>5. ASSUME NEW c \in Calls, Expire(c) \/ CountAccount(c)
      PROVE  OpenIsIdle'
  <2>1. At(c, "idle")
    BY <1>5 DEF Expire, CountAccount, LimitInv, OpenIsIdle
  <2> QED
    BY <1>1, <1>2, <1>5, <2>1 DEF Expire, CountAccount, Count, vars
<1>6. ASSUME NEW c \in Calls, Admit(c) \/ GiveUp(c)
      PROVE  OpenIsIdle'
  BY <1>1, <1>3, <1>6 DEF Admit, GiveUp, Read, AnswerWith, Closed, vars
<1>7. ASSUME NEW c \in Calls, Create(c)
      PROVE  OpenIsIdle'
  <2>1. ~At(c, "idle") /\ gate' = gate
    BY <1>7 DEF Create, Insert, Reread, Answer, Throw, At
  <2>2. gate'[c].at = "closed"
    BY <2>1 DEF LimitInv, OpenIsIdle
  <2>3. \A d \in Calls : d # c => call'[d] = call[d]
    BY <1>1, <1>7 DEF Create, Insert, Reread, Answer, Throw, AnswerWith
  <2> QED
    BY <1>3, <2>1, <2>2, <2>3
<1>8. CASE UNCHANGED <<call, gate>>
  BY <1>8 DEF LimitInv, OpenIsIdle, At
<1> QED
  BY <1>4, <1>5, <1>6, <1>7, <1>8 DEF RequestNext, Redis, allVars, vars

LEMMA InitLimitInv == RequestInit => LimitInv
<1> SUFFICES ASSUME RequestInit PROVE LimitInv
  OBVIOUS
<1>1. Typed
  BY InitCounterInv, InvInit, MaxWindowsIsPositive DEF Typed, RequestInit, LimiterInit
<1>2. OpenIsIdle
  BY DEF RequestInit, OpenIsIdle, Closed
<1>3. ASSUME NEW k \in Subjects PROVE Bounded(k)
  <2>1. Made(k) = {} /\ Making(k) = {}
    BY DEF RequestInit, Init, Made, Making, Closed, Idle
  <2>2. MayMake(k) = 0 /\ counter[k].count = 0
    BY LimitIsPositive DEF RequestInit, LimiterInit, NoKey, MayMake
  <2> QED
    BY <2>1, <2>2, FS_EmptySet DEF Bounded
<1> QED
  BY <1>1, <1>2, <1>3 DEF LimitInv

LEMMA NextLimitInv == LimitInv /\ [RequestNext]_allVars => LimitInv'
<1> SUFFICES ASSUME LimitInv, [RequestNext]_allVars PROVE LimitInv'
  OBVIOUS
<1>1. CounterInv' /\ Inv'
  BY NextKeepsCounterInv, RequestStepCreates, InvStep DEF LimitInv, Typed
<1>2. windows' \in [Subjects -> 0..MaxWindows]
  <2>1. windows \in [Subjects -> 0..MaxWindows]
    BY DEF LimitInv, Typed
  <2>2. ASSUME NEW k \in Subjects, Increment(k)
        PROVE  windows' \in [Subjects -> 0..MaxWindows]
    <3>1. UpTo(MaxWindows, windows[k] + 1) \in 0..MaxWindows
      BY <2>1, MaxWindowsIsPositive DEF UpTo
    <3> QED
      BY <2>1, <2>2, <3>1 DEF Increment
  <2>3. ASSUME NEW c \in Calls, NEW asked \in Row, NEW scope, Count(c, asked, scope)
        PROVE  windows' \in [Subjects -> 0..MaxWindows]
    BY <2>2, <2>3, SubjectsExist DEF Count
  <2>4. ASSUME NEW c \in Calls, CountAccount(c)
        PROVE  windows' \in [Subjects -> 0..MaxWindows]
    BY <2>3, <2>4 DEF CountAccount, LimitInv, Typed, CounterInv, CountersTyped
  <2> QED
    BY <2>1, <2>3, <2>4
       DEF RequestNext, Arrive, Expire, SetExpiry, Admit, GiveUp, Create, Redis, Disconnect,
           Reconnect, WindowEnds, allVars, limiter
<1>3. ASSUME NEW k \in Subjects PROVE Bounded(k)'
  <2>1. ASSUME NEW c \in Calls, NEW asked \in Row, Arrive(c, asked)
        PROVE  Bounded(k)'
    BY <2>1, CountKeepsBound DEF Arrive, Scopes
  <2>2. ASSUME NEW c \in Calls, CountAccount(c)
        PROVE  Bounded(k)'
    BY <2>2, CountKeepsBound
       DEF CountAccount, Scopes, LimitInv, Typed, CounterInv, CountersTyped
  <2> QED
    BY <2>1, <2>2, CallStepBound, RedisKeepsBound DEF RequestNext, Redis, allVars, vars
<1> QED
  BY <1>1, <1>2, <1>3, OpenStaysIdle DEF LimitInv, Typed

\* payments.controller.ts:98-100: in the windows it has begun, no account and no
\* address makes more orders than its limit for each, calls on their way included.
THEOREM OrdersStayWithinLimit == RequestSpec => []OrdersWithinLimit
<1>1. LimitInv => OrdersWithinLimit
  <2> SUFFICES ASSUME LimitInv, NEW k \in Subjects, windows[k] # MaxWindows
               PROVE  Cardinality(Made(k)) + Cardinality(Making(k)) <= windows[k] * Limit[k]
    BY DEF OrdersWithinLimit
  <2>1. MayMake(k) <= windows[k] * Limit[k]
    BY MayMakeType, WindowOver DEF MayMake, LimitInv, Bounded
  <2>2. /\ MayMake(k) \in Int /\ windows[k] * Limit[k] \in Int
        /\ Cardinality(Made(k)) \in Nat /\ Cardinality(Making(k)) \in Nat
        /\ Cardinality(Made(k)) + Cardinality(Making(k)) <= MayMake(k)
    BY MayMakeType, FS_CardinalityType DEF LimitInv, Bounded
  <2> QED
    BY <2>1, <2>2
<1> QED
  BY <1>1, InitLimitInv, NextLimitInv, PTL DEF RequestSpec

\* Every variable keeps its type.
THEOREM GateTypeCorrect == RequestSpec => []GateTypeOK
<1> DEFINE Rest == redis \in {"wait", "ready", "end"} /\ lost \subseteq Subjects
<1>1. RequestInit => Rest
  BY DEF RequestInit, LimiterInit
<1>2. LimitInv /\ Rest /\ [RequestNext]_allVars => Rest'
  <2> SUFFICES ASSUME LimitInv, Rest, [RequestNext]_allVars PROVE Rest'
    OBVIOUS
  <2>1. ASSUME NEW c \in Calls, GiveUp(c)
        PROVE  Rest'
    BY <2>1, SubjectsExist
       DEF GiveUp, LimitInv, Typed, CounterInv, CountersTyped, Closed, Gate
  <2>2. ASSUME NEW c \in Calls, NEW asked, NEW scope, Count(c, asked, scope)
        PROVE  Rest'
    BY <2>2 DEF Count, Increment
  <2> QED
    BY <2>1, <2>2
       DEF RequestNext, Arrive, CountAccount, Expire, SetExpiry, Admit, Create, Redis,
           Disconnect, Reconnect, WindowEnds, allVars, limiter
<1>3. LimitInv /\ Rest => GateTypeOK
  BY DEF LimitInv, Typed, CounterInv, CountersTyped, Inv, GateTypeOK, LimiterTypeOK
<1> QED
  BY <1>1, <1>2, <1>3, InitLimitInv, NextLimitInv, PTL DEF RequestSpec
=============================================================================
