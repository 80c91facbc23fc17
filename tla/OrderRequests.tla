---------------------------- MODULE OrderRequests ----------------------------
(***************************************************************************)
(* POST /api/payments/orders as a whole: create of payments.controller.ts  *)
(* counts the call for its address and for its account before it lets      *)
(* createOrder see it.                                                     *)
(***************************************************************************)
EXTENDS OrderCreation, RateLimit, FiniteSets

CONSTANT Address   \* the client address all these calls come from

ASSUME SubjectsAreCounted == Subjects = Accounts \union {Address}
ASSUME AddressIsNoAccount == Address \notin Accounts

VARIABLE gate   \* how far each call has got before createOrder

allVars == <<vars, limiter, gate>>

Scopes == {"ip", "account"}

\* "expire": EXPIRE is due; "counted": the scope lets the call pass.
Gate == [at : {"closed", "expire", "counted"}, scope : Scopes, asked : Row \union {None}]
Closed == [at |-> "closed", scope |-> "ip", asked |-> None]

Subject(asked, scope) == IF scope = "ip" THEN Address ELSE asked.account

\* One enforceRateLimit: a call that does not pass is refused.
Count(c, asked, scope) ==
  LET k == Subject(asked, scope)
      n == counter[k].count + 1
      next == IF First(k, n) THEN "expire" ELSE "counted"
  IN  /\ Increment(k)
      /\ gate' = [gate EXCEPT ![c] =
                    IF Passes(k, n) THEN [at |-> next, scope |-> scope, asked |-> asked]
                    ELSE Closed]
      /\ UNCHANGED vars

Arrive(c, asked) == gate[c] = Closed /\ At(c, "idle") /\ Count(c, asked, "ip")

Expire(c) ==
  /\ gate[c].at = "expire"
  /\ SetExpiry(Subject(gate[c].asked, gate[c].scope))
  /\ gate' = [gate EXCEPT ![c].at = "counted"]
  /\ UNCHANGED vars

CountAccount(c) ==
  /\ gate[c].at = "counted" /\ gate[c].scope = "ip"
  /\ Count(c, gate[c].asked, "account")

\* createOrder begins.
Admit(c) ==
  /\ gate[c].at = "counted" /\ gate[c].scope = "account"
  /\ Read(c, gate[c].asked)
  /\ gate' = [gate EXCEPT ![c] = Closed]
  /\ UNCHANGED limiter

\* createOrder refuses, a Redis command fails or the process stops.
GiveUp(c) ==
  LET k == Subject(gate[c].asked, gate[c].scope)
  IN  /\ gate[c] # Closed
      /\ gate' = [gate EXCEPT ![c] = Closed]
      /\ lost' = IF gate[c].at = "expire" THEN lost \union {k} ELSE lost
      /\ UNCHANGED <<vars, counter, redis, windows>>

Create(c) == (Insert(c) \/ Reread(c) \/ Answer(c) \/ Throw(c)) /\ UNCHANGED <<limiter, gate>>

Redis == (Disconnect \/ Reconnect \/ \E k \in Subjects : WindowEnds(k)) /\ UNCHANGED <<vars, gate>>

RequestInit == Init /\ LimiterInit /\ gate = [c \in Calls |-> Closed]

RequestNext ==
  \/ \E c \in Calls :
       \/ \E asked \in Row : Arrive(c, asked)
       \/ Expire(c) \/ CountAccount(c) \/ Admit(c) \/ GiveUp(c) \/ Create(c)
  \/ Redis

RequestSpec == RequestInit /\ [][RequestNext]_allVars

-----------------------------------------------------------------------------
(* Properties.                                                             *)

GateTypeOK == TypeOK /\ LimiterTypeOK /\ gate \in [Calls -> Gate]

\* payments.controller.ts:98-100: an order is made only by a call that both counters
\* let pass, so that k windows let an account, and an address, make k times its
\* limit of orders, calls on their way included.
Made(k) == {o \in Orders : order[o] # None /\ (k = Address \/ order[o].account = k)}
Making(k) ==
  {c \in Calls :
     \/ gate[c].at # "closed" /\ k \in {Address, Subject(gate[c].asked, gate[c].scope)}
     \/ call[c].pc = "insert" /\ (k = Address \/ call[c].asked.account = k)}

OrdersWithinLimit ==
  \A k \in Subjects :
    \/ windows[k] = MaxWindows
    \/ Cardinality(Made(k)) + Cardinality(Making(k)) <= windows[k] * Limit[k]

\* redis.service.ts:8-9: a counter that refuses calls forgets them in the end; the
\* one way to a counter that stays is a call that ended between INCR and EXPIRE.
CountersExpire ==
  \A k \in Subjects : counter[k].count > 0 =>
    \/ counter[k].expires
    \/ k \in lost
    \/ \E c \in Calls : gate[c].at = "expire" /\ k = Subject(gate[c].asked, gate[c].scope)
=============================================================================
