------------------------------ MODULE RateLimit ------------------------------
(***************************************************************************)
(* consumeRateLimit of redis.service.ts, the counter behind every          *)
(* enforceRateLimit of the API: INCR and, for the first of a window,       *)
(* EXPIRE.  They are two commands; the process may stop, or its only       *)
(* connection break for good, between them.  Redis drops the key at the    *)
(* end of the window, if EXPIRE reached it.                                *)
(***************************************************************************)
EXTENDS Integers

CONSTANTS
  Subjects,   \* what is counted: a key per scope and hashed subject
  Limit,      \* Limit[k]: the calls of subject k that one window lets pass
  MaxWindows  \* bound of the history windows

ASSUME LimitIsPositive == Limit \in [Subjects -> Nat \ {0}]
ASSUME MaxWindowsIsPositive == MaxWindows \in Nat \ {0}

VARIABLES
  counter,   \* Redis: the value of each key, 0 for no key, and whether it expires
  redis,     \* the API's connection: not yet opened, open, or ended
  windows,   \* history: how often each counter was begun, up to MaxWindows
  lost       \* history: the subjects whose EXPIRE was never made

limiter == <<counter, redis, windows, lost>>

Counter == [count : Nat, expires : BOOLEAN]
NoKey == [count |-> 0, expires |-> FALSE]

LimiterInit ==
  /\ counter = [k \in Subjects |-> NoKey]
  /\ redis = "wait"
  /\ windows = [k \in Subjects |-> 0]
  /\ lost = {}

UpTo(bound, n) == IF n > bound THEN bound ELSE n

\* Faulty: the count before the increment is compared.
PassesLate(k, count) == count - 1 <= Limit[k]

Passes(k, count) == count <= Limit[k]

\* INCR.  Any count above the limit is as good as any other.
Increment(k) ==
  /\ redis # "end"
  /\ redis' = "ready"
  /\ counter' = [counter EXCEPT ![k].count = UpTo(Limit[k] + 1, @ + 1)]
  /\ windows' = IF counter[k].count = 0
                THEN [windows EXCEPT ![k] = UpTo(MaxWindows, @ + 1)] ELSE windows
  /\ UNCHANGED lost

\* Faulty: the last call that passes sets the window, not the first.
FirstIsLast(k, count) == count = Limit[k] + 1

\* The one call that has to set the window.
First(k, count) == count = 1

\* EXPIRE, which does nothing when there is no key.
SetExpiry(k) ==
  /\ redis = "ready"
  /\ counter' = [counter EXCEPT ![k].expires = (counter[k].count > 0)]
  /\ UNCHANGED <<redis, windows, lost>>

\* The window of k ends.
WindowEnds(k) ==
  /\ counter[k].expires
  /\ counter' = [counter EXCEPT ![k] = NoKey]
  /\ UNCHANGED <<redis, windows, lost>>

\* The connection breaks, or cannot be opened: there is no retry.
Disconnect ==
  /\ redis' = "end"
  /\ UNCHANGED <<counter, windows, lost>>

Reconnect ==
  /\ redis = "end" /\ redis' = "wait"
  /\ UNCHANGED <<counter, windows, lost>>

LimiterTypeOK ==
  /\ counter \in [Subjects -> Counter]
  /\ redis \in {"wait", "ready", "end"}
  /\ windows \in [Subjects -> 0..MaxWindows]
  /\ lost \subseteq Subjects
=============================================================================
