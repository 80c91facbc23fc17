------------------------------ MODULE WebLogin ------------------------------
(***************************************************************************)
(* What the device login promises (README.md:9): a browser asks for a      *)
(* login, a connected player approves it, and the browser then completes   *)
(* it.  A login request has one approver, leads to one session at most,    *)
(* and to none once it has ended in another way.                           *)
(***************************************************************************)
CONSTANTS Requests, Sessions, Uids, None

VARIABLES approver,  \* approver[r]: the player who approved request r
          open,      \* open[r]: request r may still lead to a session
          opened     \* opened[s]: the request and the player session s belongs to

vars == <<approver, open, opened>>

Init == /\ approver = [r \in Requests |-> None]
        /\ open = [r \in Requests |-> TRUE]
        /\ opened = [s \in Sessions |-> None]

Approve(r, u) ==
  /\ open[r] /\ approver[r] = None
  /\ approver' = [approver EXCEPT ![r] = u]
  /\ UNCHANGED <<open, opened>>

Complete(r, s) ==
  /\ open[r] /\ approver[r] # None
  /\ opened[s] = None
  /\ opened' = [opened EXCEPT ![s] = <<r, approver[r]>>]
  /\ open' = [open EXCEPT ![r] = FALSE]
  /\ UNCHANGED approver

Abandon(r) ==
  /\ open[r]
  /\ open' = [open EXCEPT ![r] = FALSE]
  /\ UNCHANGED <<approver, opened>>

Next == \E r \in Requests :
          \/ \E u \in Uids : Approve(r, u)
          \/ \E s \in Sessions : Complete(r, s)
          \/ Abandon(r)

Spec == Init /\ [][Next]_vars
=============================================================================
