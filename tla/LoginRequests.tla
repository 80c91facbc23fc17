---------------------------- MODULE LoginRequests ----------------------------
(***************************************************************************)
(* The life of a login request and of the session it leads to, one step    *)
(* for each write that takes effect: what the API, with its handlers read  *)
(* statement by statement (DeviceLogin), promises to the login page, which *)
(* sees each call as one step (ConnectPage).  A session is named by the    *)
(* request it was opened with.                                             *)
(***************************************************************************)
CONSTANTS Requests, None

VARIABLES status,  \* status[r], "UNUSED" before it is created, "DELETED" in the end
          over,    \* over[r]: its expiresAt has passed
          live     \* the requests whose session is neither revoked nor expired

vars == <<status, over, live>>

Unfinished == {"PENDING", "APPROVED"}

Init == /\ status = [r \in Requests |-> "UNUSED"]
        /\ over = [r \in Requests |-> FALSE]
        /\ live = {}

\* Request r moves from one of the statuses in from to the status to.
Moves(r, from, to) ==
  /\ status[r] \in from
  /\ status' = [status EXCEPT ![r] = to]
  /\ UNCHANGED over

Issue(r)   == Moves(r, {"UNUSED"}, "PENDING") /\ UNCHANGED live
Approve(r) == Moves(r, {"PENDING"}, "APPROVED") /\ UNCHANGED live
Cancel(r)  == Moves(r, Unfinished, "CANCELLED") /\ UNCHANGED live
Expire(r)  == over[r] /\ Moves(r, Unfinished, "EXPIRED") /\ UNCHANGED live
Delete(r)  == Moves(r, {"CONSUMED", "CANCELLED", "EXPIRED"}, "DELETED") /\ UNCHANGED live

\* The session of r takes the place of the one the browser had, if it had one.
Complete(r) ==
  /\ Moves(r, {"APPROVED"}, "CONSUMED")
  /\ \E old \in Requests \union {None} : live' = (live \ {old}) \union {r}

\* Another request is issued in the place of one that is not finished.
Renew(old, r) ==
  /\ status[old] \in Unfinished /\ status[r] = "UNUSED"
  /\ status' = [status EXCEPT ![old] = "CANCELLED", ![r] = "PENDING"]
  /\ UNCHANGED <<over, live>>

TimePasses(r) ==
  /\ status[r] # "UNUSED" /\ ~over[r]
  /\ over' = [over EXCEPT ![r] = TRUE]
  /\ UNCHANGED <<status, live>>

EndSession(r) ==
  /\ r \in live
  /\ live' = live \ {r}
  /\ UNCHANGED <<status, over>>

Next ==
  \E r \in Requests :
    \/ Issue(r) \/ Approve(r) \/ Cancel(r) \/ Expire(r) \/ Delete(r) \/ Complete(r)
    \/ TimePasses(r) \/ EndSession(r)
    \/ \E old \in Requests : Renew(old, r)

Spec == Init /\ [][Next]_vars
=============================================================================
