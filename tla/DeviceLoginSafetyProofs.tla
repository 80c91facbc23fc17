----------------------- MODULE DeviceLoginSafetyProofs -----------------------
(***************************************************************************)
(* The safety of the device login, for every value of the constants: the   *)
(* approver of a request, the sessions opened with it, what a dismissed    *)
(* request can no longer do, what a browser can get to know, and that the  *)
(* handlers implement WebLogin.                                            *)
(***************************************************************************)
EXTENDS DeviceLoginProofs

Ended(r) == request[r].status \in {"CONSUMED", "CANCELLED", "EXPIRED", "DELETED"}

-----------------------------------------------------------------------------
(* The inductive invariants.                                               *)

\* A session not opened yet belongs to nobody.
UnusedSessions ==
  \A s \in Sessions : session[s].status = "UNUSED" =>
    session[s].request = None /\ session[s].uid = None

SessionInv == SessionsAreApproved /\ UnusedSessions

\* Whoever knows a request knows one that was created.
PagesKnown ==
  /\ \A b \in Browsers :
       jar[b].pending \in Requests => request[jar[b].pending].status # "UNUSED"
  /\ \A b \in Browsers : \A r \in held[b] : request[r].status # "UNUSED"

CallsKnown ==
  \A p \in Callers :
    call[p].request \in Requests => request[call[p].request].status # "UNUSED"

KnownInv == PagesKnown /\ CallsKnown

\* A call that completes a request found it approved.  A poll that is about to
\* mark a request expired found it expired, approved or before anyone completes it.
CallsFound ==
  \A p \in Callers :
    LET r == call[p].request
    IN  /\ At(p, "complete") => request[r].status # "PENDING"
        /\ At(p, "expire") =>
             /\ request[r].expired
             /\ call[p].seen = "APPROVED" => request[r].status # "PENDING"
             /\ call[p].seen = "PENDING" =>
                  \A q \in Callers : At(q, "complete") => call[q].request # r

\* A dismissed request has ended, or it has expired with no call left to complete it.
DismissedIsOver ==
  \A r \in dismissed :
    \/ Ended(r)
    \/ /\ request[r].expired
       /\ \A q \in Callers : At(q, "complete") => call[q].request # r

DismissedInv == KnownInv /\ CallsFound /\ DismissedIsOver

\* A request is known to one browser, in its pages and in its calls.
OneBrowser ==
  /\ \A b, d \in Browsers : held[b] \intersect held[d] # {} => b = d
  /\ \A c \in Calls, d \in Browsers :
       call[c].request \in held[d] => call[c].browser = d
  /\ \A c, q \in Calls :
       call[c].request = call[q].request /\ call[c].request # None
         => call[c].browser = call[q].browser

\* A browser's cookies, and those it is about to receive, are about requests it knows.
CookiesAreOwn ==
  /\ \A b \in Browsers :
       /\ jar[b].pending # None => jar[b].pending \in held[b]
       /\ jar[b].session # None =>
            /\ session[jar[b].session].status # "UNUSED"
            /\ session[jar[b].session].request \in held[b]
  /\ \A c \in Calls :
       /\ call[c].pc \in {"complete", "completeReply"} =>
            call[c].request \in held[call[c].browser]
       /\ At(c, "completeReply") =>
            /\ session[call[c].session].status # "UNUSED"
            /\ session[call[c].session].request = call[c].request

IsolationInv == KnownInv /\ OneBrowser /\ CookiesAreOwn

-----------------------------------------------------------------------------
(* What a step does to the requests and to the sessions.                   *)

\* Row r alone changes, and becomes what new says.
RowBecomes(r, new) == request' = [request EXCEPT ![r] = new]

Creation(r) ==
  /\ request[r].status = "UNUSED"
  /\ RowBecomes(r, [request[r] EXCEPT !.status = "PENDING"])
Approval(r, u) ==
  /\ request[r].status = "PENDING"
  /\ RowBecomes(r, [request[r] EXCEPT !.status = "APPROVED", !.uid = u])
Ending(r, status) ==
  /\ Unfinished(r)
  /\ RowBecomes(r, [request[r] EXCEPT !.status = status])
Deletion(r) ==
  /\ Ended(r)
  /\ RowBecomes(r, [request[r] EXCEPT !.status = "DELETED"])
Expiry(r) ==
  /\ request[r].status # "UNUSED" /\ ~request[r].expired
  /\ RowBecomes(r, [request[r] EXCEPT !.expired = TRUE])
Marking(c, r) ==
  /\ At(c, "expire") /\ call[c].request = r
  /\ Ending(r, "EXPIRED")

RequestEffect ==
  \/ UNCHANGED request
  \/ \E r \in Requests : Creation(r) \/ Deletion(r) \/ Expiry(r)
  \/ \E r \in Requests : Ending(r, "CANCELLED") \/ \E c \in Calls : Marking(c, r)
  \/ \E r \in Requests, u \in Uids : Approval(r, u)

LEMMA UpdateEffect ==
  ASSUME TypeInv, NEW r \in Requests, NEW from \in SUBSET {"PENDING", "APPROVED"},
         NEW status \in {"CANCELLED", "EXPIRED"}, UpdateWhere(r, from, status)
  PROVE  UNCHANGED request \/ Ending(r, status)
<1>0. request \in [Requests -> LoginRequest]
  BY DEF TypeInv, TypeOK
<1>1. CASE request[r].status \in from
  <2>1. request' = [request EXCEPT ![r] = [request[r] EXCEPT !.status = status]]
    BY <1>0, <1>1 DEF UpdateWhere
  <2>2. QED
    BY <1>1, <2>1 DEF Ending, RowBecomes, Unfinished
<1>2. CASE request[r].status \notin from
  BY <1>0, <1>2 DEF UpdateWhere, LoginRequest
<1>3. QED
  BY <1>1, <1>2

LEMMA RequestStep ==
  ASSUME TypeInv, [Next]_vars
  PROVE  RequestEffect \/ \E c \in Calls : CompleteCommit(c)
<1> USE DEF history
<1>0. request \in [Requests -> LoginRequest]
  BY DEF TypeInv, TypeOK
<1>1. ASSUME NEW c \in Calls, BrowserCall(c), ~CompleteCommit(c)
      PROVE  RequestEffect
  <2>0. /\ call[c].pc \in {"expire", "cancel"} => call[c].request \in Requests
        /\ call[c].pc = "expire" => {call[c].seen} \in SUBSET {"PENDING", "APPROVED"}
    BY DEF TypeInv, WellFormed, Callers
  <2>1. CASE \E b \in Browsers : Restart(c, b)
    <3>1. PICK b \in Browsers : Restart(c, b)
      BY <2>1
    <3>2. jar[b].pending \in Requests \union {None}
      BY DEF TypeInv, TypeOK, Jar
    <3>3. CASE jar[b].pending = None
      BY <3>1, <3>3 DEF Restart, RequestEffect
    <3>4. CASE jar[b].pending # None
      BY <3>1, <3>2, <3>4, UpdateEffect DEF Restart, RequestEffect
    <3>5. QED
      BY <3>3, <3>4
  <2>2. CASE Create(c)
    BY <1>0, <2>2 DEF Create, SetStatus, RequestEffect, Creation, RowBecomes
  <2>3. CASE PollExpire(c)
    <3>1. UNCHANGED request \/ Ending(call[c].request, "EXPIRED")
      BY <2>0, <2>3, UpdateEffect DEF PollExpire, At
    <3>2. QED
      BY <2>0, <2>3, <3>1 DEF PollExpire, At, RequestEffect, Marking
  <2>4. CASE CancelCommit(c)
    BY <2>0, <2>4, UpdateEffect DEF CancelCommit, At, RequestEffect
  <2>5. CASE UNCHANGED request
    BY <2>5 DEF RequestEffect
  <2>6. QED
    BY <1>1, <2>1, <2>2, <2>3, <2>4, <2>5
       DEF BrowserCall, Start, Logout, Poll, Complete, Cancel, StartReply,
           CompleteReply, CancelReply, LogoutReply
<1>2. ASSUME NEW a \in Approvals, BotCall(a)
      PROVE  RequestEffect
  <2>1. CASE ApproveCommit(a) /\ request[call[a].request].status = "PENDING"
    <3>1. call[a].request \in Requests /\ call[a].uid \in Uids
      BY <2>1 DEF TypeInv, WellFormed, Callers, ApproveCommit, At
    <3>2. Approval(call[a].request, call[a].uid)
      BY <1>0, <2>1, <3>1 DEF ApproveCommit, ApprovedAlready, Approval, RowBecomes
    <3>3. QED
      BY <3>1, <3>2 DEF RequestEffect
  <2>2. CASE UNCHANGED request
    BY <2>2 DEF RequestEffect
  <2>3. QED
    BY <1>2, <2>1, <2>2 DEF BotCall, Approve, ApproveAgain, ApproveCommit, ApproveReread
<1>3. ASSUME NEW r \in Requests, DeleteRequest(r) \/ RequestExpires(r)
      PROVE  RequestEffect
  BY <1>0, <1>3 DEF DeleteRequest, RequestExpires, SetStatus, RequestEffect, Deletion, Ended,
     Expiry, RowBecomes
<1>4. CASE UNCHANGED request
  BY <1>4 DEF RequestEffect
<1>5. QED
  BY <1>1, <1>2, <1>3, <1>4
     DEF Next, Throw, CleanUp, Environment, DeleteSession, SessionExpires, Suspend,
         DropCookies, vars

\* A row only ever moves forward, and takes an approver only when it has none.
Forward(r) ==
  /\ request[r].status # "UNUSED" => request'[r].status # "UNUSED"
  /\ request[r].status \notin {"UNUSED", "PENDING"}
       => request'[r].status \notin {"UNUSED", "PENDING"}
  /\ Ended(r) => Ended(r)'
  /\ request[r].status \in {"CONSUMED", "DELETED"}
       => request'[r].status \in {"CONSUMED", "DELETED"}
  /\ request[r].expired => request'[r].expired
  /\ request'[r].uid # request[r].uid => request[r].status = "PENDING"

LEMMA CompleteConsumes ==
  ASSUME TypeInv, NEW c \in Calls, CompleteCommit(c)
  PROVE  /\ call[c].request \in Requests /\ call[c].uid \in Uids
         /\ request[call[c].request].status = "APPROVED"
         /\ request[call[c].request].uid = call[c].uid
         /\ RowBecomes(call[c].request,
              [request[call[c].request] EXCEPT !.status = "CONSUMED"])
BY DEF TypeInv, TypeOK, CompleteCommit, At, WellFormed, Callers, SetStatus, RowBecomes,
   ApprovedAlready

LEMMA RowsForward ==
  ASSUME TypeInv, [Next]_vars
  PROVE  \A r \in Requests : Forward(r)
<1> SUFFICES ASSUME NEW r \in Requests
             PROVE  Forward(r)
  OBVIOUS
<1>0. request \in [Requests -> LoginRequest]
  BY DEF TypeInv, TypeOK
<1>1. CASE request'[r] = request[r]
  BY <1>1 DEF Forward, Ended
<1>2. ASSUME NEW q \in Requests, NEW new, RowBecomes(q, new), request'[r] # request[r]
      PROVE  q = r /\ request'[r] = new
  BY <1>0, <1>2 DEF RowBecomes
<1>3. ASSUME NEW q \in Requests, request'[r] # request[r],
             Creation(q) \/ Deletion(q) \/ Expiry(q)
      PROVE  Forward(r)
  BY <1>0, <1>2, <1>3 DEF Creation, Deletion, Expiry, Forward, Ended, LoginRequest
<1>4. ASSUME NEW q \in Requests, request'[r] # request[r],
             Ending(q, "CANCELLED") \/ Ending(q, "EXPIRED")
      PROVE  Forward(r)
  BY <1>0, <1>2, <1>4 DEF Ending, Unfinished, Forward, Ended, LoginRequest
<1>5. ASSUME NEW q \in Requests, NEW u \in Uids, request'[r] # request[r], Approval(q, u)
      PROVE  Forward(r)
  <2>1. /\ request[r].status = "PENDING"
        /\ request'[r] = [request[r] EXCEPT !.status = "APPROVED", !.uid = u]
    BY <1>2, <1>5 DEF Approval
  <2>2. /\ request'[r].status = "APPROVED"
        /\ request'[r].expired = request[r].expired
    BY <1>0, <2>1 DEF LoginRequest
  <2>3. QED
    BY <2>1, <2>2 DEF Forward, Ended
<1>6. ASSUME NEW c \in Calls, request'[r] # request[r], CompleteCommit(c)
      PROVE  Forward(r)
  <2>1. /\ call[c].request \in Requests
        /\ request[call[c].request].status = "APPROVED"
        /\ RowBecomes(call[c].request,
             [request[call[c].request] EXCEPT !.status = "CONSUMED"])
    BY <1>6, CompleteConsumes
  <2>2. /\ request[r].status = "APPROVED"
        /\ request'[r] = [request[r] EXCEPT !.status = "CONSUMED"]
    BY <1>2, <1>6, <2>1
  <2>3. QED
    BY <1>0, <2>2 DEF Forward, Ended, LoginRequest
<1>7. QED
  BY <1>1, <1>3, <1>4, <1>5, <1>6, RequestStep DEF RequestEffect, Marking

\* But for the completion that opens it, a session keeps its request and player.
SessionKept(s) ==
  /\ session'[s].status = "UNUSED" <=> session[s].status = "UNUSED"
  /\ session'[s].request = session[s].request
  /\ session'[s].uid = session[s].uid

Opening(c, s) ==
  /\ session[s].status = "UNUSED"
  /\ session'[s] = [status |-> "LIVE", uid |-> call[c].uid, request |-> call[c].request]
  /\ \A t \in Sessions \ {s} : SessionKept(t)
  /\ call'[c] = [call[c] EXCEPT !.pc = "completeReply", !.session = s]

LEMMA RevokedKeeps ==
  ASSUME TypeInv, NEW old \in Sessions, NEW s \in Sessions
  PROVE  /\ Revoked(old)[s].status = "UNUSED" <=> session[s].status = "UNUSED"
         /\ Revoked(old)[s].request = session[s].request
         /\ Revoked(old)[s].uid = session[s].uid
BY DEF TypeInv, TypeOK, WebSession, Revoked

LEMMA CompleteOpens ==
  ASSUME TypeInv, NEW c \in Calls, CompleteCommit(c)
  PROVE  \E s \in Sessions : Opening(c, s)
<1>1. PICK s \in Sessions :
        /\ session[s].status = "UNUSED"
        /\ OpenSession(c, s)
        /\ Begin(c, [call[c] EXCEPT !.pc = "completeReply", !.session = s])
  BY DEF CompleteCommit
<1>2. call[c].session \in Sessions \union {None}
  BY DEF TypeInv, TypeOK, Call, Callers
<1>3. /\ session'[s] = [status |-> "LIVE", uid |-> call[c].uid, request |-> call[c].request]
      /\ \A t \in Sessions \ {s} : SessionKept(t)
  <2>1. CASE call[c].session = None
    BY <1>1, <2>1 DEF OpenSession, TypeInv, TypeOK, SessionKept
  <2>2. CASE call[c].session # None
    <3>1. Revoked(call[c].session) \in [Sessions -> WebSession]
      BY <1>2, <2>2, RevokedTyped
    <3>2. session' = [Revoked(call[c].session) EXCEPT ![s] =
            [status |-> "LIVE", uid |-> call[c].uid, request |-> call[c].request]]
      BY <1>1, <2>2 DEF OpenSession
    <3>3. QED
      BY <1>2, <2>2, <3>1, <3>2, RevokedKeeps DEF SessionKept
  <2>3. QED
    BY <2>1, <2>2
<1>4. call'[c] = [call[c] EXCEPT !.pc = "completeReply", !.session = s]
  BY <1>1 DEF Begin, TypeInv, TypeOK
<1>5. QED
  BY <1>1, <1>3, <1>4 DEF Opening

LEMMA SessionStep ==
  ASSUME TypeInv, [Next]_vars
  PROVE  \/ \A s \in Sessions : SessionKept(s)
         \/ \E c \in Calls : CompleteCommit(c)
<1> USE DEF history
<1>1. ASSUME NEW c \in Calls, BrowserCall(c), ~CompleteCommit(c)
      PROVE  \A s \in Sessions : SessionKept(s)
  <2>1. CASE \E b \in Browsers : Logout(c, b)
    BY <2>1, RevokedKeeps DEF Logout, TypeInv, TypeOK, Jar, SessionKept
  <2>2. CASE UNCHANGED session
    BY <2>2 DEF SessionKept
  <2>3. QED
    BY <1>1, <2>1, <2>2
       DEF BrowserCall, Start, Restart, Poll, Complete, Cancel, Create, StartReply,
           PollExpire, CompleteReply, CancelCommit, CancelReply, LogoutReply
<1>2. ASSUME NEW s \in Sessions, DeleteSession(s) \/ SessionExpires(s)
      PROVE  \A t \in Sessions : SessionKept(t)
  BY <1>2 DEF DeleteSession, SessionExpires, SessionKept, TypeInv, TypeOK, WebSession
<1>3. CASE UNCHANGED session
  BY <1>3 DEF SessionKept
<1>4. QED
  BY <1>1, <1>2, <1>3
     DEF Next, BotCall, Approve, ApproveAgain, ApproveCommit, ApproveReread, Throw, CleanUp, Environment,
         DeleteRequest, RequestExpires, Suspend, DropCookies, vars

-----------------------------------------------------------------------------
(* One approver, and one session.                                          *)

LEMMA ApprovalStep ==
  ASSUME TypeInv, ApprovalIsKept, [Next]_vars
  PROVE  ApprovalIsKept'
<1> SUFFICES ASSUME NEW r \in Requests, NEW u \in Uids, <<r, u>> \in approvedBy'
             PROVE  request'[r].uid = u
  BY DEF ApprovalIsKept
<1>1. CASE <<r, u>> \in approvedBy
  <2>1. request[r].uid = u /\ u # None
    BY <1>1, NoneIsNoValue DEF ApprovalIsKept
  <2>2. request[r].status # "PENDING"
    BY <2>1 DEF TypeInv, RowsWellFormed
  <2>3. QED
    BY <2>1, <2>2, RowsForward DEF Forward
<1>2. CASE <<r, u>> \notin approvedBy
  <2>1. PICK a \in Approvals :
          \/ ApproveCommit(a)
          \/ ApproveReread(a)
          \/ \E q \in Requests, v \in Uids : ApproveAgain(a, q, v)
    BY <1>2
       DEF Next, BrowserCall, BotCall, Start, Restart, Logout, Poll, Complete, Cancel, Create,
           StartReply, PollExpire, CompleteCommit, CompleteReply, CancelCommit, CancelReply,
           LogoutReply, Approve, Throw, CleanUp, Environment, DeleteRequest, DeleteSession,
           RequestExpires, SessionExpires, Suspend, DropCookies, history, vars
  <2>2. CASE ApproveCommit(a)
    <3>1. call[a].request = r /\ call[a].uid = u
      BY <1>2, <2>2 DEF ApproveCommit
    <3>2. CASE request' = [request EXCEPT ![r].status = "APPROVED", ![r].uid = u]
      <4>1. request'[r] = [request[r] EXCEPT !.status = "APPROVED", !.uid = u]
        BY <3>2 DEF TypeInv, TypeOK
      <4>2. QED
        BY <4>1 DEF TypeInv, TypeOK, LoginRequest
    <3>3. QED
      BY <1>2, <2>2, <3>1, <3>2 DEF ApproveCommit
  <2>3. CASE \E q \in Requests, v \in Uids : ApproveAgain(a, q, v)
    BY <1>2, <2>3 DEF ApproveAgain, ApprovedAlready
  <2>4. CASE ApproveReread(a)
    BY <1>2, <2>4 DEF ApproveReread, ApprovedAlready
  <2>5. QED
    BY <2>1, <2>2, <2>3, <2>4
<1>3. QED
  BY <1>1, <1>2

\* For any number of players who approve one request at once, the bot tells one
\* of them only that it is his, and it is his for good.
THEOREM ApprovalsAreKept == Spec => []ApprovalIsKept
<1>1. Init => ApprovalIsKept
  BY DEF Init, ApprovalIsKept
<1>2. Spec => []TypeInv
  BY TypeInit, TypeStep, PTL DEF Spec
<1>3. TypeInv /\ ApprovalIsKept /\ [Next]_vars => ApprovalIsKept'
  BY ApprovalStep
<1>4. QED
  BY <1>1, <1>2, <1>3, PTL DEF Spec

LEMMA SessionInit == Init => SessionInv
BY DEF Init, SessionInv, SessionsAreApproved, UnusedSessions

LEMMA SessionInvStep ==
  ASSUME TypeInv, SessionInv, [Next]_vars
  PROVE  SessionInv'
<1>0. /\ session \in [Sessions -> WebSession]
      /\ request \in [Requests -> LoginRequest]
  BY DEF TypeInv, TypeOK
<1>1. \A r \in Requests : request[r].status \in {"CONSUMED", "DELETED"} =>
        /\ request'[r].status \in {"CONSUMED", "DELETED"}
        /\ request'[r].uid = request[r].uid
  BY RowsForward DEF Forward
<1>2. \A s \in Sessions : session[s].request \in Requests \union {None}
  BY <1>0 DEF WebSession
<1>3. CASE \A s \in Sessions : SessionKept(s)
  BY <1>1, <1>2, <1>3 DEF SessionInv, SessionsAreApproved, UnusedSessions, SessionKept
<1>4. ASSUME NEW c \in Calls, CompleteCommit(c)
      PROVE  SessionInv'
  <2> DEFINE r == call[c].request
  <2>1. PICK s \in Sessions : Opening(c, s)
    BY <1>4, CompleteOpens
  <2>2. /\ r \in Requests /\ request[r].status = "APPROVED"
        /\ request[r].uid = call[c].uid /\ r # None
        /\ request'[r] = [request[r] EXCEPT !.status = "CONSUMED"]
    BY <1>0, <1>4, CompleteConsumes, NoneIsNoValue DEF RowBecomes
  <2>3. request'[r].status = "CONSUMED" /\ request'[r].uid = call[c].uid
    BY <1>0, <2>2 DEF LoginRequest
  <2>4. /\ session'[s].status = "LIVE" /\ session'[s].request = r
        /\ session'[s].uid = call[c].uid
    BY <2>1 DEF Opening
  <2>5. \A t \in Sessions \ {s} : SessionKept(t) /\ session[t].request # r
    BY <2>1, <2>2 DEF Opening, SessionInv, SessionsAreApproved, UnusedSessions
  <2>6. session[s].request = None
    BY <2>1 DEF Opening, SessionInv, UnusedSessions
  <2>7. \A t \in Sessions : session'[t].status # "UNUSED" =>
          /\ session'[t].request # None
          /\ request'[session'[t].request].status \in {"CONSUMED", "DELETED"}
          /\ request'[session'[t].request].uid = session'[t].uid
    <3>1. ASSUME NEW t \in Sessions \ {s}, session'[t].status # "UNUSED"
          PROVE  /\ session'[t].request # None
                 /\ request'[session'[t].request].status \in {"CONSUMED", "DELETED"}
                 /\ request'[session'[t].request].uid = session'[t].uid
      BY <1>1, <1>2, <2>5, <3>1 DEF SessionInv, SessionsAreApproved, SessionKept
    <3>2. /\ session'[s].request # None
          /\ request'[session'[s].request].status \in {"CONSUMED", "DELETED"}
          /\ request'[session'[s].request].uid = session'[s].uid
      BY <2>2, <2>3, <2>4
    <3>3. QED
      BY <3>1, <3>2
  <2>8. \A t, v \in Sessions : session'[t].status # "UNUSED" /\ v # t
          => session'[v].request # session'[t].request
    BY <2>2, <2>4, <2>5, <2>6 DEF SessionInv, SessionsAreApproved, SessionKept
  <2>9. UnusedSessions'
    BY <2>4, <2>5 DEF SessionInv, UnusedSessions, SessionKept
  <2>10. QED
    BY <2>7, <2>8, <2>9 DEF SessionInv, SessionsAreApproved
<1>5. QED
  BY <1>3, <1>4, SessionStep

LEMMA SessionInvariant == Spec => [](TypeInv /\ SessionInv)
<1>1. Init => TypeInv /\ SessionInv
  BY TypeInit, SessionInit
<1>2. TypeInv /\ SessionInv /\ [Next]_vars => (TypeInv /\ SessionInv)'
  BY TypeStep, SessionInvStep
<1>3. QED
  BY <1>1, <1>2, PTL DEF Spec

\* However many tabs complete requests at once, every session belongs to the
\* player who approved its request, and no request has opened two.
THEOREM SessionsStemFromApprovals == Spec => []SessionsAreApproved
<1>1. TypeInv /\ SessionInv => SessionsAreApproved
  BY DEF SessionInv
<1>2. QED
  BY <1>1, SessionInvariant, PTL

-----------------------------------------------------------------------------
(* What a step does to the calls: at most one call moves, in one of these  *)
(* ways, f being what it carries afterwards.                               *)

Asks(p, f) == p \in Calls /\ f.pc \in {"create", "logoutReply"} /\ f.request = None

Resumes(p, f) ==
  /\ p \in Calls /\ f.pc = "startReply"
  /\ f.browser \in Browsers /\ f.request \in Requests
  /\ f.request = jar[f.browser].pending

Creates(p, f) ==
  /\ p \in Calls /\ f.pc = "startReply"
  /\ f.request \in Requests /\ Creation(f.request)

Uses(p, f) ==
  /\ p \in Calls
  /\ f.pc \in {"expire", "cancel", "cancelReply", "complete"}
  /\ f.browser \in Browsers /\ f.request \in held[f.browser]
  /\ f.pc = "complete" =>
       request[f.request].status = "APPROVED" /\ ~request[f.request].expired
  /\ f.pc = "expire" => request[f.request].expired /\ request[f.request].status = f.seen
  /\ UNCHANGED request

Proceeds(p, f) ==
  /\ p \in Calls /\ f.browser = call[p].browser /\ f.request = call[p].request
  /\ \/ f.pc = "completeReply" /\ CompleteCommit(p)
     \/ f.pc = "cancelReply"

Approves(p, f) ==
  /\ p \in Approvals
  /\ \/ f.pc = "approve" /\ f.request \in Requests /\ request[f.request].status = "PENDING"
     \/ f.pc = "approveReread" /\ f.request = call[p].request

Moves(p, f) ==
  \/ f = Idle
  \/ Asks(p, f)
  \/ Resumes(p, f)
  \/ Creates(p, f)
  \/ Uses(p, f)
  \/ Proceeds(p, f)
  \/ Approves(p, f)

LEMMA CallStep ==
  ASSUME TypeInv, [Next]_vars
  PROVE  UNCHANGED call \/ \E p \in Callers : \E f : Begin(p, f) /\ Moves(p, f)
<1> USE DEF history
<1>0. /\ call \in [Callers -> Call] /\ Calls \subseteq Callers /\ Approvals \subseteq Callers
      /\ request \in [Requests -> LoginRequest]
  BY DEF TypeInv, TypeOK, Callers
<1>1. ASSUME NEW c \in Calls, BrowserCall(c)
      PROVE  \E f : Begin(c, f) /\ Moves(c, f)
  <2>1. ASSUME NEW b \in Browsers, Start(c, b)
        PROVE  \E f : Begin(c, f) /\ Moves(c, f)
    <3>1. jar[b].pending \in Requests \union {None}
      BY DEF TypeInv, TypeOK, Jar
    <3> DEFINE resumed == [Idle EXCEPT !.pc = "startReply", !.browser = b,
                                       !.request = jar[b].pending]
               asking  == [Idle EXCEPT !.pc = "create", !.browser = b]
    <3>2. jar[b].pending # None => Resumes(c, resumed)
      BY <3>1 DEF Resumes, Idle
    <3>3. Asks(c, asking)
      BY DEF Asks, Idle
    <3>4. Begin(c, asking) \/ (Begin(c, resumed) /\ jar[b].pending # None)
      BY <2>1 DEF Start
    <3>5. QED
      BY <3>2, <3>3, <3>4 DEF Moves
  <2>2. ASSUME NEW b \in Browsers, Restart(c, b) \/ Logout(c, b)
        PROVE  \E f : Begin(c, f) /\ Moves(c, f)
    <3> DEFINE asking  == [Idle EXCEPT !.pc = "create", !.browser = b]
               leaving == [Idle EXCEPT !.pc = "logoutReply", !.browser = b]
    <3>1. Asks(c, asking) /\ Asks(c, leaving)
      BY DEF Asks, Idle
    <3>2. Begin(c, asking) \/ Begin(c, leaving)
      BY <2>2 DEF Restart, Logout
    <3>3. QED
      BY <3>1, <3>2 DEF Moves
  <2>3. ASSUME NEW b \in Browsers, NEW r \in Requests, Poll(c, b, r)
        PROVE  \E f : Begin(c, f) /\ Moves(c, f)
    <3> DEFINE f == [Idle EXCEPT !.pc = "expire", !.browser = b, !.request = r,
                                 !.seen = request[r].status]
    <3>1. Uses(c, f)
      BY <2>3 DEF Poll, Uses, Idle
    <3>2. Begin(c, f)
      BY <2>3 DEF Poll
    <3>3. QED
      BY <3>1, <3>2 DEF Moves
  <2>4. ASSUME NEW b \in Browsers, NEW r \in Requests, Complete(c, b, r)
        PROVE  \E f : Begin(c, f) /\ Moves(c, f)
    <3> DEFINE f == [Idle EXCEPT !.pc = "complete", !.browser = b, !.request = r,
                                 !.uid = request[r].uid, !.session = jar[b].session]
    <3>1. Uses(c, f)
      BY <2>4 DEF Complete, Uses, Idle
    <3>2. Begin(c, f)
      BY <2>4 DEF Complete
    <3>3. QED
      BY <3>1, <3>2 DEF Moves
  <2>5. ASSUME NEW b \in Browsers, NEW r \in Requests, Cancel(c, b, r)
        PROVE  \E f : Begin(c, f) /\ Moves(c, f)
    <3> DEFINE f == [Idle EXCEPT !.browser = b, !.request = r,
           !.pc = IF request[r].status \in {"CONSUMED", "EXPIRED"} THEN "cancelReply"
                                                                   ELSE "cancel"]
    <3>1. Uses(c, f)
      BY <2>5 DEF Cancel, Uses, Idle
    <3>2. Begin(c, f)
      BY <2>5 DEF Cancel
    <3>3. QED
      BY <3>1, <3>2 DEF Moves
  <2>6. CASE Create(c)
    <3>1. PICK r \in Requests :
            /\ request[r].status = "UNUSED"
            /\ SetStatus(r, "PENDING")
            /\ Begin(c, [call[c] EXCEPT !.pc = "startReply", !.request = r])
      BY <2>6 DEF Create
    <3>2. Creation(r)
      BY <1>0, <3>1 DEF SetStatus, Creation, RowBecomes
    <3>3. Creates(c, [call[c] EXCEPT !.pc = "startReply", !.request = r])
      BY <1>0, <3>2 DEF Creates, Call
    <3>4. QED
      BY <3>1, <3>3 DEF Moves
  <2>7. CASE CompleteCommit(c)
    <3>1. PICK s \in Sessions :
            Begin(c, [call[c] EXCEPT !.pc = "completeReply", !.session = s])
      BY <2>7 DEF CompleteCommit
    <3>2. Proceeds(c, [call[c] EXCEPT !.pc = "completeReply", !.session = s])
      BY <1>0, <2>7 DEF Proceeds, Call
    <3>3. QED
      BY <3>1, <3>2 DEF Moves
  <2>8. CASE CancelCommit(c)
    <3>1. Begin(c, [call[c] EXCEPT !.pc = "cancelReply"])
      BY <2>8 DEF CancelCommit, Continue, Begin
    <3>2. Proceeds(c, [call[c] EXCEPT !.pc = "cancelReply"])
      BY <1>0 DEF Proceeds, Call
    <3>3. QED
      BY <3>1, <3>2 DEF Moves
  <2>9. CASE End(c)
    BY <2>9 DEF End, Begin, Moves
  <2>10. QED
    BY <1>1, <2>1, <2>2, <2>3, <2>4, <2>5, <2>6, <2>7, <2>8, <2>9
       DEF BrowserCall, StartReply, PollExpire, CompleteReply, CancelReply, LogoutReply
<1>2. ASSUME NEW a \in Approvals, BotCall(a)
      PROVE  UNCHANGED call \/ \E f : Begin(a, f) /\ Moves(a, f)
  <2>1. ASSUME NEW r \in Requests, NEW u \in Uids, Approve(a, r, u)
        PROVE  \E f : Begin(a, f) /\ Moves(a, f)
    <3> DEFINE f == [Idle EXCEPT !.pc = "approve", !.request = r, !.uid = u]
    <3>1. Approves(a, f)
      BY <2>1 DEF Approve, Approves, Idle
    <3>2. Begin(a, f)
      BY <2>1 DEF Approve
    <3>3. QED
      BY <3>1, <3>2 DEF Moves
  <2>2. CASE End(a)
    BY <2>2 DEF End, Begin, Moves
  <2>3. CASE Continue(a, "approveReread")
    <3> DEFINE f == [call[a] EXCEPT !.pc = "approveReread"]
    <3>1. Begin(a, f)
      BY <2>3 DEF Continue, Begin
    <3>2. f.pc = "approveReread" /\ f.request = call[a].request
      BY <1>0 DEF Call, Callers
    <3>3. QED
      BY <3>1, <3>2 DEF Moves, Approves
  <2>4. QED
    BY <1>2, <2>1, <2>2, <2>3 DEF BotCall, ApproveAgain, ApproveCommit, ApproveReread
<1>3. ASSUME NEW p \in Callers, Throw(p)
      PROVE  \E f : Begin(p, f) /\ Moves(p, f)
  BY <1>3 DEF Throw, End, Begin, Moves
<1>4. CASE UNCHANGED call
  BY <1>4
<1>5. QED
  BY <1>0, <1>1, <1>2, <1>3, <1>4
     DEF Next, Callers, CleanUp, Environment, DeleteRequest, DeleteSession, RequestExpires,
         SessionExpires, Suspend, DropCookies, vars

\* What the pages and the cookies of a browser learn, they learn from StartReply.
PagesKept ==
  \A b \in Browsers :
    /\ held'[b] = held[b]
    /\ jar'[b].pending = jar[b].pending \/ jar'[b].pending = None

LEMMA PagesStep ==
  ASSUME TypeInv, [Next]_vars
  PROVE  PagesKept \/ \E c \in Calls : StartReply(c)
<1> USE DEF history
<1>0. jar \in [Browsers -> Jar] /\ held \in [Browsers -> SUBSET Requests]
  BY DEF TypeInv, TypeOK
<1>1. CASE UNCHANGED <<jar, held>>
  BY <1>1 DEF PagesKept
<1>2. ASSUME NEW c \in Calls, CompleteReply(c) \/ CancelReply(c) \/ LogoutReply(c)
      PROVE  PagesKept
  <2>1. \A b \in Browsers : jar'[b].pending = jar[b].pending \/ jar'[b].pending = None
    BY <1>0, <1>2 DEF CompleteReply, CancelReply, LogoutReply, NoCookies, Jar
  <2>2. QED
    BY <1>2, <2>1 DEF PagesKept, CompleteReply, CancelReply, LogoutReply
<1>3. ASSUME NEW d \in Browsers, DropCookies(d)
      PROVE  PagesKept
  <2>1. \A b \in Browsers : jar'[b].pending = jar[b].pending \/ jar'[b].pending = None
    BY <1>0, <1>3 DEF DropCookies, NoCookies, Jar
  <2>2. QED
    BY <1>3, <2>1 DEF PagesKept, DropCookies
<1>4. QED
  BY <1>1, <1>2, <1>3
     DEF Next, BrowserCall, BotCall, Start, Restart, Logout, Poll, Complete, Cancel, Create,
         PollExpire, CompleteCommit, CancelCommit, Approve, ApproveAgain, ApproveCommit, ApproveReread,
         Throw, CleanUp, Environment, DeleteRequest, DeleteSession, RequestExpires,
         SessionExpires, Suspend, vars

LEMMA StartReplyEffect ==
  ASSUME TypeInv, NEW c \in Calls, StartReply(c)
  PROVE  /\ call[c].browser \in Browsers /\ call[c].request \in Requests
         /\ jar' = [jar EXCEPT ![call[c].browser] =
                      [jar[call[c].browser] EXCEPT !.pending = call[c].request]]
         /\ held' = [held EXCEPT ![call[c].browser] =
                      held[call[c].browser] \union {call[c].request}]
BY DEF TypeInv, TypeOK, StartReply, At, WellFormed, Callers

-----------------------------------------------------------------------------
(* What is known was created.                                              *)

LEMMA KnownStep ==
  ASSUME TypeInv, KnownInv, [Next]_vars
  PROVE  KnownInv'
<1>0. /\ jar \in [Browsers -> Jar] /\ held \in [Browsers -> SUBSET Requests]
      /\ call \in [Callers -> Call] /\ request \in [Requests -> LoginRequest]
  BY DEF TypeInv, TypeOK, Callers
<1>1. \A r \in Requests : request[r].status # "UNUSED" => request'[r].status # "UNUSED"
  BY RowsForward DEF Forward
<1>2. PagesKnown'
  <2>1. CASE PagesKept
    BY <1>0, <1>1, <2>1, NoneIsNoValue DEF PagesKept, KnownInv, PagesKnown
  <2>2. ASSUME NEW c \in Calls, StartReply(c)
        PROVE  PagesKnown'
    <3>1. request'[call[c].request].status # "UNUSED"
      BY <1>1, <2>2, StartReplyEffect DEF KnownInv, CallsKnown, Callers
    <3>2. ASSUME NEW b \in Browsers
          PROVE  /\ jar'[b].pending \in {jar[b].pending, call[c].request}
                 /\ held'[b] \subseteq held[b] \union {call[c].request}
      <4> DEFINE d == call[c].browser
                 r == call[c].request
      <4>1. /\ d \in Browsers
            /\ jar' = [jar EXCEPT ![d] = [jar[d] EXCEPT !.pending = r]]
            /\ held' = [held EXCEPT ![d] = held[d] \union {r}]
        BY <2>2, StartReplyEffect
      <4>2. jar[d] \in Jar
        BY <1>0, <4>1
      <4>3. [jar[d] EXCEPT !.pending = r].pending = r
        BY <4>2 DEF Jar
      <4> HIDE DEF d, r
      <4>4. QED
        BY <1>0, <4>1, <4>3 DEF d, r
    <3>3. QED
      BY <1>0, <1>1, <3>1, <3>2 DEF KnownInv, PagesKnown
  <2>3. QED
    BY <2>1, <2>2, PagesStep
<1>3. CallsKnown'
  <2>1. CASE UNCHANGED call
    BY <1>1, <2>1 DEF KnownInv, CallsKnown
  <2>2. ASSUME NEW p \in Callers, NEW f, Begin(p, f), Moves(p, f)
        PROVE  CallsKnown'
    <3>1. f.request \in Requests => request'[f.request].status # "UNUSED"
      <4>1. CASE f = Idle \/ Asks(p, f)
        BY <4>1, NoneIsNoValue DEF Idle, Asks
      <4>2. CASE Resumes(p, f) \/ Uses(p, f) \/ Proceeds(p, f) \/ Approves(p, f)
        BY <1>0, <1>1, <4>2 DEF Resumes, Uses, Proceeds, Approves, KnownInv,
           PagesKnown, CallsKnown
      <4>3. CASE Creates(p, f)
        BY <1>0, <4>3 DEF Creates, Creation, RowBecomes, LoginRequest
      <4>4. QED
        BY <2>2, <4>1, <4>2, <4>3 DEF Moves
    <3>2. call'[p] = f /\ \A q \in Callers \ {p} : call'[q] = call[q]
      BY <1>0, <2>2 DEF Begin
    <3>3. QED
      BY <1>1, <3>1, <3>2 DEF KnownInv, CallsKnown
  <2>3. QED
    BY <2>1, <2>2, CallStep
<1>4. QED
  BY <1>2, <1>3 DEF KnownInv

-----------------------------------------------------------------------------
(* A dismissed request opens nothing.                                      *)

LEMMA FoundStep ==
  ASSUME TypeInv, KnownInv, CallsFound, [Next]_vars
  PROVE  CallsFound'
<1> DEFINE Found(p) ==
      LET r == call[p].request
      IN  /\ At(p, "complete") => request[r].status # "PENDING"
          /\ At(p, "expire") =>
               /\ request[r].expired
               /\ call[p].seen = "APPROVED" => request[r].status # "PENDING"
               /\ call[p].seen = "PENDING" =>
                    \A q \in Callers : At(q, "complete") => call[q].request # r
<1>0. /\ call \in [Callers -> Call]
      /\ \A p \in Callers :
           call[p].pc \in {"complete", "expire"} => call[p].request \in Requests
  BY DEF TypeInv, TypeOK, Callers, WellFormed
<1>1. \A r \in Requests :
        /\ request[r].status \notin {"UNUSED", "PENDING"} => request'[r].status # "PENDING"
        /\ request[r].expired => request'[r].expired
  BY RowsForward DEF Forward
<1>2. CASE UNCHANGED call
  BY <1>0, <1>1, <1>2 DEF KnownInv, CallsKnown, CallsFound, At
<1>3. ASSUME NEW p \in Callers, NEW f, Begin(p, f), Moves(p, f)
      PROVE  CallsFound'
  <2>1. call'[p] = f /\ \A q \in Callers \ {p} : call'[q] = call[q]
    BY <1>0, <1>3 DEF Begin
  <2>2. f.pc \in {"complete", "expire"} => Uses(p, f) /\ f.request \in Requests
    BY <1>3 DEF Moves, Idle, Asks, Resumes, Creates, Proceeds, Approves, Uses, TypeInv, TypeOK
  <2>3. ASSUME NEW q \in Callers \ {p}
        PROVE  Found(q)'
    <3>1. At(q, "complete")' => request'[call'[q].request].status # "PENDING"
      BY <1>0, <1>1, <2>1 DEF At, KnownInv, CallsKnown, CallsFound
    <3>2. At(q, "expire")' => /\ request'[call'[q].request].expired
                              /\ call'[q].seen = "APPROVED"
                                   => request'[call'[q].request].status # "PENDING"
      BY <1>0, <1>1, <2>1 DEF At, KnownInv, CallsKnown, CallsFound
    <3>3. ASSUME At(q, "expire")', call'[q].seen = "PENDING", f.pc = "complete"
          PROVE  f.request # call'[q].request
      BY <1>0, <2>1, <2>2, <3>3 DEF At, Uses, CallsFound
    <3>4. At(q, "expire")' /\ call'[q].seen = "PENDING" =>
            \A c \in Callers : At(c, "complete")' => call'[c].request # call'[q].request
      BY <2>1, <3>3 DEF At, CallsFound
    <3>5. QED
      BY <3>1, <3>2, <3>4
  <2>4. Found(p)'
    <3>1. CASE f.pc = "complete"
      BY <2>1, <2>2, <3>1 DEF At, Uses
    <3>2. CASE f.pc = "expire"
      <4>1. request'[f.request].expired /\ request'[f.request].status = f.seen
        BY <2>2, <3>2 DEF Uses
      <4>2. request[f.request].status = f.seen
        BY <2>2, <3>2 DEF Uses
      <4>3. f.seen = "PENDING" =>
              \A c \in Callers : At(c, "complete")' => call'[c].request # f.request
        BY <2>1, <3>2, <4>2 DEF At, CallsFound
      <4>4. QED
        BY <2>1, <3>2, <4>1, <4>3 DEF At
    <3>3. QED
      BY <2>1, <3>1, <3>2 DEF At
  <2>5. QED
    BY <2>3, <2>4 DEF CallsFound
<1>4. QED
  BY <1>2, <1>3, CallStep

LEMMA NewlyDismissed ==
  ASSUME TypeInv, [Next]_vars, NEW r \in Requests, r \in dismissed', r \notin dismissed
  PROVE  \/ \E b \in Browsers :
              /\ jar[b].pending = r
              /\ UpdateWhere(r, {"PENDING", "APPROVED"}, "CANCELLED")
         \/ \E c \in Calls : CancelCommit(c) /\ call[c].request = r
         \/ \E c \in Calls : PollExpire(c) /\ call[c].request = r
<1>1. CASE \E c \in Calls, b \in Browsers : Restart(c, b)
  BY <1>1 DEF Restart
<1>2. CASE \E c \in Calls : CancelCommit(c) \/ PollExpire(c)
  BY <1>2 DEF CancelCommit, PollExpire
<1>3. QED
  BY <1>1, <1>2
     DEF Next, BrowserCall, BotCall, Start, Logout, Poll, Complete, Cancel, Create, StartReply,
         CompleteCommit, CompleteReply, CancelReply, LogoutReply, Approve, ApproveAgain,
         ApproveCommit, ApproveReread, Throw, CleanUp, Environment, DeleteRequest, DeleteSession,
         RequestExpires, SessionExpires, Suspend, DropCookies, history, vars

LEMMA UpdateEnds ==
  ASSUME TypeInv, NEW r \in Requests, request[r].status # "UNUSED", NEW from,
         NEW status \in {"CANCELLED", "EXPIRED"}, UpdateWhere(r, from, status)
  PROVE  /\ Ended(r) \/ request[r].status \in from => Ended(r)'
         /\ request[r].status \notin from => request'[r].status = request[r].status
BY DEF TypeInv, TypeOK, UpdateWhere, LoginRequest, RequestStatuses, Ended

LEMMA DismissedStep ==
  ASSUME TypeInv, DismissedInv, [Next]_vars
  PROVE  DismissedIsOver'
<1> SUFFICES ASSUME NEW r \in Requests, r \in dismissed'
             PROVE  \/ Ended(r)'
                    \/ /\ request'[r].expired
                       /\ \A q \in Callers : call'[q].pc = "complete" => call'[q].request # r
  BY TypeStep DEF DismissedIsOver, At, TypeInv, TypeOK
<1>0. call \in [Callers -> Call] /\ request \in [Requests -> LoginRequest]
  BY DEF TypeInv, TypeOK, Callers
<1>1. Forward(r)
  BY RowsForward
<1>2. ASSUME request[r].expired,
             \A q \in Callers : At(q, "complete") => call[q].request # r
      PROVE  /\ request'[r].expired
             /\ \A q \in Callers : call'[q].pc = "complete" => call'[q].request # r
  <2>1. CASE UNCHANGED call
    BY <1>1, <1>2, <2>1 DEF Forward, At
  <2>2. ASSUME NEW p \in Callers, NEW f, Begin(p, f), Moves(p, f)
        PROVE  \A q \in Callers : call'[q].pc = "complete" => call'[q].request # r
    <3>1. call'[p] = f /\ \A q \in Callers \ {p} : call'[q] = call[q]
      BY <1>0, <2>2 DEF Begin
    <3>2. f.pc = "complete" => Uses(p, f)
      BY <2>2 DEF Moves, Idle, Asks, Resumes, Creates, Proceeds, Approves
    <3>3. f.pc = "complete" => f.request # r
      BY <1>2, <3>2 DEF Uses
    <3>4. QED
      BY <1>2, <3>1, <3>3 DEF At
  <2>3. QED
    BY <1>1, <1>2, <2>1, <2>2, CallStep DEF Forward
<1>3. CASE r \in dismissed
  BY <1>1, <1>2, <1>3 DEF DismissedInv, DismissedIsOver, Forward
<1>4. ASSUME request[r].status # "UNUSED",
             UpdateWhere(r, {"PENDING", "APPROVED"}, "CANCELLED")
      PROVE  Ended(r)'
  <2>1. Ended(r) \/ request[r].status \in {"PENDING", "APPROVED"}
    BY <1>0, <1>4 DEF LoginRequest, RequestStatuses, Ended
  <2>2. QED
    BY <1>4, <2>1, UpdateEnds
<1>5. ASSUME NEW b \in Browsers, jar[b].pending = r,
             UpdateWhere(r, {"PENDING", "APPROVED"}, "CANCELLED")
      PROVE  Ended(r)'
  BY <1>4, <1>5 DEF DismissedInv, KnownInv, PagesKnown
<1>6. ASSUME NEW c \in Calls, CancelCommit(c), call[c].request = r
      PROVE  Ended(r)'
  BY <1>4, <1>6 DEF CancelCommit, DismissedInv, KnownInv, CallsKnown, Callers
<1>7. ASSUME NEW c \in Calls, PollExpire(c), call[c].request = r
      PROVE  \/ Ended(r)'
             \/ /\ request'[r].expired
                /\ \A q \in Callers : call'[q].pc = "complete" => call'[q].request # r
  <2>1. /\ request[r].status # "UNUSED" /\ request[r].expired
        /\ call[c].seen \in {"PENDING", "APPROVED"}
        /\ call[c].seen = "APPROVED" => request[r].status # "PENDING"
        /\ call[c].seen = "PENDING" =>
             \A q \in Callers : At(q, "complete") => call[q].request # r
    BY <1>7 DEF DismissedInv, KnownInv, CallsKnown, CallsFound, PollExpire, At, TypeInv,
       WellFormed, Callers
  <2>2. CASE call[c].seen = "PENDING"
    BY <1>2, <2>1, <2>2
  <2>3. CASE call[c].seen = "APPROVED"
    <3>1. Ended(r) \/ request[r].status = "APPROVED"
      BY <1>0, <2>1, <2>3 DEF LoginRequest, RequestStatuses, Ended
    <3>2. UpdateWhere(r, {"APPROVED"}, "EXPIRED")
      BY <1>7, <2>3 DEF PollExpire
    <3>3. QED
      BY <2>1, <3>1, <3>2, UpdateEnds
  <2>4. QED
    BY <2>1, <2>2, <2>3
<1>8. QED
  BY <1>3, <1>5, <1>6, <1>7, NewlyDismissed

NothingOpens ==
  \A s \in Sessions :
    session[s].status = "UNUSED" /\ session'[s].status = "LIVE"
      => session'[s].request \notin dismissed

LEMMA DismissedOpensNoSession ==
  ASSUME TypeInv, DismissedInv, [Next]_vars
  PROVE  NothingOpens
<1>1. ASSUME NEW c \in Calls, CompleteCommit(c)
      PROVE  NothingOpens
  <2>1. PICK s \in Sessions : Opening(c, s)
    BY <1>1, CompleteOpens
  <2>2. \A t \in Sessions :
          session[t].status = "UNUSED" /\ session'[t].status = "LIVE"
            => session'[t].request = call[c].request
    BY <2>1 DEF Opening, SessionKept
  <2>3. request[call[c].request].status = "APPROVED" /\ At(c, "complete") /\ c \in Callers
    BY <1>1, CompleteConsumes DEF CompleteCommit, Callers
  <2>4. call[c].request \notin dismissed
    BY <2>3 DEF DismissedInv, DismissedIsOver, Ended
  <2>5. QED
    BY <2>2, <2>4 DEF NothingOpens
<1>2. CASE \A s \in Sessions : SessionKept(s)
  BY <1>2 DEF SessionKept, NothingOpens
<1>3. QED
  BY <1>1, <1>2, SessionStep

\* Whatever else runs at the time: once a browser was told that a request is over,
\* or asked for another in its place, that request opens no session.
THEOREM DismissalIsFinal == Spec => DismissedOpensNothing
<1>1. Init => TypeInv /\ DismissedInv
  BY TypeInit, NoneIsNoValue
     DEF Init, DismissedInv, KnownInv, PagesKnown, CallsKnown, CallsFound, DismissedIsOver,
         NoCookies, Idle, At, Callers
<1>2. TypeInv /\ DismissedInv /\ [Next]_vars =>
        TypeInv' /\ DismissedInv' /\ [NothingOpens]_session
  BY TypeStep, KnownStep, FoundStep, DismissedStep, DismissedOpensNoSession DEF DismissedInv
<1>3. QED
  BY <1>1, <1>2, PTL DEF Spec, DismissedOpensNothing, NothingOpens

-----------------------------------------------------------------------------
(* Browsers are isolated.                                                  *)

LEMMA OneBrowserStep ==
  ASSUME TypeInv, IsolationInv, [Next]_vars
  PROVE  OneBrowser'
<1>0. /\ held \in [Browsers -> SUBSET Requests] /\ call \in [Callers -> Call]
      /\ Calls \subseteq Callers
  BY DEF TypeInv, TypeOK, Callers
<1>1. ASSUME NEW c \in Calls, StartReply(c)
      PROVE  OneBrowser'
  <2>1. /\ call[c].browser \in Browsers /\ call[c].request \in Requests
        /\ held' = [held EXCEPT ![call[c].browser] =
                     held[call[c].browser] \union {call[c].request}]
    BY <1>1, StartReplyEffect
  <2>2. /\ call'[c] = Idle
        /\ \A q \in Calls \ {c} : call'[q] = call[q]
    BY <1>0, <1>1 DEF StartReply, End
  <2>3. \A b \in Browsers : \A r \in held'[b] :
          r \in held[b] \/ (r = call[c].request /\ b = call[c].browser)
    BY <1>0, <2>1
  <2>4. \A b, d \in Browsers : held'[b] \intersect held'[d] # {} => b = d
    <3>1. \A b, d \in Browsers, r \in Requests : r \in held[b] /\ r \in held[d] => b = d
      BY DEF IsolationInv, OneBrowser
    <3>2. ASSUME NEW b \in Browsers, NEW d \in Browsers, NEW r \in held'[b], r \in held'[d]
          PROVE  b = d
      BY <2>1, <2>3, <3>1, <3>2, NoneIsNoValue DEF IsolationInv, OneBrowser
    <3>3. QED
      BY <3>2
  <2>5. \A q \in Calls, d \in Browsers :
          call'[q].request \in held'[d] => call'[q].browser = d
    <3>1. ASSUME NEW q \in Calls, NEW d \in Browsers, call'[q].request \in held'[d]
          PROVE  call'[q].browser = d
      <4>1. q # c
        BY <1>0, <2>1, <2>2, <2>3, <3>1, NoneIsNoValue DEF Idle
      <4>2. QED
        BY <2>1, <2>2, <2>3, <3>1, <4>1, NoneIsNoValue DEF IsolationInv, OneBrowser
    <3>2. QED
      BY <3>1
  <2>6. QED
    BY <2>2, <2>4, <2>5 DEF Idle, IsolationInv, OneBrowser
<1>2. ASSUME NEW p \in Callers, NEW f, PagesKept, Begin(p, f), Moves(p, f)
      PROVE  OneBrowser'
  <2>1. call'[p] = f /\ \A q \in Callers \ {p} : call'[q] = call[q]
    BY <1>0, <1>2 DEF Begin
  <2>2. \A b \in Browsers : held'[b] = held[b]
    BY <1>2 DEF PagesKept
  <2>3. CASE p \notin Calls
    BY <1>0, <2>1, <2>2, <2>3 DEF IsolationInv, OneBrowser
  <2>4. ASSUME p \in Calls,
               f.request # None =>
                 /\ \A d \in Browsers : f.request \in held[d] => f.browser = d
                 /\ \A q \in Calls \ {p} :
                      call[q].request = f.request => call[q].browser = f.browser
        PROVE  OneBrowser'
    <3>1. \A q \in Calls, d \in Browsers :
            call'[q].request \in held'[d] => call'[q].browser = d
      BY <1>0, <2>1, <2>2, <2>4, NoneIsNoValue DEF IsolationInv, OneBrowser
    <3>2. \A c, q \in Calls :
            call'[c].request = call'[q].request /\ call'[c].request # None
              => call'[c].browser = call'[q].browser
      BY <1>0, <2>1, <2>4 DEF IsolationInv, OneBrowser
    <3>3. QED
      BY <2>2, <3>1, <3>2 DEF IsolationInv, OneBrowser
  <2>5. CASE f.request = None
    BY <1>0, <2>3, <2>4, <2>5
  <2>6. ASSUME p \in Calls, f.browser \in Browsers, f.request \in held[f.browser]
        PROVE  OneBrowser'
    BY <2>4, <2>6 DEF IsolationInv, OneBrowser
  <2>7. CASE Resumes(p, f)
    BY <2>6, <2>7, NoneIsNoValue DEF Resumes, IsolationInv, CookiesAreOwn
  <2>8. CASE Uses(p, f)
    BY <2>6, <2>8 DEF Uses
  <2>9. CASE Proceeds(p, f)
    BY <2>4, <2>9 DEF Proceeds, IsolationInv, OneBrowser
  <2>10. CASE Creates(p, f)
    <3>1. \A d \in Browsers : f.request \notin held[d]
      BY <2>10 DEF Creates, Creation, IsolationInv, KnownInv, PagesKnown
    <3>2. \A q \in Calls : call[q].request # f.request
      BY <1>0, <2>10 DEF Creates, Creation, IsolationInv, KnownInv, CallsKnown
    <3>3. QED
      BY <2>4, <2>10, <3>1, <3>2 DEF Creates
  <2>11. CASE Approves(p, f)
    BY <2>3, <2>11, CallsDisjoint DEF Approves
  <2>12. QED
    BY <1>2, <2>5, <2>7, <2>8, <2>9, <2>10, <2>11 DEF Moves, Idle, Asks
<1>3. CASE UNCHANGED call /\ PagesKept
  BY <1>3 DEF PagesKept, IsolationInv, OneBrowser
<1>4. QED
  BY <1>1, <1>2, <1>3, PagesStep, CallStep

\* An opened session keeps its request.
LEMMA SessionsForward ==
  ASSUME TypeInv, [Next]_vars, NEW s \in Sessions, session[s].status # "UNUSED"
  PROVE  session'[s].status # "UNUSED" /\ session'[s].request = session[s].request
<1>1. ASSUME NEW c \in Calls, CompleteCommit(c)
      PROVE  session'[s].status # "UNUSED" /\ session'[s].request = session[s].request
  BY <1>1, CompleteOpens DEF Opening, SessionKept
<1>2. CASE \A t \in Sessions : SessionKept(t)
  BY <1>2 DEF SessionKept
<1>3. QED
  BY <1>1, <1>2, SessionStep

\* What pages know they keep.
LEMMA PagesForward ==
  ASSUME TypeInv, [Next]_vars, NEW b \in Browsers
  PROVE  held[b] \subseteq held'[b]
<1>1. CASE PagesKept
  BY <1>1 DEF PagesKept
<1>2. ASSUME NEW c \in Calls, StartReply(c)
      PROVE  held[b] \subseteq held'[b]
  <2>1. /\ call[c].browser \in Browsers
        /\ held' = [held EXCEPT ![call[c].browser] =
                     held[call[c].browser] \union {call[c].request}]
    BY <1>2, StartReplyEffect
  <2>2. held \in [Browsers -> SUBSET Requests]
    BY DEF TypeInv, TypeOK
  <2>3. QED
    BY <2>1, <2>2
<1>3. QED
  BY <1>1, <1>2, PagesStep

\* The session cookie comes from the answer of a completion.
LEMMA SessionCookieStep ==
  ASSUME TypeInv, [Next]_vars, NEW b \in Browsers
  PROVE  \/ jar'[b].session \in {jar[b].session, None}
         \/ \E c \in Calls : /\ CompleteReply(c) /\ call[c].browser = b
                            /\ jar'[b].session = call[c].session
<1> USE DEF history
<1>0. jar \in [Browsers -> Jar]
  BY DEF TypeInv, TypeOK
<1>1. CASE UNCHANGED jar
  BY <1>1
<1>2. ASSUME NEW c \in Calls, CompleteReply(c)
      PROVE  \/ jar'[b].session \in {jar[b].session, None}
             \/ call[c].browser = b /\ jar'[b].session = call[c].session
  BY <1>0, <1>2 DEF CompleteReply
<1>3. ASSUME NEW c \in Calls, CancelReply(c) \/ LogoutReply(c) \/ StartReply(c)
      PROVE  jar'[b].session \in {jar[b].session, None}
  BY <1>0, <1>3 DEF CancelReply, LogoutReply, StartReply, NoCookies, Jar
<1>4. ASSUME NEW d \in Browsers, DropCookies(d)
      PROVE  jar'[b].session \in {jar[b].session, None}
  BY <1>0, <1>4 DEF DropCookies, NoCookies, Jar
<1>5. QED
  BY <1>1, <1>2, <1>3, <1>4
     DEF Next, BrowserCall, BotCall, Start, Restart, Logout, Poll, Complete, Cancel, Create,
         PollExpire, CompleteCommit, CancelCommit, Approve, ApproveAgain, ApproveCommit, ApproveReread,
         Throw, CleanUp, Environment, DeleteRequest, DeleteSession, RequestExpires,
         SessionExpires, Suspend, vars

LEMMA CookiesStep ==
  ASSUME TypeInv, IsolationInv, [Next]_vars
  PROVE  CookiesAreOwn'
<1>0. /\ jar \in [Browsers -> Jar] /\ held \in [Browsers -> SUBSET Requests]
      /\ call \in [Callers -> Call] /\ Calls \subseteq Callers
      /\ \A c \in Calls : call[c].pc \in {"complete", "completeReply"}
           => call[c].browser \in Browsers
      /\ \A c \in Calls : call[c].pc = "completeReply" => call[c].session \in Sessions
  BY DEF TypeInv, TypeOK, Callers, WellFormed
<1>1. ASSUME NEW b \in Browsers, jar'[b].pending # None
      PROVE  jar'[b].pending \in held'[b]
  <2>1. CASE PagesKept
    BY <1>1, <2>1 DEF PagesKept, IsolationInv, CookiesAreOwn
  <2>2. ASSUME NEW c \in Calls, StartReply(c)
        PROVE  jar'[b].pending \in held'[b]
    <3> DEFINE d == call[c].browser
               r == call[c].request
    <3>1. /\ d \in Browsers
          /\ jar' = [jar EXCEPT ![d] = [jar[d] EXCEPT !.pending = r]]
          /\ held' = [held EXCEPT ![d] = held[d] \union {r}]
      BY <2>2, StartReplyEffect
    <3>2. [jar[d] EXCEPT !.pending = r].pending = r
      BY <1>0, <3>1 DEF Jar
    <3> HIDE DEF d, r
    <3>3. CASE b = d
      BY <1>0, <3>1, <3>2, <3>3
    <3>4. CASE b # d
      BY <1>0, <1>1, <3>1, <3>4 DEF IsolationInv, CookiesAreOwn
    <3>5. QED
      BY <3>3, <3>4
  <2>3. QED
    BY <2>1, <2>2, PagesStep
<1>2. ASSUME NEW b \in Browsers, jar'[b].session # None
      PROVE  /\ session'[jar'[b].session].status # "UNUSED"
             /\ session'[jar'[b].session].request \in held'[b]
  <2>1. PICK s \in Sessions : /\ jar'[b].session = s
                              /\ session[s].status # "UNUSED"
                              /\ session[s].request \in held[b]
    <3>1. CASE jar'[b].session = jar[b].session
      BY <1>0, <1>2, <3>1 DEF Jar, IsolationInv, CookiesAreOwn
    <3>2. ASSUME NEW c \in Calls, CompleteReply(c), call[c].browser = b,
                 jar'[b].session = call[c].session
          PROVE  \E s \in Sessions : /\ jar'[b].session = s
                                    /\ session[s].status # "UNUSED"
                                    /\ session[s].request \in held[b]
      BY <1>0, <3>2 DEF CompleteReply, At, IsolationInv, CookiesAreOwn
    <3>3. QED
      BY <1>2, <3>1, <3>2, SessionCookieStep
  <2>2. QED
    BY <2>1, SessionsForward, PagesForward
<1>3. ASSUME NEW c \in Calls, call'[c].pc \in {"complete", "completeReply"}
      PROVE  /\ call'[c].request \in held'[call'[c].browser]
             /\ call'[c].pc = "completeReply" =>
                  /\ session'[call'[c].session].status # "UNUSED"
                  /\ session'[call'[c].session].request = call'[c].request
  <2>1. CASE call'[c] = call[c]
    BY <1>0, <1>3, <2>1, SessionsForward, PagesForward DEF At, IsolationInv, CookiesAreOwn
  <2>2. CASE call'[c] # call[c]
    <3>1. Moves(c, call'[c])
      <4>1. ASSUME NEW p \in Callers, NEW f, Begin(p, f), Moves(p, f)
            PROVE  c = p /\ f = call'[c]
        BY <1>0, <2>2, <4>1 DEF Begin
      <4>2. QED
        BY <2>2, <4>1, CallStep
    <3>2. CASE Uses(c, call'[c])
      BY <1>3, <3>2, PagesForward DEF Uses
    <3>3. CASE Proceeds(c, call'[c])
      <4>1. CompleteCommit(c)
        BY <1>3, <3>3 DEF Proceeds
      <4>2. PICK s \in Sessions : Opening(c, s)
        BY <4>1, CompleteOpens
      <4>3. call[c].request \in held[call[c].browser] /\ call[c].browser \in Browsers
        BY <1>0, <4>1 DEF CompleteCommit, At, IsolationInv, CookiesAreOwn
      <4>4. /\ call'[c].request = call[c].request /\ call'[c].browser = call[c].browser
            /\ call'[c].session = s
        BY <1>0, <4>2 DEF Opening, Call
      <4>5. session'[s].status # "UNUSED" /\ session'[s].request = call[c].request
        BY <4>2 DEF Opening
      <4>6. QED
        BY <4>3, <4>4, <4>5, PagesForward
    <3>4. QED
      BY <1>3, <3>1, <3>2, <3>3
         DEF Moves, Idle, Asks, Resumes, Creates, Approves
  <2>3. QED
    BY <2>1, <2>2
<1>4. QED
  BY <1>1, <1>2, <1>3 DEF CookiesAreOwn, At

\* However the calls of several browsers interleave, none learns the device secret
\* of another's request, or receives a session that its own did not open.
THEOREM BrowsersStayIsolated == Spec => []BrowsersAreIsolated
<1>1. Init => TypeInv /\ IsolationInv
  BY TypeInit, NoneIsNoValue
     DEF Init, IsolationInv, KnownInv, PagesKnown, CallsKnown, OneBrowser, CookiesAreOwn,
         NoCookies, Idle, At, Callers
<1>2. TypeInv /\ IsolationInv /\ [Next]_vars => (TypeInv /\ IsolationInv)'
  BY TypeStep, KnownStep, OneBrowserStep, CookiesStep DEF IsolationInv
<1>3. TypeInv /\ IsolationInv => BrowsersAreIsolated
  BY DEF IsolationInv, OneBrowser, CookiesAreOwn, BrowsersAreIsolated
<1>4. QED
  BY <1>1, <1>2, <1>3, PTL DEF Spec

-----------------------------------------------------------------------------
(* The device login implements WebLogin.                                   *)

OpenStatuses == {"UNUSED", "PENDING", "APPROVED"}

Approvers == [r \in Requests |-> request[r].uid]
Opens == [r \in Requests |-> request[r].status \in OpenStatuses]
Openings == [s \in Sessions |-> IF session[s].status = "UNUSED" THEN None
                                ELSE <<session[s].request, session[s].uid>>]

LEMMA OpeningsKept ==
  ASSUME \A s \in Sessions : SessionKept(s)
  PROVE  Openings' = Openings
BY DEF SessionKept, Openings

\* One row changes: so do its approver and whether it is open, and no other's.
LEMMA RowChange ==
  ASSUME request \in [Requests -> LoginRequest], NEW r \in Requests, NEW new,
         RowBecomes(r, new)
  PROVE  /\ Approvers' = [Approvers EXCEPT ![r] = new.uid]
         /\ Opens' = [Opens EXCEPT ![r] = (new.status \in OpenStatuses)]
BY DEF RowBecomes, Approvers, Opens

LEMMA SameEntry ==
  /\ \A r \in Requests : Approvers = [Approvers EXCEPT ![r] = request[r].uid]
  /\ \A r \in Requests : Opens = [Opens EXCEPT ![r] = (request[r].status \in OpenStatuses)]
BY DEF Approvers, Opens

LEMMA SeenAs ==
  /\ Login!vars = <<Approvers, Opens, Openings>>
  /\ \A r, u : Login!Approve(r, u) <=>
       /\ Opens[r] /\ Approvers[r] = None
       /\ Approvers' = [Approvers EXCEPT ![r] = u]
       /\ Opens' = Opens /\ Openings' = Openings
  /\ \A r, s : Login!Complete(r, s) <=>
       /\ Opens[r] /\ Approvers[r] # None
       /\ Openings[s] = None
       /\ Openings' = [Openings EXCEPT ![s] = <<r, Approvers[r]>>]
       /\ Opens' = [Opens EXCEPT ![r] = FALSE]
       /\ Approvers' = Approvers
  /\ \A r : Login!Abandon(r) <=>
       /\ Opens[r]
       /\ Opens' = [Opens EXCEPT ![r] = FALSE]
       /\ Approvers' = Approvers /\ Openings' = Openings
BY DEF Login!vars, Login!Approve, Login!Complete, Login!Abandon, Approvers, Opens, Openings,
   OpenStatuses

LEMMA RequestRefines ==
  ASSUME TypeInv, RequestEffect, UNCHANGED Openings
  PROVE  [Login!Next]_(Login!vars)
<1>0. request \in [Requests -> LoginRequest]
  BY DEF TypeInv, TypeOK
<1>1. ASSUME UNCHANGED <<Approvers, Opens>>
      PROVE  UNCHANGED Login!vars
  BY <1>1 DEF Login!vars, Approvers, Opens, Openings, OpenStatuses
<1>2. CASE UNCHANGED request
  BY <1>1, <1>2 DEF Approvers, Opens
<1>3. ASSUME NEW r \in Requests, Creation(r) \/ Deletion(r) \/ Expiry(r)
      PROVE  UNCHANGED Login!vars
  <2>1. PICK new : /\ RowBecomes(r, new) /\ new.uid = request[r].uid
                   /\ new.status \in OpenStatuses <=> request[r].status \in OpenStatuses
    BY <1>0, <1>3 DEF Creation, Deletion, Expiry, Ended, LoginRequest, OpenStatuses
  <2>2. /\ Approvers' = [Approvers EXCEPT ![r] = request[r].uid]
        /\ Opens' = [Opens EXCEPT ![r] = (request[r].status \in OpenStatuses)]
    BY <1>0, <2>1, RowChange
  <2>3. QED
    BY <1>1, <2>2, SameEntry
<1>4. ASSUME NEW r \in Requests, Ending(r, "CANCELLED") \/ Ending(r, "EXPIRED")
      PROVE  Login!Abandon(r)
  <2>1. PICK new : /\ RowBecomes(r, new) /\ new.uid = request[r].uid
                   /\ new.status \notin OpenStatuses
    BY <1>0, <1>4 DEF Ending, LoginRequest, OpenStatuses
  <2>2. Opens[r]
    BY <1>4 DEF Ending, Unfinished, Opens, OpenStatuses
  <2>3. /\ Approvers' = [Approvers EXCEPT ![r] = new.uid]
        /\ Opens' = [Opens EXCEPT ![r] = (new.status \in OpenStatuses)]
    BY <1>0, <2>1, RowChange
  <2>4. (new.status \in OpenStatuses) = FALSE
    BY <2>1
  <2>5. Opens' = [Opens EXCEPT ![r] = FALSE]
    BY <2>3, <2>4, Zenon
  <2>6. QED
    BY <2>1, <2>2, <2>3, <2>5, SameEntry, SeenAs
<1>5. ASSUME NEW r \in Requests, NEW u \in Uids, Approval(r, u)
      PROVE  Login!Approve(r, u)
  <2>1. PICK new : /\ RowBecomes(r, new) /\ new.uid = u
                   /\ new.status \in OpenStatuses
    <3> DEFINE row == [request[r] EXCEPT !.status = "APPROVED", !.uid = u]
    <3>1. row.uid = u /\ row.status = "APPROVED"
      BY <1>0 DEF LoginRequest
    <3>2. RowBecomes(r, row)
      BY <1>5 DEF Approval
    <3> HIDE DEF row
    <3>3. QED
      BY <3>1, <3>2 DEF OpenStatuses
  <2>2. request[r].status \in OpenStatuses /\ Opens[r] /\ Approvers[r] = None
    BY <1>5 DEF Approval, Opens, OpenStatuses, Approvers, TypeInv, RowsWellFormed
  <2>3. /\ Approvers' = [Approvers EXCEPT ![r] = u]
        /\ Opens' = [Opens EXCEPT ![r] = (request[r].status \in OpenStatuses)]
    BY <1>0, <2>1, <2>2, RowChange
  <2>4. QED
    BY <2>2, <2>3, SameEntry, SeenAs
<1>6. QED
  BY <1>2, <1>3, <1>4, <1>5 DEF RequestEffect, Marking, Login!Next

LEMMA CompleteRefines ==
  ASSUME TypeInv, NEW c \in Calls, CompleteCommit(c)
  PROVE  Login!Next
<1>0. request \in [Requests -> LoginRequest]
  BY DEF TypeInv, TypeOK
<1>1. PICK s \in Sessions : Opening(c, s)
  BY CompleteOpens
<1>2. PICK r \in Requests :
        /\ r = call[c].request /\ call[c].uid \in Uids
        /\ request[r].status = "APPROVED" /\ request[r].uid = call[c].uid
        /\ RowBecomes(r, [request[r] EXCEPT !.status = "CONSUMED"])
  BY CompleteConsumes
<1>3. PICK new : /\ RowBecomes(r, new) /\ new.uid = request[r].uid
                 /\ new.status \notin OpenStatuses
  BY <1>0, <1>2 DEF LoginRequest, OpenStatuses
<1>4. /\ Approvers' = [Approvers EXCEPT ![r] = request[r].uid]
      /\ Opens' = [Opens EXCEPT ![r] = FALSE]
  <2>1. /\ Approvers' = [Approvers EXCEPT ![r] = new.uid]
        /\ Opens' = [Opens EXCEPT ![r] = (new.status \in OpenStatuses)]
    BY <1>0, <1>3, RowChange
  <2>2. (new.status \in OpenStatuses) = FALSE
    BY <1>3
  <2>3. Opens' = [Opens EXCEPT ![r] = FALSE]
    BY <2>1, <2>2, Zenon
  <2>4. QED
    BY <1>3, <2>1, <2>3
<1>5. Opens[r] /\ Approvers[r] = call[c].uid /\ Approvers[r] # None
  BY <1>2, NoneIsNoValue DEF Opens, OpenStatuses, Approvers
<1>6. Openings[s] = None /\ Openings' = [Openings EXCEPT ![s] = <<r, call[c].uid>>]
  <2>1. /\ session[s].status = "UNUSED"
        /\ session'[s].status # "UNUSED"
        /\ session'[s].request = r /\ session'[s].uid = call[c].uid
    BY <1>1, <1>2 DEF Opening
  <2>2. \A t \in Sessions \ {s} : SessionKept(t)
    BY <1>1 DEF Opening
  <2>3. QED
    BY <2>1, <2>2 DEF SessionKept, Openings
<1>7. Login!Complete(r, s)
  BY <1>4, <1>5, <1>6, SameEntry, SeenAs
<1>8. QED
  BY <1>7 DEF Login!Next

\* The handlers and their interleavings do nothing that README.md:9 does not let a
\* login do: one player approves a request, it then opens one session of that
\* player, and none once it was cancelled or has expired.
THEOREM DeviceLoginImplementsWebLogin == Spec => ImplementsWebLogin
<1>1. Init => Login!Init
  <2> SUFFICES ASSUME Init
               PROVE  Login!Init
    OBVIOUS
  <2>1. \A r \in Requests :
          request[r].uid = None /\ (request[r].status \in OpenStatuses) = TRUE
    BY DEF Init, OpenStatuses
  <2>2. Approvers = [r \in Requests |-> None] /\ Opens = [r \in Requests |-> TRUE]
    BY <2>1, Zenon DEF Approvers, Opens
  <2>3. Openings = [s \in Sessions |-> None]
    BY DEF Init, Openings
  <2>4. QED
    BY <2>2, <2>3 DEF Login!Init, Approvers, Opens, Openings, OpenStatuses
<1>2. TypeInv /\ [Next]_vars => [Login!Next]_(Login!vars)
  BY RequestStep, SessionStep, OpeningsKept, RequestRefines, CompleteRefines
<1>3. Spec => []TypeInv
  BY TypeInit, TypeStep, PTL DEF Spec
<1>4. QED
  BY <1>1, <1>2, <1>3, PTL DEF Spec, ImplementsWebLogin, Login!Spec

-----------------------------------------------------------------------------
(* The device login implements LoginRequests.                              *)

StatusOf == [r \in Requests |-> request[r].status]
OverOf == [r \in Requests |-> request[r].expired]
Alive == {session[s].request : s \in LiveSessions}

LEMMA LifeSeenAs ==
  /\ Life!vars = <<StatusOf, OverOf, Alive>>
  /\ \A r, from, to : Life!Moves(r, from, to) <=>
       StatusOf[r] \in from /\ StatusOf' = [StatusOf EXCEPT ![r] = to] /\ OverOf' = OverOf
  /\ \A r : OverOf[r] /\ Life!Moves(r, {"PENDING", "APPROVED"}, "EXPIRED") /\ Alive' = Alive
       => Life!Expire(r)
  /\ \A r : Life!TimePasses(r) <=>
       /\ StatusOf[r] # "UNUSED" /\ ~OverOf[r]
       /\ OverOf' = [OverOf EXCEPT ![r] = TRUE]
       /\ StatusOf' = StatusOf /\ Alive' = Alive
  /\ \A r : Life!EndSession(r) <=>
       /\ r \in Alive /\ Alive' = Alive \ {r}
       /\ StatusOf' = StatusOf /\ OverOf' = OverOf
BY DEF Life!vars, Life!Moves, Life!Expire, Life!Unfinished, Life!TimePasses, Life!EndSession,
   StatusOf, OverOf, Alive

\* One row is given another status.
LEMMA StatusMoves ==
  ASSUME request \in [Requests -> LoginRequest], NEW r \in Requests, NEW new,
         RowBecomes(r, new), new.expired = request[r].expired
  PROVE  /\ StatusOf[r] = request[r].status
         /\ StatusOf' = [StatusOf EXCEPT ![r] = new.status]
         /\ OverOf' = OverOf
<1>1. \A q \in Requests : request'[q] = IF q = r THEN new ELSE request[q]
  BY DEF RowBecomes
<1>2. \A q \in Requests : request'[q].expired = request[q].expired
  BY <1>1
<1>3. OverOf' = OverOf
  BY <1>2, Zenon DEF OverOf
<1>4. StatusOf' = [StatusOf EXCEPT ![r] = new.status]
  BY <1>1 DEF StatusOf
<1>5. QED
  BY <1>3, <1>4 DEF StatusOf

LEMMA SameSessions ==
  ASSUME UNCHANGED session
  PROVE  Alive' = Alive
BY DEF Alive, LiveSessions

LEMMA RequestLives ==
  ASSUME TypeInv, CallsFound, RequestEffect, UNCHANGED session
  PROVE  [Life!Next]_(Life!vars)
<1>0. request \in [Requests -> LoginRequest]
  BY DEF TypeInv, TypeOK
<1>1. Alive' = Alive
  BY SameSessions
<1>2. CASE UNCHANGED request
  BY <1>2 DEF Life!vars, LiveSessions
<1>3. ASSUME NEW r \in Requests, Creation(r)
      PROVE  Life!Next
  <2>1. PICK new : /\ RowBecomes(r, new) /\ new.expired = request[r].expired
                   /\ new.status = "PENDING"
    BY <1>0, <1>3 DEF Creation, LoginRequest
  <2>2. Life!Moves(r, {"UNUSED"}, "PENDING")
    BY <1>0, <1>3, <2>1, StatusMoves, LifeSeenAs DEF Creation
  <2>3. Life!Issue(r)
    BY <1>1, <2>2 DEF Life!Issue, Alive
  <2>4. QED
    BY <2>3 DEF Life!Next
<1>4. ASSUME NEW r \in Requests, NEW u \in Uids, Approval(r, u)
      PROVE  Life!Next
  <2>1. PICK new : /\ RowBecomes(r, new) /\ new.expired = request[r].expired
                   /\ new.status = "APPROVED"
    <3> DEFINE row == [request[r] EXCEPT !.status = "APPROVED", !.uid = u]
    <3>1. row.expired = request[r].expired /\ row.status = "APPROVED"
      BY <1>0 DEF LoginRequest
    <3>2. RowBecomes(r, row)
      BY <1>4 DEF Approval
    <3> HIDE DEF row
    <3>3. QED
      BY <3>1, <3>2
  <2>2. Life!Moves(r, {"PENDING"}, "APPROVED")
    BY <1>0, <1>4, <2>1, StatusMoves, LifeSeenAs DEF Approval
  <2>3. Life!Approve(r)
    BY <1>1, <2>2 DEF Life!Approve, Alive
  <2>4. QED
    BY <2>3 DEF Life!Next
<1>5. ASSUME NEW r \in Requests, Ending(r, "CANCELLED")
      PROVE  Life!Next
  <2>1. PICK new : /\ RowBecomes(r, new) /\ new.expired = request[r].expired
                   /\ new.status = "CANCELLED"
    BY <1>0, <1>5 DEF Ending, LoginRequest
  <2>2. Life!Moves(r, {"PENDING", "APPROVED"}, "CANCELLED")
    BY <1>0, <1>5, <2>1, StatusMoves, LifeSeenAs DEF Ending, Unfinished
  <2>3. Life!Cancel(r)
    BY <1>1, <2>2 DEF Life!Cancel, Life!Unfinished, Alive
  <2>4. QED
    BY <2>3 DEF Life!Next
<1>6. ASSUME NEW r \in Requests, NEW c \in Calls, Marking(c, r)
      PROVE  Life!Next
  <2>1. PICK new : /\ RowBecomes(r, new) /\ new.expired = request[r].expired
                   /\ new.status = "EXPIRED"
    BY <1>0, <1>6 DEF Marking, Ending, LoginRequest
  <2>2. Life!Moves(r, {"PENDING", "APPROVED"}, "EXPIRED")
    BY <1>0, <1>6, <2>1, StatusMoves, LifeSeenAs DEF Marking, Ending, Unfinished
  <2>3. request[r].expired
    BY <1>6 DEF Marking, CallsFound, Callers
  <2>4. OverOf[r]
    BY <2>3, Zenon DEF OverOf
  <2>5. Life!Expire(r)
    BY <1>1, <2>2, <2>4, LifeSeenAs
  <2>6. QED
    BY <2>5 DEF Life!Next
<1>7. ASSUME NEW r \in Requests, Deletion(r)
      PROVE  [Life!Next]_(Life!vars)
  <2>1. PICK new : /\ RowBecomes(r, new) /\ new.expired = request[r].expired
                   /\ new.status = "DELETED"
    BY <1>0, <1>7 DEF Deletion, LoginRequest
  <2>2. /\ StatusOf[r] = request[r].status /\ OverOf' = OverOf
        /\ StatusOf' = [StatusOf EXCEPT ![r] = "DELETED"]
    BY <1>0, <2>1, StatusMoves
  <2>3. CASE request[r].status # "DELETED"
    <3>1. Life!Moves(r, {"CONSUMED", "CANCELLED", "EXPIRED"}, "DELETED")
      BY <1>7, <2>2, <2>3, LifeSeenAs DEF Deletion, Ended
    <3>2. Life!Delete(r)
      BY <1>1, <3>1 DEF Life!Delete, Alive
    <3>3. QED
      BY <3>2 DEF Life!Next
  <2>4. CASE request[r].status = "DELETED"
    <3>1. StatusOf' = StatusOf
      BY <2>2, <2>4 DEF StatusOf
    <3>2. QED
      BY <1>1, <2>2, <3>1 DEF Life!vars, StatusOf, OverOf, Alive
  <2>5. QED
    BY <2>3, <2>4
<1>8. ASSUME NEW r \in Requests, Expiry(r)
      PROVE  Life!Next
  <2>1. \A q \in Requests :
          /\ request'[q].status = request[q].status
          /\ q = r => request'[q].expired = TRUE
          /\ q # r => request'[q].expired = request[q].expired
    BY <1>0, <1>8 DEF Expiry, RowBecomes, LoginRequest
  <2>2. OverOf' = [OverOf EXCEPT ![r] = TRUE]
    BY <2>1, Zenon DEF OverOf
  <2>3. StatusOf' = StatusOf
    BY <2>1 DEF StatusOf
  <2>4. ~OverOf[r] /\ StatusOf[r] # "UNUSED"
    BY <1>8, Zenon DEF OverOf, StatusOf, Expiry
  <2>5. Life!TimePasses(r)
    BY <1>1, <2>2, <2>3, <2>4, LifeSeenAs
  <2>6. QED
    BY <2>5 DEF Life!Next
<1>9. QED
  BY <1>2, <1>3, <1>4, <1>5, <1>6, <1>7, <1>8 DEF RequestEffect

\* But for the completion, at most one live session ends in a step, and then no
\* request changes.
Ends(s) ==
  /\ UNCHANGED request
  /\ LiveSessions' = LiveSessions \ {s}
  /\ \A t \in Sessions : SessionKept(t)

LEMMA RevokedLives ==
  ASSUME TypeInv, NEW s \in Sessions, session' = Revoked(s)
  PROVE  LiveSessions' = LiveSessions \ {s}
BY DEF TypeInv, TypeOK, WebSession, Revoked, LiveSessions

LEMMA SessionEnds ==
  ASSUME TypeInv, [Next]_vars
  PROVE  \/ UNCHANGED session
         \/ \E s \in Sessions : Ends(s)
         \/ \E c \in Calls : CompleteCommit(c)
<1> USE DEF history
<1>1. ASSUME NEW c \in Calls, NEW b \in Browsers, Logout(c, b)
      PROVE  UNCHANGED session \/ \E s \in Sessions : Ends(s)
  <2>1. jar[b].session \in Sessions \union {None}
    BY DEF TypeInv, TypeOK, Jar
  <2>2. CASE jar[b].session = None
    BY <1>1, <2>2 DEF Logout
  <2>3. CASE jar[b].session # None
    <3>1. /\ jar[b].session \in Sessions
          /\ session' = Revoked(jar[b].session) /\ UNCHANGED request
      BY <1>1, <2>1, <2>3 DEF Logout
    <3>2. QED
      BY <3>1, RevokedLives, RevokedKeeps DEF Ends, SessionKept
  <2>4. QED
    BY <2>2, <2>3
<1>2. ASSUME NEW s \in Sessions, DeleteSession(s) \/ SessionExpires(s)
      PROVE  Ends(s)
  <2>1. UNCHANGED request /\ LiveSessions' = LiveSessions \ {s}
    BY <1>2 DEF DeleteSession, SessionExpires, LiveSessions, TypeInv, TypeOK, WebSession
  <2>2. \A t \in Sessions : SessionKept(t)
    BY <1>2 DEF DeleteSession, SessionExpires, SessionKept, TypeInv, TypeOK, WebSession
  <2>3. QED
    BY <2>1, <2>2 DEF Ends
<1>3. QED
  BY <1>1, <1>2
     DEF Next, BrowserCall, BotCall, Start, Restart, Poll, Complete, Cancel, Create,
         StartReply, PollExpire, CompleteReply, CancelCommit, CancelReply, LogoutReply,
         Approve, ApproveAgain, ApproveCommit, ApproveReread, Throw, CleanUp, Environment,
         DeleteRequest, RequestExpires, Suspend, DropCookies, vars

\* The sessions in use have different requests.
LEMMA AliveRequests ==
  ASSUME TypeInv, SessionInv
  PROVE  /\ \A s \in LiveSessions : session[s].request \in Requests
         /\ \A s \in LiveSessions, t \in Sessions :
              session[t].request = session[s].request => t = s
         /\ Alive \subseteq Requests
<1>1. \A s \in LiveSessions : session[s].request \in Requests
  BY DEF TypeInv, TypeOK, WebSession, SessionInv, SessionsAreApproved, LiveSessions
<1>2. QED
  BY <1>1 DEF SessionInv, SessionsAreApproved, LiveSessions, Alive

LEMMA AliveWithout ==
  ASSUME TypeInv, SessionInv, NEW s \in LiveSessions
  PROVE  {session[t].request : t \in LiveSessions \ {s}} = Alive \ {session[s].request}
<1>1. \A t \in LiveSessions : session[t].request = session[s].request => t = s
  BY AliveRequests DEF LiveSessions
<1>2. QED
  BY <1>1 DEF Alive

LEMMA EndingLives ==
  ASSUME TypeInv, SessionInv, NEW s \in Sessions, Ends(s)
  PROVE  [Life!Next]_(Life!vars)
<1>1. StatusOf' = StatusOf /\ OverOf' = OverOf
  BY DEF Ends, StatusOf, OverOf
<1>2. Alive' = {session[t].request : t \in LiveSessions \ {s}}
  BY DEF Ends, Alive, SessionKept, LiveSessions
<1>3. CASE s \in LiveSessions
  <2>1. PICK r \in Requests : r = session[s].request
    BY <1>3, AliveRequests
  <2>2. r \in Alive /\ Alive' = Alive \ {r}
    BY <1>2, <1>3, <2>1, AliveWithout DEF Alive
  <2>3. Life!EndSession(r)
    BY <1>1, <2>2, LifeSeenAs
  <2>4. QED
    BY <2>3 DEF Life!Next
<1>4. CASE s \notin LiveSessions
  <2>1. Alive' = Alive
    BY <1>2, <1>4 DEF Alive
  <2>2. QED
    BY <1>1, <2>1 DEF Life!vars, StatusOf, OverOf, Alive
<1>5. QED
  BY <1>3, <1>4

\* The session a completion opens takes the place of the browser's.
LEMMA CompleteReplaces ==
  ASSUME TypeInv, NEW c \in Calls, CompleteCommit(c)
  PROVE  \E s \in Sessions :
           /\ session[s].status = "UNUSED" /\ session'[s].request = call[c].request
           /\ \A t \in Sessions \ {s} : SessionKept(t)
           /\ LiveSessions' = (LiveSessions \ {call[c].session}) \union {s}
<1>1. PICK s \in Sessions : session[s].status = "UNUSED" /\ OpenSession(c, s)
  BY DEF CompleteCommit
<1>2. /\ call[c].session \in Sessions \union {None}
      /\ session \in [Sessions -> WebSession]
  BY DEF TypeInv, TypeOK, Call, Callers
<1> DEFINE opened == [status |-> "LIVE", uid |-> call[c].uid, request |-> call[c].request]
<1>3. opened.status = "LIVE" /\ opened.request = call[c].request
  OBVIOUS
<1>4. CASE call[c].session = None
  <2>1. session' = [session EXCEPT ![s] = opened]
    BY <1>1, <1>4 DEF OpenSession
  <2> HIDE DEF opened
  <2>2. /\ session'[s].status = "LIVE" /\ session'[s].request = call[c].request
        /\ \A t \in Sessions \ {s} : session'[t] = session[t]
    BY <1>2, <1>3, <2>1
  <2>3. LiveSessions' = (LiveSessions \ {call[c].session}) \union {s}
    BY <1>4, <2>2, NoneIsNoValue DEF LiveSessions
  <2>4. QED
    BY <1>1, <2>2, <2>3 DEF SessionKept
<1>5. CASE call[c].session # None
  <2>1. /\ Revoked(call[c].session) \in [Sessions -> WebSession]
        /\ call[c].session \in Sessions
    BY <1>2, <1>5, RevokedTyped
  <2>2. session' = [Revoked(call[c].session) EXCEPT ![s] = opened]
    BY <1>1, <1>5 DEF OpenSession
  <2> HIDE DEF opened
  <2>3. /\ session'[s].status = "LIVE" /\ session'[s].request = call[c].request
        /\ \A t \in Sessions \ {s} : session'[t] = Revoked(call[c].session)[t]
    BY <1>2, <1>3, <2>1, <2>2
  <2>4. \A t \in Sessions \ {s} : SessionKept(t)
    BY <2>1, <2>3, RevokedKeeps DEF SessionKept
  <2>5. \A t \in Sessions : Revoked(call[c].session)[t].status = "LIVE" <=>
          t \in LiveSessions \ {call[c].session}
    BY <1>2, <2>1 DEF Revoked, WebSession, LiveSessions
  <2>6. LiveSessions' = (LiveSessions \ {call[c].session}) \union {s}
    BY <1>1, <2>3, <2>5 DEF LiveSessions
  <2>7. QED
    BY <1>1, <2>3, <2>4, <2>6
<1>6. QED
  BY <1>4, <1>5

LEMMA CompleteLives ==
  ASSUME TypeInv, SessionInv, NEW c \in Calls, CompleteCommit(c)
  PROVE  Life!Next
<1>0. request \in [Requests -> LoginRequest]
  BY DEF TypeInv, TypeOK
<1>1. PICK r \in Requests :
        /\ r = call[c].request /\ request[r].status = "APPROVED"
        /\ RowBecomes(r, [request[r] EXCEPT !.status = "CONSUMED"])
  BY CompleteConsumes
<1>2. PICK new : /\ RowBecomes(r, new) /\ new.expired = request[r].expired
                 /\ new.status = "CONSUMED"
  BY <1>0, <1>1 DEF LoginRequest
<1>3. Life!Moves(r, {"APPROVED"}, "CONSUMED")
  BY <1>0, <1>1, <1>2, StatusMoves, LifeSeenAs
<1>4. PICK s \in Sessions :
        /\ session[s].status = "UNUSED" /\ session'[s].request = r
        /\ \A t \in Sessions \ {s} : SessionKept(t)
        /\ LiveSessions' = (LiveSessions \ {call[c].session}) \union {s}
  BY <1>1, CompleteReplaces
<1>5. Alive' = {session[t].request : t \in LiveSessions \ {call[c].session}} \union {r}
  <2>1. \A t \in LiveSessions : t \in Sessions \ {s} /\ session'[t].request = session[t].request
    BY <1>4 DEF LiveSessions, SessionKept
  <2>2. QED
    BY <1>4, <2>1 DEF Alive
<1>6. \E old \in Requests \union {None} : Alive' = (Alive \ {old}) \union {r}
  <2>1. CASE call[c].session \in LiveSessions
    <3>1. {session[t].request : t \in LiveSessions \ {call[c].session}}
            = Alive \ {session[call[c].session].request}
      BY <2>1, AliveWithout
    <3>2. QED
      BY <1>5, <2>1, <3>1, AliveRequests
  <2>2. CASE call[c].session \notin LiveSessions
    <3>1. Alive' = Alive \union {r}
      BY <1>5, <2>2 DEF Alive
    <3>2. Alive \ {None} = Alive
      BY AliveRequests, NoneIsNoValue
    <3>3. QED
      BY <3>1, <3>2
  <2>3. QED
    BY <2>1, <2>2
<1>7. Life!Complete(r)
  BY <1>3, <1>6 DEF Life!Complete, Alive
<1>8. QED
  BY <1>7 DEF Life!Next

\* Whatever runs between the statements of the handlers, requests and sessions change
\* as LoginRequests says, on which the model of the login page relies.
THEOREM HandlersUseLoginRequests == Spec => ImplementsLoginRequests
<1>1. Init => Life!Init
  <2> SUFFICES ASSUME Init
               PROVE  Life!Init
    OBVIOUS
  <2>1. \A r \in Requests : request[r].status = "UNUSED" /\ request[r].expired = FALSE
    BY DEF Init
  <2>2. StatusOf = [r \in Requests |-> "UNUSED"] /\ OverOf = [r \in Requests |-> FALSE]
    BY <2>1, Zenon DEF StatusOf, OverOf
  <2>3. Alive = {}
    BY DEF Init, Alive, LiveSessions
  <2>4. QED
    BY <2>2, <2>3 DEF Life!Init, StatusOf, OverOf, Alive
<1>2. TypeInv /\ SessionInv /\ CallsFound /\ [Next]_vars => [Life!Next]_(Life!vars)
  BY RequestStep, SessionEnds, RequestLives, EndingLives, CompleteLives
<1>3. Init => TypeInv /\ KnownInv /\ CallsFound
  BY TypeInit, NoneIsNoValue
     DEF Init, KnownInv, PagesKnown, CallsKnown, CallsFound, NoCookies, Idle, At, Callers
<1>4. TypeInv /\ KnownInv /\ CallsFound /\ [Next]_vars => (TypeInv /\ KnownInv /\ CallsFound)'
  BY TypeStep, KnownStep, FoundStep
<1>5. QED
  BY <1>1, <1>2, <1>3, <1>4, SessionInvariant, PTL DEF Spec, ImplementsLoginRequests, Life!Spec
=============================================================================
