----------------------------- MODULE DeviceLogin -----------------------------
(***************************************************************************)
(* The device login of apps/api: the handlers of auth.service.ts and       *)
(* auth.controller.ts, the login requests, web accounts and sessions they  *)
(* keep, and the two cookies a browser sends and receives.                 *)
(*                                                                         *)
(* A call reads the cookies of its browser when it starts and changes them *)
(* when its answer arrives; in between, calls of other tabs and of the bot *)
(* run.  Each awaited statement is one action, a transaction that commits  *)
(* is one action, and a call the code refuses is not a step.               *)
(***************************************************************************)
CONSTANTS
  Requests,   \* ids of login requests, each used once
  Sessions,   \* session tokens, each used once
  Uids,       \* players of the game
  Browsers,   \* browsers, each with a cookie jar of its own
  Calls,      \* calls from browsers in progress at the same time
  Approvals,  \* calls POST /internal/auth/device/approve from the bot
  None        \* SQL NULL, or no cookie

ASSUME CallsDisjoint == Calls \intersect Approvals = {}
ASSUME NoneIsNoValue == None \notin Requests \union Sessions \union Uids \union Browsers

VARIABLES
  request,    \* the web_login_requests table; what a deleted row held is kept here
  session,    \* the web_sessions table
  account,    \* the web_accounts table
  jar,        \* the cookies of each browser
  held,       \* the requests whose device secret pages of each browser know
  call,       \* what each call in progress has read and where it stands
  approvedBy, \* history: <<r, u>> when the bot was told that u has approved r
  dismissed   \* history: the requests a browser gave up or was told are over

vars == <<request, session, account, jar, held, call, approvedBy, dismissed>>
history == <<approvedBy, dismissed>>

RequestStatuses ==
  {"UNUSED", "PENDING", "APPROVED", "CONSUMED", "CANCELLED", "EXPIRED", "DELETED"}
SessionStatuses == {"UNUSED", "LIVE", "REVOKED", "EXPIRED", "DELETED"}
AccountStatuses == {"NONE", "ACTIVE", "SUSPENDED"}

Steps == {"idle", "create", "startReply", "expire", "cancel", "cancelReply",
          "complete", "completeReply", "logoutReply", "approve", "approveReread"}

LoginRequest == [status : RequestStatuses, uid : Uids \union {None}, expired : BOOLEAN]

WebSession == [status : SessionStatuses, uid : Uids \union {None},
               request : Requests \union {None}]

Jar == [pending : Requests \union {None}, session : Sessions \union {None}]

Call == [pc : Steps, browser : Browsers \union {None}, request : Requests \union {None},
         uid : Uids \union {None}, session : Sessions \union {None},
         seen : RequestStatuses \union {None}]

Idle == [pc |-> "idle", browser |-> None, request |-> None, uid |-> None,
         session |-> None, seen |-> None]

NoCookies == [pending |-> None, session |-> None]

Init ==
  /\ request = [r \in Requests |-> [status |-> "UNUSED", uid |-> None, expired |-> FALSE]]
  /\ session = [s \in Sessions |-> [status |-> "UNUSED", uid |-> None, request |-> None]]
  /\ account = [u \in Uids |-> "NONE"]
  /\ jar = [b \in Browsers |-> NoCookies]
  /\ held = [b \in Browsers |-> {}]
  /\ call = [p \in Calls \union Approvals |-> Idle]
  /\ approvedBy = {}
  /\ dismissed = {}

-----------------------------------------------------------------------------
(* Vocabulary.                                                             *)

Unfinished(r) == request[r].status \in {"PENDING", "APPROVED"}

At(p, step) == call[p].pc = step

Begin(p, fields) == call' = [call EXCEPT ![p] = fields]
Continue(p, step) == call' = [call EXCEPT ![p].pc = step]
End(p) == call' = [call EXCEPT ![p] = Idle]

SetStatus(r, status) == request' = [request EXCEPT ![r].status = status]

\* updateMany where id = r and status is in from.
UpdateWhere(r, from, status) ==
  request' = [request EXCEPT ![r].status = IF @ \in from THEN status ELSE @]

\* updateMany where sessionHash is that of s and revokedAt is null.
Revoked(s) == [session EXCEPT ![s].status = IF @ = "LIVE" THEN "REVOKED" ELSE @]

-----------------------------------------------------------------------------
(* start, restart, createPendingRequest.                                   *)

\* Faulty: start resumes any request still open, not the one of the cookie.
ResumeAnyRequest(c, b) ==
  /\ At(c, "idle")
  /\ \/ \E r \in Requests :
          /\ Unfinished(r) /\ ~request[r].expired
          /\ Begin(c, [Idle EXCEPT !.pc = "startReply", !.browser = b, !.request = r])
     \/ /\ jar[b].pending = None
        /\ Begin(c, [Idle EXCEPT !.pc = "create", !.browser = b])
  /\ UNCHANGED <<request, session, account, jar, held, history>>

\* start resumes the request of the pending cookie if it can still be completed.
Start(c, b) ==
  LET r == jar[b].pending
  IN  /\ At(c, "idle")
      /\ \/ /\ r # None /\ Unfinished(r) /\ ~request[r].expired
            /\ Begin(c, [Idle EXCEPT !.pc = "startReply", !.browser = b, !.request = r])
         \/ /\ r # None => ~Unfinished(r) \/ request[r].expired
            /\ Begin(c, [Idle EXCEPT !.pc = "create", !.browser = b])
      /\ UNCHANGED <<request, session, account, jar, held, history>>

\* restart cancels the request of the pending cookie, expired or not, before it
\* makes another one.
Restart(c, b) ==
  LET r == jar[b].pending
  IN  /\ At(c, "idle")
      /\ Begin(c, [Idle EXCEPT !.pc = "create", !.browser = b])
      /\ \/ /\ r # None
            /\ UpdateWhere(r, {"PENDING", "APPROVED"}, "CANCELLED")
            /\ dismissed' = dismissed \union {r}
         \/ /\ r = None
            /\ UNCHANGED <<request, dismissed>>
      /\ UNCHANGED <<session, account, jar, held, approvedBy>>

Create(c) ==
  /\ At(c, "create")
  /\ \E r \in Requests :
       /\ request[r].status = "UNUSED"
       /\ SetStatus(r, "PENDING")
       /\ Begin(c, [call[c] EXCEPT !.pc = "startReply", !.request = r])
  /\ UNCHANGED <<session, account, jar, held, history>>

StartReply(c) ==
  LET b == call[c].browser
      r == call[c].request
  IN  /\ At(c, "startReply")
      /\ jar' = [jar EXCEPT ![b].pending = r]
      /\ held' = [held EXCEPT ![b] = @ \union {r}]
      /\ End(c)
      /\ UNCHANGED <<request, session, account, history>>

-----------------------------------------------------------------------------
(* poll.  Only its answer "expired" changes anything.                      *)

Poll(c, b, r) ==
  /\ At(c, "idle")
  /\ r \in held[b] /\ Unfinished(r) /\ request[r].expired
  /\ Begin(c, [Idle EXCEPT !.pc = "expire", !.browser = b, !.request = r,
                           !.seen = request[r].status])
  /\ UNCHANGED <<request, session, account, jar, held, history>>

\* Faulty: only a PENDING request is marked, an approved one is left open.
PollExpirePending(c) ==
  LET r == call[c].request
  IN  /\ At(c, "expire")
      /\ UpdateWhere(r, {"PENDING"}, "EXPIRED")
      /\ dismissed' = dismissed \union {r}
      /\ End(c)
      /\ UNCHANGED <<session, account, jar, held, approvedBy>>

PollExpire(c) ==
  LET r == call[c].request
  IN  /\ At(c, "expire")
      /\ UpdateWhere(r, {call[c].seen}, "EXPIRED")
      /\ dismissed' = dismissed \union {r}
      /\ End(c)
      /\ UNCHANGED <<session, account, jar, held, approvedBy>>

-----------------------------------------------------------------------------
(* approve.  Its transaction reads and updates at READ COMMITTED: another  *)
(* call may commit between the two.  What it writes to an expired request  *)
(* is rolled back by the exception it then throws.                         *)

Approve(a, r, u) ==
  /\ At(a, "idle")
  /\ request[r].status = "PENDING" /\ ~request[r].expired
  /\ Begin(a, [Idle EXCEPT !.pc = "approve", !.request = r, !.uid = u])
  /\ UNCHANGED <<request, session, account, jar, held, history>>

ApprovedAlready(r, u) == request[r].status = "APPROVED" /\ request[r].uid = u

ApproveAgain(a, r, u) ==
  /\ At(a, "idle")
  /\ ApprovedAlready(r, u) /\ ~request[r].expired
  /\ approvedBy' = approvedBy \union {<<r, u>>}
  /\ UNCHANGED <<request, session, account, jar, held, call, dismissed>>

\* Faulty: the update names the request, not the status it was read with.
ApproveOver(a) ==
  LET r == call[a].request
      u == call[a].uid
  IN  /\ At(a, "approve")
      /\ request' = [request EXCEPT ![r].status = "APPROVED", ![r].uid = u]
      /\ approvedBy' = approvedBy \union {<<r, u>>}
      /\ End(a)
      /\ UNCHANGED <<session, account, jar, held, dismissed>>

\* The conditional update.
ApproveCommit(a) ==
  LET r == call[a].request
      u == call[a].uid
  IN  /\ At(a, "approve")
      /\ \/ /\ request[r].status = "PENDING"
            /\ request' = [request EXCEPT ![r].status = "APPROVED", ![r].uid = u]
            /\ approvedBy' = approvedBy \union {<<r, u>>}
            /\ End(a)
         \/ /\ request[r].status # "PENDING"
            /\ Continue(a, "approveReread")
            /\ UNCHANGED <<request, approvedBy>>
      /\ UNCHANGED <<session, account, jar, held, dismissed>>

\* The update has matched no row; the bot is told what the row says by now.
ApproveReread(a) ==
  LET r == call[a].request
      u == call[a].uid
  IN  /\ At(a, "approveReread")
      /\ approvedBy' = IF ApprovedAlready(r, u) THEN approvedBy \union {<<r, u>>}
                                               ELSE approvedBy
      /\ End(a)
      /\ UNCHANGED <<request, session, account, jar, held, dismissed>>

-----------------------------------------------------------------------------
(* complete.                                                               *)

Complete(c, b, r) ==
  /\ At(c, "idle")
  /\ r \in held[b]
  /\ request[r].status = "APPROVED" /\ ~request[r].expired
  /\ Begin(c, [Idle EXCEPT !.pc = "complete", !.browser = b, !.request = r,
                           !.uid = request[r].uid, !.session = jar[b].session])
  /\ UNCHANGED <<request, session, account, jar, held, history>>

\* The session the call opens, in place of the one its browser had.
OpenSession(c, s) ==
  LET old     == call[c].session
      rotated == IF old = None THEN session ELSE Revoked(old)
  IN  session' = [rotated EXCEPT ![s] =
        [status |-> "LIVE", uid |-> call[c].uid, request |-> call[c].request]]

\* Faulty: the request is marked, but not on condition that it is still approved.
CompleteTwice(c) ==
  LET r == call[c].request
      u == call[c].uid
  IN  /\ At(c, "complete")
      /\ account[u] # "SUSPENDED"
      /\ SetStatus(r, "CONSUMED")
      /\ account' = [account EXCEPT ![u] = "ACTIVE"]
      /\ \E s \in Sessions :
           /\ session[s].status = "UNUSED"
           /\ OpenSession(c, s)
           /\ Begin(c, [call[c] EXCEPT !.pc = "completeReply", !.session = s])
      /\ UNCHANGED <<jar, held, history>>

\* The transaction: the account, then the request on condition that it is still
\* approved by the same player, then the sessions.  The time it compares with
\* expiresAt was taken before it began: a request that has expired since passes.
CompleteCommit(c) ==
  LET r == call[c].request
      u == call[c].uid
  IN  /\ At(c, "complete")
      /\ account[u] # "SUSPENDED"
      /\ ApprovedAlready(r, u)
      /\ SetStatus(r, "CONSUMED")
      /\ account' = [account EXCEPT ![u] = "ACTIVE"]
      /\ \E s \in Sessions :
           /\ session[s].status = "UNUSED"
           /\ OpenSession(c, s)
           /\ Begin(c, [call[c] EXCEPT !.pc = "completeReply", !.session = s])
      /\ UNCHANGED <<jar, held, history>>

\* Faulty: the pending cookie is not cleared but set to the session's token.
CompleteReplyInPending(c) ==
  /\ At(c, "completeReply")
  /\ jar' = [jar EXCEPT ![call[c].browser].pending = call[c].session]
  /\ End(c)
  /\ UNCHANGED <<request, session, account, held, history>>

CompleteReply(c) ==
  /\ At(c, "completeReply")
  /\ jar' = [jar EXCEPT ![call[c].browser] =
               [pending |-> None, session |-> call[c].session]]
  /\ End(c)
  /\ UNCHANGED <<request, session, account, held, history>>

-----------------------------------------------------------------------------
(* cancel and logout.                                                      *)

Cancel(c, b, r) ==
  /\ At(c, "idle")
  /\ r \in held[b] /\ request[r].status # "DELETED"
  /\ Begin(c, [Idle EXCEPT !.browser = b, !.request = r,
       !.pc = IF request[r].status \in {"CONSUMED", "EXPIRED"} THEN "cancelReply"
                                                               ELSE "cancel"])
  /\ UNCHANGED <<request, session, account, jar, held, history>>

\* Faulty: the cancellation is written over whatever the request has become.
CancelAnyStatus(c) ==
  LET r == call[c].request
  IN  /\ At(c, "cancel")
      /\ SetStatus(r, "CANCELLED")
      /\ dismissed' = dismissed \union {r}
      /\ Continue(c, "cancelReply")
      /\ UNCHANGED <<session, account, jar, held, approvedBy>>

CancelCommit(c) ==
  LET r == call[c].request
  IN  /\ At(c, "cancel")
      /\ UpdateWhere(r, {"PENDING", "APPROVED"}, "CANCELLED")
      /\ dismissed' = dismissed \union {r}
      /\ Continue(c, "cancelReply")
      /\ UNCHANGED <<session, account, jar, held, approvedBy>>

\* The pending cookie is cleared, whichever request it names by now.
CancelReply(c) ==
  /\ At(c, "cancelReply")
  /\ jar' = [jar EXCEPT ![call[c].browser].pending = None]
  /\ End(c)
  /\ UNCHANGED <<request, session, account, held, history>>

Logout(c, b) ==
  LET s == jar[b].session
  IN  /\ At(c, "idle")
      /\ Begin(c, [Idle EXCEPT !.pc = "logoutReply", !.browser = b])
      /\ session' = IF s = None THEN session ELSE Revoked(s)
      /\ UNCHANGED <<request, account, jar, held, history>>

LogoutReply(c) ==
  /\ At(c, "logoutReply")
  /\ jar' = [jar EXCEPT ![call[c].browser] = NoCookies]
  /\ End(c)
  /\ UNCHANGED <<request, session, account, held, history>>

-----------------------------------------------------------------------------
(* cleanup, which start sets off and does not wait for.  The retention     *)
(* time is far longer than any call: no call refers to a row it deletes.   *)

DeleteRequest(r) ==
  /\ request[r].status \in {"EXPIRED", "CONSUMED", "CANCELLED"}
  /\ \A p \in Calls \union Approvals : call[p].request # r
  /\ SetStatus(r, "DELETED")
  /\ UNCHANGED <<session, account, jar, held, call, history>>

DeleteSession(s) ==
  /\ session[s].status \in {"REVOKED", "EXPIRED"}
  /\ session' = [session EXCEPT ![s].status = "DELETED"]
  /\ UNCHANGED <<request, account, jar, held, call, history>>

-----------------------------------------------------------------------------
(* A call that throws, or whose answer is lost; time; the operator; the    *)
(* browser.                                                                *)

Throw(p) ==
  /\ ~At(p, "idle")
  /\ End(p)
  /\ UNCHANGED <<request, session, account, jar, held, history>>

RequestExpires(r) ==
  /\ request[r].status # "UNUSED" /\ ~request[r].expired
  /\ request' = [request EXCEPT ![r].expired = TRUE]
  /\ UNCHANGED <<session, account, jar, held, call, history>>

SessionExpires(s) ==
  /\ session[s].status = "LIVE"
  /\ session' = [session EXCEPT ![s].status = "EXPIRED"]
  /\ UNCHANGED <<request, account, jar, held, call, history>>

\* An operator suspends an account: nothing in the repository does.
Suspend(u) ==
  /\ account[u] = "ACTIVE"
  /\ account' = [account EXCEPT ![u] = "SUSPENDED"]
  /\ UNCHANGED <<request, session, jar, held, call, history>>

\* The browser drops its cookies: they expire, or the user clears them.
DropCookies(b) ==
  /\ jar[b] # NoCookies
  /\ \E kept \in {NoCookies, [jar[b] EXCEPT !.pending = None]} :
       jar' = [jar EXCEPT ![b] = kept]
  /\ UNCHANGED <<request, session, account, held, call, history>>

-----------------------------------------------------------------------------
BrowserCall(c) ==
  \/ \E b \in Browsers : Start(c, b) \/ Restart(c, b) \/ Logout(c, b)
  \/ \E b \in Browsers, r \in Requests :
       Poll(c, b, r) \/ Complete(c, b, r) \/ Cancel(c, b, r)
  \/ Create(c) \/ StartReply(c)
  \/ PollExpire(c)
  \/ CompleteCommit(c) \/ CompleteReply(c)
  \/ CancelCommit(c) \/ CancelReply(c)
  \/ LogoutReply(c)

BotCall(a) ==
  \/ \E r \in Requests, u \in Uids : Approve(a, r, u) \/ ApproveAgain(a, r, u)
  \/ ApproveCommit(a) \/ ApproveReread(a)

CleanUp ==
  \/ \E r \in Requests : DeleteRequest(r)
  \/ \E s \in Sessions : DeleteSession(s)

Environment ==
  \/ \E r \in Requests : RequestExpires(r)
  \/ \E s \in Sessions : SessionExpires(s)
  \/ \E u \in Uids : Suspend(u)
  \/ \E b \in Browsers : DropCookies(b)

Next ==
  \/ \E c \in Calls : BrowserCall(c)
  \/ \E a \in Approvals : BotCall(a)
  \/ \E p \in Calls \union Approvals : Throw(p)
  \/ CleanUp
  \/ Environment

Spec == Init /\ [][Next]_vars

-----------------------------------------------------------------------------
(* Properties.                                                             *)

TypeOK ==
  /\ request \in [Requests -> LoginRequest]
  /\ session \in [Sessions -> WebSession]
  /\ account \in [Uids -> AccountStatuses]
  /\ jar \in [Browsers -> Jar]
  /\ held \in [Browsers -> SUBSET Requests]
  /\ call \in [Calls \union Approvals -> Call]
  /\ approvedBy \subseteq Requests \X Uids
  /\ dismissed \subseteq Requests

\* Every session there has ever been stems from a request that was consumed, by
\* the player who approved it, and no two sessions stem from one request, even
\* when two tabs complete it at once or an answer is lost and the call repeated.
SessionsAreApproved ==
  \A s \in Sessions :
    session[s].status # "UNUSED" =>
      LET r == session[s].request
      IN  /\ r # None /\ request[r].status \in {"CONSUMED", "DELETED"}
          /\ request[r].uid = session[s].uid
          /\ \A t \in Sessions \ {s} : session[t].request # r

\* auth.service.ts:306-317: of two players who type one code only one is told that
\* it is theirs, and the request stays theirs.
ApprovalIsKept ==
  \A r \in Requests, u \in Uids :
    <<r, u>> \in approvedBy => request[r].uid = u

\* auth.service.ts:246-250, 411-421: once a browser has been told that a request is
\* cancelled or expired, or has asked for another code in its place, no session
\* is opened with it, not even by a call that had found it approved before.
DismissedOpensNothing ==
  [][\A s \in Sessions :
       session[s].status = "UNUSED" /\ session'[s].status = "LIVE"
         => session'[s].request \notin dismissed]_session

\* A browser never gets to know the device secret or the session of another one,
\* and holds only a session that one of its own requests has opened.
BrowsersAreIsolated ==
  \A b \in Browsers :
    /\ jar[b].session # None => session[jar[b].session].request \in held[b]
    /\ jar[b].pending # None => jar[b].pending \in held[b]
    /\ \A other \in Browsers \ {b} : held[b] \intersect held[other] = {}

\* README.md:9: the requests and sessions behave as WebLogin says.
Login == INSTANCE WebLogin WITH
  approver <- [r \in Requests |-> request[r].uid],
  open     <- [r \in Requests |->
                 request[r].status \in {"UNUSED", "PENDING", "APPROVED"}],
  opened   <- [s \in Sessions |->
                 IF session[s].status = "UNUSED" THEN None
                 ELSE <<session[s].request, session[s].uid>>]
ImplementsWebLogin == Login!Spec

\* auth.service.ts:90-124, 239-421: whatever runs between a handler's
\* statements, the writes to a request are those of LoginRequests, each from a status
\* that allows it, and opening a session ends at most the one it takes the place of.
LiveSessions == {s \in Sessions : session[s].status = "LIVE"}

Life == INSTANCE LoginRequests WITH
  status <- [r \in Requests |-> request[r].status],
  over   <- [r \in Requests |-> request[r].expired],
  live   <- {session[s].request : s \in LiveSessions}
ImplementsLoginRequests == Life!Spec
=============================================================================
