-------------------------- MODULE DeviceLoginProofs --------------------------
(***************************************************************************)
(* What DeviceLogin keeps for every number of login requests, sessions,    *)
(* players, browsers and calls in progress.                                *)
(***************************************************************************)
EXTENDS DeviceLogin, TLAPS

Callers == Calls \union Approvals

-----------------------------------------------------------------------------
(* Types.                                                                  *)

\* What a call carries when it stands at a step.
WellFormed(f) ==
  /\ f.pc \notin {"idle", "approve", "approveReread"} => f.browser \in Browsers
  /\ f.pc \in {"startReply", "expire", "cancel", "complete", "completeReply", "approve",
                "approveReread"}
       => f.request \in Requests
  /\ f.pc \in {"complete", "approve", "approveReread"} => f.uid \in Uids
  /\ f.pc = "completeReply" => f.session \in Sessions
  /\ f.pc = "expire" => f.seen \in {"PENDING", "APPROVED"}

\* An approved request has an approver, one that nobody has approved has none.
RowsWellFormed ==
  \A r \in Requests :
    /\ request[r].status \in {"UNUSED", "PENDING"} => request[r].uid = None
    /\ request[r].status \in {"APPROVED", "CONSUMED"} => request[r].uid \in Uids

TypeInv == TypeOK /\ RowsWellFormed /\ \A p \in Callers : WellFormed(call[p])

CallsTyped == call' \in [Callers -> Call] /\ \A p \in Callers : WellFormed(call'[p])

LEMMA BeginTyped ==
  ASSUME TypeInv, NEW p \in Callers, NEW fields \in Call, WellFormed(fields),
         Begin(p, fields)
  PROVE  CallsTyped
BY DEF TypeInv, TypeOK, Begin, CallsTyped, Callers

LEMMA IdleTyped == Idle \in Call /\ WellFormed(Idle)
BY DEF Idle, Call, Steps, WellFormed

LEMMA EndTyped ==
  ASSUME TypeInv, NEW p \in Callers, End(p)
  PROVE  CallsTyped
BY IdleTyped DEF TypeInv, TypeOK, End, CallsTyped, Callers

\* A conditional update ends a request, or leaves it alone.
LEMMA UpdateTyped ==
  ASSUME TypeInv, NEW r \in Requests, NEW from, NEW status \in {"CANCELLED", "EXPIRED"},
         UpdateWhere(r, from, status)
  PROVE  request' \in [Requests -> LoginRequest] /\ RowsWellFormed'
BY DEF TypeInv, UpdateWhere, TypeOK, LoginRequest, RequestStatuses, RowsWellFormed

LEMMA RevokedTyped ==
  ASSUME TypeInv, NEW s \in Sessions
  PROVE  Revoked(s) \in [Sessions -> WebSession]
BY DEF TypeInv, TypeOK, Revoked, WebSession, SessionStatuses

LEMMA TypeInit == Init => TypeInv
BY IdleTyped DEF Init, TypeInv, TypeOK, RowsWellFormed, LoginRequest, WebSession, Jar,
   NoCookies, RequestStatuses, SessionStatuses, AccountStatuses, Callers

LEMMA TypeBrowserCall ==
  ASSUME TypeInv, NEW c \in Calls, BrowserCall(c)
  PROVE  TypeInv'
<1> USE DEF TypeInv, history
<1>0. c \in Callers
  BY DEF Callers
<1>1. ASSUME NEW b \in Browsers, Start(c, b)
      PROVE  TypeInv'
  <2>1. CallsTyped
    <3>1. PICK f \in Call : WellFormed(f) /\ Begin(c, f)
      BY <1>1 DEF Start, Idle, Call, Steps, WellFormed, TypeOK, Jar
    <3>2. QED
      BY <1>0, <3>1, BeginTyped
  <2>2. QED
    BY <1>1, <2>1 DEF Start, TypeOK, RowsWellFormed, CallsTyped, Callers
<1>2. ASSUME NEW b \in Browsers, Restart(c, b)
      PROVE  TypeInv'
  <2>1. CallsTyped
    <3>1. PICK f \in Call : WellFormed(f) /\ Begin(c, f)
      BY <1>2 DEF Restart, Idle, Call, Steps, WellFormed
    <3>2. QED
      BY <1>0, <3>1, BeginTyped
  <2>2. jar[b].pending \in Requests \union {None}
    BY DEF TypeOK, Jar
  <2>3. /\ request' \in [Requests -> LoginRequest] /\ RowsWellFormed'
        /\ dismissed' \subseteq Requests
    <3>1. CASE jar[b].pending = None
      BY <1>2, <3>1 DEF Restart, TypeOK, RowsWellFormed
    <3>2. CASE jar[b].pending # None
      BY <1>2, <2>2, <3>2, UpdateTyped DEF Restart, TypeOK
    <3>3. QED
      BY <3>1, <3>2
  <2>4. QED
    BY <1>2, <2>1, <2>3 DEF Restart, TypeOK, CallsTyped, Callers
<1>3. ASSUME NEW b \in Browsers, Logout(c, b)
      PROVE  TypeInv'
  <2>1. CallsTyped
    <3>1. PICK f \in Call : WellFormed(f) /\ Begin(c, f)
      BY <1>3 DEF Logout, Idle, Call, Steps, WellFormed
    <3>2. QED
      BY <1>0, <3>1, BeginTyped
  <2>2. session' \in [Sessions -> WebSession]
    BY <1>3, RevokedTyped DEF Logout, TypeOK, Jar
  <2>3. QED
    BY <1>3, <2>1, <2>2 DEF Logout, TypeOK, RowsWellFormed, CallsTyped, Callers
<1>4. ASSUME NEW b \in Browsers, NEW r \in Requests,
             Poll(c, b, r) \/ Complete(c, b, r) \/ Cancel(c, b, r)
      PROVE  TypeInv'
  <2>1. CallsTyped
    <3>1. PICK f \in Call : WellFormed(f) /\ Begin(c, f)
      <4>1. CASE Poll(c, b, r)
        BY <4>1 DEF Poll, Unfinished, Idle, Call, Steps, WellFormed, RequestStatuses
      <4>2. CASE Complete(c, b, r)
        BY <4>2 DEF Complete, Idle, Call, Steps, WellFormed, TypeOK, Jar, RowsWellFormed
      <4>3. CASE Cancel(c, b, r)
        BY <4>3 DEF Cancel, Idle, Call, Steps, WellFormed
      <4>4. QED
        BY <1>4, <4>1, <4>2, <4>3
    <3>2. QED
      BY <1>0, <3>1, BeginTyped
  <2>2. QED
    BY <1>4, <2>1 DEF Poll, Complete, Cancel, TypeOK, RowsWellFormed, CallsTyped, Callers
<1>5. CASE Create(c)
  <2>1. PICK r \in Requests :
          /\ request[r].status = "UNUSED"
          /\ SetStatus(r, "PENDING")
          /\ Begin(c, [call[c] EXCEPT !.pc = "startReply", !.request = r])
    BY <1>5 DEF Create
  <2>2. CallsTyped
    <3>1. /\ [call[c] EXCEPT !.pc = "startReply", !.request = r] \in Call
          /\ WellFormed([call[c] EXCEPT !.pc = "startReply", !.request = r])
      BY <1>0, <1>5 DEF Create, At, Call, Steps, WellFormed, TypeOK, Callers
    <3>2. QED
      BY <1>0, <2>1, <3>1, BeginTyped
  <2>3. request' \in [Requests -> LoginRequest] /\ RowsWellFormed'
    BY <2>1 DEF SetStatus, TypeOK, LoginRequest, RequestStatuses, RowsWellFormed
  <2>4. QED
    BY <1>5, <2>2, <2>3 DEF Create, TypeOK, CallsTyped, Callers
<1>6. CASE StartReply(c)
  <2>1. call[c].browser \in Browsers /\ call[c].request \in Requests
    BY <1>0, <1>6 DEF StartReply, At, WellFormed
  <2>2. jar' \in [Browsers -> Jar] /\ held' \in [Browsers -> SUBSET Requests]
    BY <1>6, <2>1 DEF StartReply, TypeOK, Jar
  <2>3. CallsTyped
    BY <1>0, <1>6, EndTyped DEF StartReply
  <2>4. QED
    BY <1>6, <2>2, <2>3 DEF StartReply, TypeOK, RowsWellFormed, CallsTyped, Callers
<1>7. CASE PollExpire(c)
  <2>1. call[c].request \in Requests /\ call[c].seen \in {"PENDING", "APPROVED"}
    BY <1>0, <1>7 DEF PollExpire, At, WellFormed
  <2>2. /\ request' \in [Requests -> LoginRequest] /\ RowsWellFormed'
        /\ dismissed' \subseteq Requests
    BY <1>7, <2>1, UpdateTyped DEF PollExpire, TypeOK
  <2>3. CallsTyped
    BY <1>0, <1>7, EndTyped DEF PollExpire
  <2>4. QED
    BY <1>7, <2>2, <2>3 DEF PollExpire, TypeOK, CallsTyped, Callers
<1>8. CASE CompleteCommit(c)
  <2>1. PICK s \in Sessions :
          /\ OpenSession(c, s)
          /\ Begin(c, [call[c] EXCEPT !.pc = "completeReply", !.session = s])
    BY <1>8 DEF CompleteCommit
  <2>2. call[c].request \in Requests /\ call[c].uid \in Uids
    BY <1>0, <1>8 DEF CompleteCommit, At, WellFormed
  <2>3. CallsTyped
    <3>1. /\ [call[c] EXCEPT !.pc = "completeReply", !.session = s] \in Call
          /\ WellFormed([call[c] EXCEPT !.pc = "completeReply", !.session = s])
      BY <1>0, <1>8 DEF CompleteCommit, At, Call, Steps, WellFormed, TypeOK, Callers
    <3>2. QED
      BY <1>0, <2>1, <3>1, BeginTyped
  <2>4. session' \in [Sessions -> WebSession]
    <3>1. call[c].session \in Sessions \union {None}
      BY <1>0 DEF TypeOK, Call, Callers
    <3>2. [status |-> "LIVE", uid |-> call[c].uid, request |-> call[c].request] \in WebSession
      BY <2>2 DEF WebSession, SessionStatuses
    <3>3. QED
      BY <2>1, <3>1, <3>2, RevokedTyped DEF OpenSession, TypeOK
  <2>5. /\ request' \in [Requests -> LoginRequest] /\ RowsWellFormed'
        /\ account' \in [Uids -> AccountStatuses]
    BY <1>8, <2>2 DEF CompleteCommit, ApprovedAlready, SetStatus, TypeOK, LoginRequest,
         RequestStatuses, AccountStatuses, RowsWellFormed
  <2>6. QED
    BY <1>8, <2>3, <2>4, <2>5 DEF CompleteCommit, TypeOK, CallsTyped, Callers
<1>9. CASE CompleteReply(c)
  <2>1. call[c].browser \in Browsers /\ call[c].session \in Sessions
    BY <1>0, <1>9 DEF CompleteReply, At, WellFormed
  <2>2. jar' \in [Browsers -> Jar]
    BY <1>9, <2>1 DEF CompleteReply, TypeOK, Jar
  <2>3. CallsTyped
    BY <1>0, <1>9, EndTyped DEF CompleteReply
  <2>4. QED
    BY <1>9, <2>2, <2>3 DEF CompleteReply, TypeOK, RowsWellFormed, CallsTyped, Callers
<1>10. CASE CancelCommit(c)
  <2>1. call[c].request \in Requests
    BY <1>0, <1>10 DEF CancelCommit, At, WellFormed
  <2>2. /\ request' \in [Requests -> LoginRequest] /\ RowsWellFormed'
        /\ dismissed' \subseteq Requests
    BY <1>10, <2>1, UpdateTyped DEF CancelCommit, TypeOK
  <2>3. CallsTyped
    <3>1. /\ [call[c] EXCEPT !.pc = "cancelReply"] \in Call
          /\ WellFormed([call[c] EXCEPT !.pc = "cancelReply"])
      BY <1>0, <1>10 DEF CancelCommit, At, Call, Steps, WellFormed, TypeOK, Callers
    <3>2. Begin(c, [call[c] EXCEPT !.pc = "cancelReply"])
      BY <1>10 DEF CancelCommit, Continue, Begin
    <3>3. QED
      BY <1>0, <3>1, <3>2, BeginTyped
  <2>4. QED
    BY <1>10, <2>2, <2>3 DEF CancelCommit, TypeOK, CallsTyped, Callers
<1>11. CASE CancelReply(c) \/ LogoutReply(c)
  <2>1. call[c].browser \in Browsers
    BY <1>0, <1>11 DEF CancelReply, LogoutReply, At, WellFormed
  <2>2. jar' \in [Browsers -> Jar]
    BY <1>11, <2>1 DEF CancelReply, LogoutReply, NoCookies, TypeOK, Jar
  <2>3. CallsTyped
    BY <1>0, <1>11, EndTyped DEF CancelReply, LogoutReply
  <2>4. QED
    BY <1>11, <2>2, <2>3
       DEF CancelReply, LogoutReply, TypeOK, RowsWellFormed, CallsTyped, Callers
<1>12. QED
  BY <1>1, <1>2, <1>3, <1>4, <1>5, <1>6, <1>7, <1>8, <1>9, <1>10, <1>11 DEF BrowserCall

LEMMA TypeBotCall ==
  ASSUME TypeInv, NEW a \in Approvals, BotCall(a)
  PROVE  TypeInv'
<1> USE DEF TypeInv, history
<1>0. a \in Callers
  BY DEF Callers
<1>1. ASSUME NEW r \in Requests, NEW u \in Uids, Approve(a, r, u)
      PROVE  TypeInv'
  <2>1. CallsTyped
    <3>1. PICK f \in Call : WellFormed(f) /\ Begin(a, f)
      BY <1>1 DEF Approve, Idle, Call, Steps, WellFormed
    <3>2. QED
      BY <1>0, <3>1, BeginTyped
  <2>2. QED
    BY <1>1, <2>1 DEF Approve, TypeOK, RowsWellFormed, CallsTyped, Callers
<1>2. ASSUME NEW r \in Requests, NEW u \in Uids, ApproveAgain(a, r, u)
      PROVE  TypeInv'
  BY <1>2 DEF ApproveAgain, TypeOK, RowsWellFormed
<1>3. CASE ApproveCommit(a)
  <2>1. call[a].request \in Requests /\ call[a].uid \in Uids
    BY <1>0, <1>3 DEF ApproveCommit, At, WellFormed
  <2>2. /\ request' \in [Requests -> LoginRequest] /\ RowsWellFormed'
        /\ approvedBy' \subseteq Requests \X Uids
    BY <1>3, <2>1 DEF ApproveCommit, TypeOK, LoginRequest, RequestStatuses, RowsWellFormed
  <2>3. CallsTyped
    <3>1. CASE End(a)
      BY <1>0, <3>1, EndTyped
    <3>2. CASE Continue(a, "approveReread")
      <4> DEFINE f == [call[a] EXCEPT !.pc = "approveReread"]
      <4>1. f \in Call /\ WellFormed(f)
        BY <1>0, <2>1 DEF TypeOK, Callers, Call, Steps, WellFormed
      <4>2. Begin(a, f)
        BY <3>2 DEF Continue, Begin
      <4>3. QED
        BY <1>0, <4>1, <4>2, BeginTyped
    <3>3. QED
      BY <1>3, <3>1, <3>2 DEF ApproveCommit
  <2>4. QED
    BY <1>3, <2>2, <2>3 DEF ApproveCommit, TypeOK, CallsTyped, Callers
<1>4. CASE ApproveReread(a)
  <2>1. call[a].request \in Requests /\ call[a].uid \in Uids
    BY <1>0, <1>4 DEF ApproveReread, At, WellFormed
  <2>2. approvedBy' \subseteq Requests \X Uids
    BY <1>4, <2>1 DEF ApproveReread, TypeOK
  <2>3. CallsTyped
    BY <1>0, <1>4, EndTyped DEF ApproveReread
  <2>4. QED
    BY <1>4, <2>2, <2>3 DEF ApproveReread, TypeOK, CallsTyped, Callers, RowsWellFormed
<1>5. QED
  BY <1>1, <1>2, <1>3, <1>4 DEF BotCall

LEMMA TypeStep == TypeInv /\ [Next]_vars => TypeInv'
<1> SUFFICES ASSUME TypeInv, [Next]_vars
             PROVE  TypeInv'
  OBVIOUS
<1>1. ASSUME NEW p \in Callers, Throw(p)
      PROVE  TypeInv'
  <2>1. CallsTyped
    BY <1>1, EndTyped DEF Throw
  <2>2. QED
    BY <1>1, <2>1 DEF Throw, history, TypeInv, TypeOK, RowsWellFormed, CallsTyped, Callers
<1>2. CASE CleanUp
  <2>1. ASSUME NEW r \in Requests, DeleteRequest(r)
        PROVE  TypeInv'
    BY <2>1 DEF DeleteRequest, SetStatus, history, TypeInv, TypeOK, LoginRequest,
         RequestStatuses, RowsWellFormed
  <2>2. ASSUME NEW s \in Sessions, DeleteSession(s)
        PROVE  TypeInv'
    BY <2>2 DEF DeleteSession, history, TypeInv, TypeOK, WebSession, SessionStatuses,
         RowsWellFormed
  <2>3. QED
    BY <1>2, <2>1, <2>2 DEF CleanUp
<1>3. CASE Environment
  <2>1. ASSUME NEW r \in Requests, RequestExpires(r)
        PROVE  TypeInv'
    BY <2>1 DEF RequestExpires, history, TypeInv, TypeOK, LoginRequest, RowsWellFormed
  <2>2. ASSUME NEW s \in Sessions, SessionExpires(s)
        PROVE  TypeInv'
    BY <2>2 DEF SessionExpires, history, TypeInv, TypeOK, WebSession, SessionStatuses,
         RowsWellFormed
  <2>3. ASSUME NEW u \in Uids, Suspend(u)
        PROVE  TypeInv'
    BY <2>3 DEF Suspend, history, TypeInv, TypeOK, AccountStatuses, RowsWellFormed
  <2>4. ASSUME NEW b \in Browsers, DropCookies(b)
        PROVE  TypeInv'
    <3>1. jar' \in [Browsers -> Jar]
      BY <2>4 DEF DropCookies, NoCookies, TypeInv, TypeOK, Jar
    <3>2. QED
      BY <2>4, <3>1 DEF DropCookies, history, TypeInv, TypeOK, RowsWellFormed
  <2>5. QED
    BY <1>3, <2>1, <2>2, <2>3, <2>4 DEF Environment
<1>4. CASE UNCHANGED vars
  BY <1>4 DEF vars, TypeInv, TypeOK, RowsWellFormed
<1>5. QED
  BY <1>1, <1>2, <1>3, <1>4, TypeBrowserCall, TypeBotCall DEF Next, Callers

\* Every reachable state is well typed.
THEOREM TypeCorrect == Spec => []TypeOK
<1>1. Spec => []TypeInv
  BY TypeInit, TypeStep, PTL DEF Spec
<1>2. QED
  BY <1>1, PTL DEF TypeInv
=============================================================================
