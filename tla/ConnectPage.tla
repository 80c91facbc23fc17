----------------------------- MODULE ConnectPage -----------------------------
(***************************************************************************)
(* The login page, apps/web/app/connect/page.tsx, in the tabs of one       *)
(* browser, with the API calls it makes and the cookies they carry.  What  *)
(* the API does inside one call is the subject of DeviceLogin; here a call *)
(* takes effect in one step, between being sent and being heard of.        *)
(*                                                                         *)
(* A call that fails for the page (no answer in ten seconds, a lost        *)
(* answer, a page that is gone) may still reach the API, and its cookies   *)
(* may still reach the browser.                                            *)
(*                                                                         *)
(* Setting deviceRequest changes what the page will show; the effect that  *)
(* polls for the request shown before stays active, and its code on the    *)
(* screen, until React has drawn the page again (Draw).  Answers may come  *)
(* in between.                                                             *)
(***************************************************************************)
CONSTANTS
  Tabs,      \* tabs of one browser that show the page
  Late,      \* places for calls that no page waits for any more
  LateKinds, \* the kinds of calls that may take such a place
  Requests,  \* ids of login requests, each used once; a session is named by its request
  None       \* no request, no session, no cookie

ASSUME NoneIsNoValue == None \notin Requests
ASSUME LateDisjoint == Tabs \intersect Late = {}

VARIABLES
  request,   \* API: the login requests
  live,      \* API: the sessions neither revoked nor expired
  cookie,    \* the browser's two cookies
  page,      \* the state of each page
  calls      \* calls sent and not yet heard of, with their answers

vars == <<request, live, cookie, page, calls>>

LoginRequest ==
  [status : {"unused", "pending", "approved", "consumed", "cancelled", "expired"},
   over : BOOLEAN]    \* expiresAt has passed

Jar == [pending : Requests \union {None}, session : Requests \union {None}]

Views == {"starting", "pending", "completing", "success", "expired",
          "cancelled", "logged_out", "error"}

\* view and shown are the states view and deviceRequest as they were last set.  What
\* React has drawn of them is the screen, with its buttons, and effect, the request
\* on it and of the one effect that is active.  poll is set while that effect is
\* about to poll, at once or by its timer.
Page == [view : Views, shown : Requests \union {None},
         screen : {"code", "account", "other"}, effect : Requests \union {None},
         poll : BOOLEAN, completing : BOOLEAN, login : Requests \union {None}]

Kinds == {"me", "start", "restart", "poll", "complete", "cancel", "logout"}
Answers == {"waiting", "error", "ok", "pending", "approved", "consumed",
            "cancelled", "expired"}

\* cookie is the one of the two cookies that the handler reads, until it is answered.
ApiCall == [tab : Tabs \union Late, kind : Kinds, request : Requests \union {None},
            cookie : Requests \union {None}, answer : Answers,
            result : Requests \union {None}]

ToSend(t, kind, r, sent) ==
  [tab |-> t, kind |-> kind, request |-> r, cookie |-> sent,
   answer |-> "waiting", result |-> None]

Fresh == [view |-> "starting", shown |-> None, screen |-> "other", effect |-> None,
          poll |-> FALSE, completing |-> FALSE, login |-> None]

Init ==
  /\ request = [r \in Requests |-> [status |-> "unused", over |-> FALSE]]
  /\ live = {}
  /\ cookie = [pending |-> None, session |-> None]
  /\ page = [t \in Tabs |-> Fresh]
  /\ calls = {ToSend(t, "me", None, None) : t \in Tabs}

Open(r) == request[r].status \in {"pending", "approved"}

-----------------------------------------------------------------------------
(* The API's side of a call.                                               *)

Reply(c, answer, result) ==
  calls' = (calls \ {c}) \union {[c EXCEPT !.answer = answer, !.result = result,
                                          !.cookie = None]}

Me(c) ==
  /\ c.kind = "me"
  /\ Reply(c, "ok", IF c.cookie \in live THEN c.cookie ELSE None)
  /\ UNCHANGED <<request, live>>

Create(c, unfinished) ==
  \E r \in Requests :
    /\ unfinished[r].status = "unused"
    /\ request' = [unfinished EXCEPT ![r].status = "pending"]
    /\ Reply(c, "ok", r)

Start(c) ==
  /\ c.kind = "start"
  /\ LET r == c.cookie
         resumable == r # None /\ Open(r) /\ ~request[r].over
     IN  \/ resumable /\ Reply(c, "ok", r) /\ UNCHANGED request
         \/ ~resumable /\ Create(c, request)
  /\ UNCHANGED live

\* The request that is cancelled is the one of the cookie.
Restart(c) ==
  /\ c.kind = "restart"
  /\ Create(c, IF c.cookie # None /\ Open(c.cookie)
               THEN [request EXCEPT ![c.cookie].status = "cancelled"] ELSE request)
  /\ UNCHANGED live

\* Faulty: whatever is past its time is marked expired, finished or not.
PollExpiresFinished(c) ==
  LET r == c.request
  IN  /\ c.kind = "poll"
      /\ request' = IF request[r].over THEN [request EXCEPT ![r].status = "expired"]
                                       ELSE request
      /\ Reply(c, request'[r].status, None)
      /\ UNCHANGED live

Poll(c) ==
  LET r == c.request
  IN  /\ c.kind = "poll"
      /\ \/ /\ Open(r) /\ request[r].over
            /\ request' = [request EXCEPT ![r].status = "expired"]
            /\ Reply(c, "expired", None)
         \/ /\ ~(Open(r) /\ request[r].over)
            /\ Reply(c, request[r].status, None)
            /\ UNCHANGED request
      /\ UNCHANGED live

Complete(c) ==
  LET r == c.request
      ready == request[r].status = "approved" /\ ~request[r].over
  IN  /\ c.kind = "complete"
      /\ \/ /\ ready
            /\ request' = [request EXCEPT ![r].status = "consumed"]
            /\ live' = (live \ {c.cookie}) \union {r}
            /\ Reply(c, "ok", r)
         \/ /\ ~ready
            /\ Reply(c, "error", None)
            /\ UNCHANGED <<request, live>>

Cancel(c) ==
  /\ c.kind = "cancel"
  /\ request' = IF Open(c.request) THEN [request EXCEPT ![c.request].status = "cancelled"]
                                   ELSE request
  /\ Reply(c, "ok", None)
  /\ UNCHANGED live

Logout(c) ==
  /\ c.kind = "logout"
  /\ live' = live \ {c.cookie}
  /\ Reply(c, "ok", None)
  /\ UNCHANGED request

Serve(c) ==
  /\ c.answer = "waiting"
  /\ \/ Me(c) \/ Start(c) \/ Restart(c) \/ Poll(c) \/ Complete(c) \/ Cancel(c) \/ Logout(c)
  /\ UNCHANGED <<cookie, page>>

-----------------------------------------------------------------------------
(* The network: a call fails for its page, and may go on without it.       *)

\* What is left of the calls when a page hears this answer to c: one that has failed
\* for the page goes on late, if it is not lost altogether.
Left(c, answer) ==
  LET places == {l \in Late : \A d \in calls : d.tab # l}
      late   == {(calls \ {c}) \union {[c EXCEPT !.tab = l]} : l \in places}
  IN  {calls \ {c}} \union (IF answer # c.answer /\ c.kind \in LateKinds THEN late ELSE {})

\* The cookies an answer sets.  That of cancel clears the pending cookie,
\* whichever request it names.
Cookies(c) ==
  CASE c.answer \in {"waiting", "error"} -> cookie
    [] c.kind \in {"start", "restart"}   -> [cookie EXCEPT !.pending = c.result]
    [] c.kind = "complete"               -> [pending |-> None, session |-> c.result]
    [] c.kind = "cancel"                 -> [cookie EXCEPT !.pending = None]
    [] c.kind = "logout"                 -> [pending |-> None, session |-> None]
    [] OTHER                             -> cookie

Drop(c) ==
  /\ c.tab \in Late /\ c.answer # "waiting"
  /\ cookie' \in {Cookies(c), cookie}
  /\ calls' = calls \ {c}
  /\ UNCHANGED <<request, live, page>>

-----------------------------------------------------------------------------
(* The page.                                                               *)

\* The page hears this answer to c, goes on as p and sends what follows from it.
Hear(c, answer, kind, p, sends) ==
  /\ c.kind = kind
  /\ cookie' = IF answer = "error" THEN cookie ELSE Cookies(c)
  /\ page' = [page EXCEPT ![c.tab] = p]
  /\ \E left \in Left(c, answer) : calls' = left \union sends
  /\ UNCHANGED <<request, live>>

\* What there is to click once p is drawn: the buttons beside a code, or the logout.
Screen(p) ==
  CASE p.view = "pending" /\ p.shown # None -> "code"
    [] p.view = "success"                   -> "account"
    [] OTHER                                -> "other"

\* clearRequest, and what the page shows from then on.
Cleared(p, view) == [p EXCEPT !.shown = None, !.view = view]

\* setDeviceRequest, when the API has made or resumed a request.
Showing(p, r) == [p EXCEPT !.shown = r, !.view = "pending"]

HearMe(c, answer) ==
  LET p == page[c.tab]
  IN  \/ /\ answer = "ok" /\ c.result # None
         /\ Hear(c, answer, "me", [p EXCEPT !.login = c.result, !.view = "success"], {})
      \/ /\ ~(answer = "ok" /\ c.result # None)
         /\ Hear(c, answer, "me", p, {ToSend(c.tab, "start", None, cookie.pending)})

HearStart(c, answer) ==
  LET p == page[c.tab]
  IN  Hear(c, answer, "start", IF answer = "ok" THEN Showing(p, c.result)
                                          ELSE [p EXCEPT !.view = "error"], {})

HearRestart(c, answer) ==
  LET p == page[c.tab]
  IN  Hear(c, answer, "restart", IF answer = "ok" THEN Showing(p, c.result)
                                            ELSE [p EXCEPT !.view = "error"], {})

\* active, of the effect that has made the call: no two effects of a page are for
\* one request.
Active(c) == page[c.tab].effect = c.request

\* Faulty: an answer for a request that is not on the screen any more is acted on.
HearPollAlways(c, answer) ==
  LET p == page[c.tab]
  IN  /\ answer = "approved" /\ ~p.completing
      /\ Hear(c, answer, "poll", [p EXCEPT !.completing = TRUE, !.view = "completing"],
              {ToSend(c.tab, "complete", c.request, cookie.session)})

\* Faulty: the next poll is not scheduled.
PolledOnce(p, answer) ==
  CASE answer = "pending"                 -> p
    [] answer = "approved"                -> IF p.completing THEN p
         ELSE [p EXCEPT !.completing = TRUE, !.view = "completing"]
    [] answer = "consumed"                -> Cleared(p, "error")
    [] answer \in {"expired", "cancelled"} -> Cleared(p, answer)
    [] answer = "error"                   -> [p EXCEPT !.view = "error"]

\* Faulty: every answer that ends the request is shown under its own name.
PolledAsNamed(p, answer) ==
  CASE answer = "pending"                 -> [p EXCEPT !.poll = TRUE]
    [] answer = "approved"                -> IF p.completing THEN p
         ELSE [p EXCEPT !.completing = TRUE, !.view = "completing"]
    [] answer \in {"consumed", "expired", "cancelled"} -> Cleared(p, answer)
    [] answer = "error"                   -> [p EXCEPT !.view = "error"]

\* What the page becomes when the poll of its active effect is answered.
Polled(p, answer) ==
  CASE answer = "pending"                 -> [p EXCEPT !.poll = TRUE]
    [] answer = "approved"                -> IF p.completing THEN p
         ELSE [p EXCEPT !.completing = TRUE, !.view = "completing"]
    [] answer = "consumed"                -> Cleared(p, "error")
    [] answer \in {"expired", "cancelled"} -> Cleared(p, answer)
    [] answer = "error"                   -> [p EXCEPT !.view = "error"]

HearPoll(c, answer) ==
  LET p == page[c.tab]
  IN  \/ ~Active(c) /\ Hear(c, answer, "poll", p, {})
      \/ /\ Active(c)
         /\ Hear(c, answer, "poll", Polled(p, answer),
                 IF answer = "approved" /\ ~p.completing
                 THEN {ToSend(c.tab, "complete", c.request, cookie.session)} ELSE {})

\* Faulty: whatever is heard of complete is taken for a login.
HearCompleteUnchecked(c, answer) ==
  LET p == page[c.tab]
  IN  \/ ~Active(c) /\ Hear(c, answer, "complete", p, {})
      \/ /\ Active(c)
         /\ Hear(c, answer, "complete", [Cleared(p, "success") EXCEPT !.login = c.result], {})

\* Faulty: the page says nothing of a complete that failed.
HearCompleteSilent(c, answer) ==
  LET p == page[c.tab]
  IN  \/ ~Active(c) /\ Hear(c, answer, "complete", p, {})
      \/ /\ Active(c)
         /\ Hear(c, answer, "complete",
                 IF answer = "ok"
                 THEN [Cleared(p, "success") EXCEPT !.login = c.result]
                 ELSE [p EXCEPT !.completing = FALSE], {})

\* An answer that comes when the effect was torn down leaves completing set.
HearComplete(c, answer) ==
  LET p == page[c.tab]
  IN  \/ ~Active(c) /\ Hear(c, answer, "complete", p, {})
      \/ /\ Active(c)
         /\ Hear(c, answer, "complete",
                 IF answer = "ok"
                 THEN [Cleared(p, "success") EXCEPT !.login = c.result]
                 ELSE [p EXCEPT !.completing = FALSE, !.view = "error"], {})

\* cancel ends the same way whatever the answer, and whatever is shown by then.
HearCancel(c, answer) == Hear(c, answer, "cancel", Cleared(page[c.tab], "cancelled"), {})

HearLogout(c, answer) ==
  LET p == page[c.tab]
  IN  Hear(c, answer, "logout", IF answer = "ok" THEN [p EXCEPT !.login = None, !.view = "logged_out"]
                                           ELSE [p EXCEPT !.view = "error"], {})

\* authApi fails when ten seconds pass or an answer is lost, whatever the API did.
HearOf(c) ==
  /\ c.tab \in Tabs
  /\ \E answer \in {c.answer, "error"} \ {"waiting"} :
       \/ HearMe(c, answer) \/ HearStart(c, answer) \/ HearRestart(c, answer)
       \/ HearPoll(c, answer) \/ HearComplete(c, answer)
       \/ HearCancel(c, answer) \/ HearLogout(c, answer)

Send(c) == c \notin calls /\ calls' = calls \union {c}

\* poll, at once or when its timer fires.
SendPoll(t) ==
  LET p == page[t]
      r == p.effect
  IN  /\ p.poll
      /\ \/ /\ request[r].over
            /\ page' = [page EXCEPT ![t] = [Cleared(p, "expired") EXCEPT !.poll = FALSE]]
            /\ UNCHANGED calls
         \/ /\ ~request[r].over
            /\ page' = [page EXCEPT ![t].poll = FALSE]
            /\ Send(ToSend(t, "poll", r, None))
      /\ UNCHANGED <<request, live, cookie>>

\* Faulty: the timer of the effect that is torn down is left running.
DrawnTimerLeft(p) ==
  IF p.effect = p.shown THEN [p EXCEPT !.screen = Screen(p)]
  ELSE [p EXCEPT !.screen = Screen(p), !.effect = p.shown, !.poll = @ \/ p.shown # None]

\* What has been set is on the screen; if that is another request, or none, the
\* effect of the one before is cleaned up and that of the new one polls at once.
Drawn(p) ==
  IF p.effect = p.shown THEN [p EXCEPT !.screen = Screen(p)]
  ELSE [p EXCEPT !.screen = Screen(p), !.effect = p.shown, !.poll = p.shown # None]

Draw(t) ==
  /\ page[t].screen # Screen(page[t]) \/ page[t].effect # page[t].shown
  /\ page' = [page EXCEPT ![t] = Drawn(page[t])]
  /\ UNCHANGED <<request, live, cookie, calls>>

\* The buttons are those on the screen.
Renew(t) ==
  /\ page[t].screen = "code"
  /\ \A c \in calls : ~(c.tab = t /\ c.kind = "restart")
  /\ page' = [page EXCEPT ![t].view = "starting"]
  /\ Send(ToSend(t, "restart", None, cookie.pending))
  /\ UNCHANGED <<request, live, cookie>>

\* The button stays while the call is on its way; a second click adds nothing.
ClickCancel(t) ==
  /\ page[t].screen = "code"
  /\ \A c \in calls : ~(c.tab = t /\ c.kind = "cancel")
  /\ Send(ToSend(t, "cancel", page[t].effect, None))
  /\ UNCHANGED <<request, live, cookie, page>>

SignOut(t) ==
  /\ page[t].screen = "account"
  /\ \A c \in calls : ~(c.tab = t /\ c.kind = "logout")
  /\ Send(ToSend(t, "logout", None, cookie.session))
  /\ UNCHANGED <<request, live, cookie, page>>

\* The page is loaded again, by a link of its own or by the user.  The calls on
\* their way are lost for it; one that reaches the API all the same has gone on late.
Load(t) ==
  LET mine == {c \in calls : c.tab = t}
  IN  /\ page' = [page EXCEPT ![t] = Fresh]
      /\ calls' = (calls \ mine) \union {ToSend(t, "me", None, cookie.session)}
      /\ UNCHANGED <<request, live, cookie>>

-----------------------------------------------------------------------------
(* The player in the chat, and time.                                       *)

Approve(r) ==
  /\ request[r].status = "pending" /\ ~request[r].over
  /\ request' = [request EXCEPT ![r].status = "approved"]
  /\ UNCHANGED <<live, cookie, page, calls>>

Expire(r) ==
  /\ request[r].status # "unused" /\ ~request[r].over
  /\ request' = [request EXCEPT ![r].over = TRUE]
  /\ UNCHANGED <<live, cookie, page, calls>>

\* A session expires, or its account is suspended.
EndSession(s) ==
  /\ s \in live
  /\ live' = live \ {s}
  /\ UNCHANGED <<request, cookie, page, calls>>

Browser(t) ==
  \/ SendPoll(t) \/ Draw(t) \/ Load(t)
  \/ Renew(t) \/ ClickCancel(t) \/ SignOut(t)
World(r) == Approve(r) \/ Expire(r) \/ EndSession(r)

Next ==
  \/ \E c \in calls : Serve(c) \/ Drop(c) \/ HearOf(c)
  \/ \E t \in Tabs : Browser(t)
  \/ \E r \in Requests : World(r)

Spec == Init /\ [][Next]_vars

\* authApi gives every call ten seconds, so each is answered or fails, and the page
\* hears of it; a timer fires, and React draws.  Nobody has to click, approve or expire.
Settles(t, kind) == \E c \in calls : c.tab = t /\ c.kind = kind /\ (Serve(c) \/ HearOf(c))

FairSpec ==
  /\ Spec
  /\ \A t \in Tabs : WF_vars(SendPoll(t)) /\ WF_vars(Draw(t))
  /\ \A t \in Tabs, k \in Kinds : WF_vars(Settles(t, k))

-----------------------------------------------------------------------------
(* Properties.                                                             *)

TypeOK ==
  /\ request \in [Requests -> LoginRequest]
  /\ live \subseteq Requests
  /\ cookie \in Jar
  /\ page \in [Tabs -> Page]
  /\ calls \subseteq ApiCall

\* connect/page.tsx:70-129: however answers, renewals, cancels and redraws overlap, a
\* page has one poll or complete of its effect's request on the way or one due, never
\* two, and never two completes of whatever requests; a page that waits for an
\* approval shows a request and, once drawn, polls for it, unless an earlier complete
\* has left completingRef set.
Loop(t) == {c \in calls : /\ c.tab = t /\ c.kind \in {"poll", "complete"}
                          /\ c.request = page[t].effect}

Completes(t) == {c \in calls : c.tab = t /\ c.kind = "complete"}

OneLoop ==
  \A t \in Tabs :
    LET p == page[t]
    IN  /\ p.poll => p.effect # None /\ Loop(t) = {}
        /\ \A c, d \in Loop(t) : c = d
        /\ \A c, d \in Completes(t) : c = d
        /\ Completes(t) # {} => p.completing
        /\ p.view = "pending" => p.shown # None
        /\ p.view = "pending" /\ p.effect = p.shown
             => p.poll \/ Loop(t) # {} \/ p.completing

\* connect/page.tsx:84-85, 125-129: a page completes only the request whose code is on
\* the screen, and only one at a time: once the screen shows another code, or none,
\* an approval of the one it replaced logs nobody in.
CompletesWhatIsDrawn ==
  [][\A c \in calls' \ calls :
       c.kind = "complete" /\ c.answer = "waiting" /\ c.tab \in Tabs
         => page[c.tab].effect = c.request /\ Completes(c.tab) = {}]_vars

\* README.md:9: a page that says who is logged in names a session that a completed
\* login of this browser has opened.
SuccessIsALogin ==
  \A t \in Tabs : page[t].view = "success" =>
    page[t].login # None /\ request[page[t].login].status = "consumed"

\* connect/page.tsx:70-129: an approval of the code a page shows is noticed, unless
\* an earlier complete has left completingRef set.
ApprovalIsNoticed ==
  \A t \in Tabs, r \in Requests :
    (page[t].view = "pending" /\ page[t].shown = r /\ ~page[t].completing
       /\ request[r].status = "approved")
      ~> (page[t].view # "pending" \/ page[t].shown # r)

\* connect/page.tsx:204, 217: however calls fail and overlap, a page that is not
\* loaded again and again does not stay busy for ever; completing, if it completes
\* the request it shows.  (An approval heard after the request was replaced and
\* before the page is drawn again leaves it completing the replaced one.)
Finishing(t) ==
  /\ page[t].view = "completing" /\ page[t].effect = page[t].shown
  /\ \E c \in Completes(t) : Active(c)

BusyEnds ==
  \A t \in Tabs :
    \/ []<><<Load(t)>>_vars
    \/ page[t].view = "starting" \/ Finishing(t)
         ~> page[t].view \notin {"starting", "completing"}

\* connect/page.tsx:133: issuing a new code cancels the existing request; when a
\* page shows the new code, the one it showed before cannot be completed.
RenewalCancelsShown ==
  [][\A t \in Tabs :
       LET old == page[t].shown
       IN  old # None /\ page'[t].shown \notin {None, old}
             => ~(request[old].status \in {"pending", "approved"} /\ ~request[old].over)]_vars

\* auth.service.ts:80-124, 239-421: the API as the page calls it, each call one step, does
\* to the requests and sessions what LoginRequests lets the API do.
Stored == [unused |-> "UNUSED", pending |-> "PENDING", approved |-> "APPROVED",
           consumed |-> "CONSUMED", cancelled |-> "CANCELLED", expired |-> "EXPIRED"]

Life == INSTANCE LoginRequests WITH
  status <- [r \in Requests |-> Stored[request[r].status]],
  over   <- [r \in Requests |-> request[r].over]
ImplementsLoginRequests == Life!Spec
=============================================================================
