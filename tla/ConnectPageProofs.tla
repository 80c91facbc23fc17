-------------------------- MODULE ConnectPageProofs --------------------------
(***************************************************************************)
(* Proofs about ConnectPage, for every number of tabs, of requests and of  *)
(* calls that outlive their pages.                                         *)
(***************************************************************************)
EXTENDS ConnectPage, TLAPS

-----------------------------------------------------------------------------
(* Types, and what calls and pages know of the API's requests: those they  *)
(* name exist, and a login they name has been completed.                   *)

Used(r) == request[r].status # "unused"
Consumed(r) == request[r].status = "consumed"

CallFits(c) ==
  /\ c \in ApiCall
  /\ c.kind \in {"poll", "complete", "cancel"} => c.request # None
  /\ c.request # None => Used(c.request)
  /\ c.result # None => Used(c.result)
  /\ c.kind \in {"start", "restart"} /\ c.answer = "ok" => c.result # None
  /\ c.kind = "poll" => c.answer # "ok"
  /\ c.kind = "complete" /\ c.answer = "ok" => c.result # None
  /\ c.kind \in {"me", "complete"} /\ c.result # None => Consumed(c.result)

PageFits(p) ==
  /\ p \in Page
  /\ p.shown # None => Used(p.shown)
  /\ p.effect # None => Used(p.effect)
  /\ p.poll \/ p.screen = "code" => p.effect # None
  /\ p.view = "success" => p.login # None /\ Consumed(p.login)

BaseInv ==
  /\ request \in [Requests -> LoginRequest]
  /\ live \subseteq Requests /\ \A s \in live : Consumed(s)
  /\ cookie \in Jar
  /\ page \in [Tabs -> Page] /\ \A t \in Tabs : PageFits(page[t])
  /\ \A c \in calls : CallFits(c)

\* What every step does to the requests.
RequestsKept ==
  /\ request' \in [Requests -> LoginRequest]
  /\ \A r \in Requests : /\ Used(r) => Used(r)'
                         /\ Consumed(r) => Consumed(r)'

LEMMA CallStillFits ==
  ASSUME RequestsKept, NEW c, CallFits(c)
  PROVE  CallFits(c)'
BY DEF RequestsKept, CallFits, ApiCall

LEMMA PageStillFits ==
  ASSUME RequestsKept, NEW p, PageFits(p)
  PROVE  PageFits(p)'
BY DEF RequestsKept, PageFits, Page

\* A step that keeps the requests has only what it changes itself to answer for.
LEMMA BaseStep ==
  ASSUME BaseInv, RequestsKept,
         live' \subseteq Requests, \A s \in live' : Consumed(s)',
         cookie' \in Jar,
         page' \in [Tabs -> Page],
         \A t \in Tabs : page'[t] = page[t] \/ \E p \in Page : p = page'[t] /\ PageFits(p)',
         \A c \in calls' : c \in calls \/ CallFits(c)'
  PROVE  BaseInv'
<1>1. ASSUME NEW t \in Tabs
      PROVE  \E p \in Page : p = page'[t] /\ PageFits(p)'
  <2>1. CASE page'[t] = page[t]
    <3>1. PICK p \in Page : p = page[t]
      BY DEF BaseInv, PageFits
    <3>2. PageFits(p)
      BY <3>1 DEF BaseInv
    <3>3. PageFits(p)'
      BY <3>2, PageStillFits
    <3> QED
      BY <2>1, <3>1, <3>3
  <2> QED
    BY <2>1
<1>2. ASSUME NEW t \in Tabs
      PROVE  PageFits(page[t])'
  BY <1>1, <1>2 DEF PageFits, Used, Consumed
<1>3. ASSUME NEW c \in calls'
      PROVE  CallFits(c)'
  BY <1>3, CallStillFits DEF BaseInv
<1> QED
  BY <1>2, <1>3 DEF BaseInv, RequestsKept

LEMMA CookiesFit ==
  ASSUME BaseInv, NEW c \in calls
  PROVE  Cookies(c) \in Jar
<1>1. c \in ApiCall /\ cookie \in Jar
  BY DEF BaseInv, CallFits
<1>2. c.result \in Requests \union {None}
  BY <1>1 DEF ApiCall
<1> QED
  BY <1>1, <1>2 DEF Cookies, Jar

LEMMA SentFits ==
  ASSUME NEW t \in Tabs, NEW kind \in Kinds, NEW r \in Requests \union {None},
         NEW sent \in Requests \union {None},
         r # None => Used(r), kind \in {"poll", "complete", "cancel"} => r # None
  PROVE  CallFits(ToSend(t, kind, r, sent))
BY DEF CallFits, ToSend, ApiCall, Kinds, Answers

\* The requests stay as they are in what the browser does.
LEMMA BrowserStep ==
  ASSUME BaseInv, UNCHANGED <<request, live>>, cookie' \in Jar,
         NEW t \in Tabs, NEW p \in Page, PageFits(p),
         page' = [page EXCEPT ![t] = p],
         \A c \in calls' : c \in calls \/ CallFits(c)
  PROVE  BaseInv'
<1>1. RequestsKept
  BY DEF BaseInv, RequestsKept, Used, Consumed
<1>2. \A q \in Tabs : page'[q] = IF q = t THEN p ELSE page[q]
  BY DEF BaseInv
<1>3. PageFits(p)'
  BY <1>1, PageStillFits
<1>4. ASSUME NEW c \in calls' PROVE c \in calls \/ CallFits(c)'
  BY <1>1, <1>4, CallStillFits
<1>5. live' \subseteq Requests /\ \A s \in live' : Consumed(s)'
  BY DEF BaseInv, Consumed
<1> QED
  BY <1>1, <1>2, <1>3, <1>4, <1>5, BaseStep DEF BaseInv

LEMMA LateFits ==
  ASSUME NEW c, CallFits(c), NEW l \in Late
  PROVE  CallFits([c EXCEPT !.tab = l])
<1> DEFINE late == [c EXCEPT !.tab = l]
<1>1. /\ late \in ApiCall /\ late.kind = c.kind /\ late.request = c.request
      /\ late.answer = c.answer /\ late.result = c.result
  BY DEF CallFits, ApiCall
<1> HIDE DEF late
<1>2. CallFits(late)
  BY <1>1 DEF CallFits
<1> QED
  BY <1>2 DEF late

\* The page hears of a call.
LEMMA HearStep ==
  ASSUME BaseInv, NEW c \in calls, c.tab \in Tabs, NEW answer, NEW kind,
         NEW p \in Page, PageFits(p),
         NEW sends, Hear(c, answer, kind, p, sends), \A d \in sends : CallFits(d)
  PROVE  BaseInv'
<1>1. cookie' \in Jar
  BY CookiesFit DEF Hear, BaseInv
<1>2. PICK left \in Left(c, answer) : calls' = left \union sends
  BY DEF Hear
<1>3. \A d \in left : d \in calls \/ CallFits(d)
  BY <1>2, LateFits DEF Left, BaseInv
<1>4. \A d \in calls' : d \in calls \/ CallFits(d)
  BY <1>2, <1>3
<1> QED
  BY <1>1, <1>4, BrowserStep DEF Hear

-----------------------------------------------------------------------------
(* The API's side.                                                         *)

Statuses == {"unused", "pending", "approved", "consumed", "cancelled", "expired"}

LEMMA StatusStep ==
  ASSUME BaseInv, NEW r \in Requests, NEW status \in Statuses \ {"unused"},
         ~Consumed(r), request' = [request EXCEPT ![r].status = status]
  PROVE  RequestsKept
<1>1. request[r] \in LoginRequest
  BY DEF BaseInv
<1>2. request' \in [Requests -> LoginRequest]
  BY <1>1 DEF BaseInv, LoginRequest, Statuses
<1>3. \A q \in Requests : q # r => request'[q] = request[q]
  BY DEF BaseInv
<1>4. request'[r].status = status
  BY <1>1 DEF BaseInv, LoginRequest
<1> QED
  BY <1>2, <1>3, <1>4 DEF RequestsKept, Used, Consumed

LEMMA ReplyStep ==
  ASSUME BaseInv, NEW c \in calls, RequestsKept, UNCHANGED <<cookie, page>>,
         live' \subseteq Requests, \A s \in live' : Consumed(s)',
         NEW answer \in Answers, NEW result \in Requests \union {None},
         Reply(c, answer, result),
         result # None => Used(result)',
         c.kind \in {"start", "restart", "complete"} /\ answer = "ok" => result # None,
         c.kind = "poll" => answer # "ok",
         c.kind \in {"me", "complete"} /\ result # None => Consumed(result)'
  PROVE  BaseInv'
<1> DEFINE d == [c EXCEPT !.answer = answer, !.result = result, !.cookie = None]
<1>1. CallFits(c)'
  BY CallStillFits DEF BaseInv
<1>2. /\ d \in ApiCall /\ d.kind = c.kind /\ d.request = c.request
      /\ d.answer = answer /\ d.result = result
  BY DEF BaseInv, CallFits, ApiCall
<1>3. calls' = (calls \ {c}) \union {d}
  BY DEF Reply
<1> HIDE DEF d
<1>4. CallFits(d)'
  BY <1>1, <1>2 DEF CallFits
<1> QED
  BY <1>3, <1>4, BaseStep DEF BaseInv

\* A request is made after at most one that is open has been cancelled.
LEMMA CreateStep ==
  ASSUME BaseInv, NEW c \in calls, c.kind \in {"start", "restart"},
         UNCHANGED <<live, cookie, page>>,
         NEW unfinished \in [Requests -> LoginRequest], Create(c, unfinished),
         \A r \in Requests : \/ unfinished[r] = request[r]
                             \/ Open(r) /\ unfinished[r].status = "cancelled"
  PROVE  BaseInv'
<1>1. PICK r \in Requests : /\ unfinished[r].status = "unused"
                            /\ request' = [unfinished EXCEPT ![r].status = "pending"]
                            /\ Reply(c, "ok", r)
  BY DEF Create
<1>2. /\ request' \in [Requests -> LoginRequest]
      /\ \A s \in Requests : s # r => request'[s] = unfinished[s]
      /\ request'[r].status = "pending"
  BY <1>1 DEF LoginRequest
<1>3. request[r].status = "unused"
  BY <1>1
<1>4. RequestsKept
  BY <1>2, <1>3 DEF RequestsKept, Used, Consumed, Open
<1>5. live' \subseteq Requests /\ \A s \in live' : Consumed(s)'
  BY <1>4 DEF RequestsKept, BaseInv
<1>6. Used(r)'
  BY <1>2 DEF Used
<1>7. "ok" \in Answers
  BY DEF Answers
<1>8. c.kind \notin {"me", "complete", "poll"} /\ r # None
  BY NoneIsNoValue
<1>9. UNCHANGED <<cookie, page>>
  OBVIOUS
<1> QED
  BY <1>1, <1>4, <1>5, <1>6, <1>7, <1>8, <1>9, ReplyStep

LEMMA ServeBase ==
  ASSUME BaseInv, NEW c \in calls, Serve(c)
  PROVE  BaseInv'
<1>1. /\ CallFits(c) /\ c.cookie \in Requests \union {None}
      /\ c.request \in Requests \union {None}
  BY DEF BaseInv, CallFits, ApiCall
<1>2. UNCHANGED <<cookie, page>>
  BY DEF Serve
<1>3. live \subseteq Requests /\ \A s \in live : Consumed(s)
  BY DEF BaseInv
<1>4. ASSUME UNCHANGED request PROVE RequestsKept
  BY <1>4 DEF BaseInv, RequestsKept, Used, Consumed
<1>5. ASSUME UNCHANGED live, RequestsKept
      PROVE  live' \subseteq Requests /\ \A s \in live' : Consumed(s)'
  BY <1>3, <1>5 DEF RequestsKept
<1>6. CASE Me(c)
  <2>1. UNCHANGED <<request, live>> /\ c.kind = "me"
    BY <1>6 DEF Me
  <2>2. PICK result \in live \union {None} : Reply(c, "ok", result)
    BY <1>6 DEF Me
  <2>3. /\ result \in Requests \union {None}
        /\ result # None => Used(result)' /\ Consumed(result)'
    BY <1>3, <2>1, <2>2 DEF Used, Consumed
  <2> QED
    BY <1>2, <1>4, <1>5, <2>1, <2>2, <2>3, ReplyStep DEF Answers
<1>7. CASE Start(c)
  <2>1. c.kind = "start" /\ UNCHANGED live
    BY <1>7 DEF Start
  <2>2. CASE Create(c, request)
    BY <1>2, <2>1, <2>2, CreateStep DEF BaseInv
  <2>3. CASE c.cookie # None /\ Open(c.cookie) /\ Reply(c, "ok", c.cookie) /\ UNCHANGED request
    <3>1. Used(c.cookie)'
      BY <2>3 DEF Used, Open
    <3> QED
      BY <1>1, <1>2, <1>4, <1>5, <2>1, <2>3, <3>1, ReplyStep DEF Answers
  <2> QED
    BY <1>7, <2>2, <2>3 DEF Start
<1>8. CASE Restart(c)
  <2>1. c.kind = "restart" /\ UNCHANGED live
    BY <1>8 DEF Restart
  <2>2. CASE c.cookie # None /\ Open(c.cookie)
    <3> DEFINE unfinished == [request EXCEPT ![c.cookie].status = "cancelled"]
    <3>1. Create(c, unfinished)
      BY <1>8, <2>2 DEF Restart
    <3>2. request[c.cookie] \in LoginRequest /\ c.cookie \in Requests
      BY <1>1, <2>2 DEF BaseInv
    <3>3. /\ unfinished \in [Requests -> LoginRequest]
          /\ \A r \in Requests : r # c.cookie => unfinished[r] = request[r]
          /\ unfinished[c.cookie].status = "cancelled"
      BY <3>2 DEF BaseInv, LoginRequest
    <3> HIDE DEF unfinished
    <3> QED
      BY <1>2, <2>1, <2>2, <3>1, <3>3, CreateStep
  <2>3. CASE ~(c.cookie # None /\ Open(c.cookie))
    <3>1. Create(c, request)
      BY <1>8, <2>3 DEF Restart
    <3> QED
      BY <1>2, <2>1, <3>1, CreateStep DEF BaseInv
  <2> QED
    BY <2>2, <2>3
<1>9. CASE Poll(c)
  <2>1. c.kind = "poll" /\ UNCHANGED live /\ c.request \in Requests /\ Used(c.request)
    BY <1>1, <1>9 DEF Poll, CallFits
  <2>2. CASE Open(c.request) /\ Reply(c, "expired", None)
               /\ request' = [request EXCEPT ![c.request].status = "expired"]
    <3>1. RequestsKept
      BY <2>1, <2>2, StatusStep DEF Statuses, Open, Consumed
    <3> QED
      BY <1>2, <1>5, <2>1, <2>2, <3>1, ReplyStep DEF Answers
  <2>3. CASE Reply(c, request[c.request].status, None) /\ UNCHANGED request
    <3>1. request[c.request].status \in Answers \ {"ok"}
      BY <2>1 DEF BaseInv, LoginRequest, Used, Answers
    <3> QED
      BY <1>2, <1>4, <1>5, <2>1, <2>3, <3>1, ReplyStep
  <2> QED
    BY <1>9, <2>2, <2>3 DEF Poll
<1>10. CASE Complete(c)
  <2>1. c.kind = "complete" /\ c.request \in Requests
    BY <1>1, <1>10 DEF Complete, CallFits
  <2>2. CASE /\ request[c.request].status = "approved" /\ Reply(c, "ok", c.request)
             /\ request' = [request EXCEPT ![c.request].status = "consumed"]
             /\ live' = (live \ {c.cookie}) \union {c.request}
    <3>1. RequestsKept
      BY <2>1, <2>2, StatusStep DEF Statuses, Consumed
    <3>2. Consumed(c.request)' /\ Used(c.request)'
      BY <2>1, <2>2 DEF BaseInv, LoginRequest, Consumed, Used
    <3>3. live' \subseteq Requests /\ \A s \in live' : Consumed(s)'
      BY <1>3, <2>1, <2>2, <3>1, <3>2 DEF RequestsKept
    <3> QED
      BY <1>2, <2>1, <2>2, <3>1, <3>2, <3>3, NoneIsNoValue, ReplyStep DEF Answers
  <2>3. CASE Reply(c, "error", None) /\ UNCHANGED <<request, live>>
    BY <1>2, <1>4, <1>5, <2>1, <2>3, ReplyStep DEF Answers
  <2> QED
    BY <1>10, <2>2, <2>3 DEF Complete
<1>11. CASE Cancel(c)
  <2>1. /\ c.kind = "cancel" /\ UNCHANGED live /\ c.request \in Requests
        /\ Reply(c, "ok", None)
    BY <1>1, <1>11 DEF Cancel, CallFits
  <2>2. RequestsKept
    <3>1. CASE Open(c.request)
      BY <1>11, <2>1, <3>1, StatusStep DEF Cancel, Statuses, Open, Consumed
    <3>2. CASE ~Open(c.request)
      BY <1>4, <1>11, <3>2 DEF Cancel
    <3> QED
      BY <3>1, <3>2
  <2> QED
    BY <1>2, <1>5, <2>1, <2>2, ReplyStep DEF Answers
<1>12. CASE Logout(c)
  <2>1. /\ c.kind = "logout" /\ UNCHANGED request /\ live' \subseteq live
        /\ Reply(c, "ok", None)
    BY <1>12 DEF Logout
  <2>2. live' \subseteq Requests /\ \A s \in live' : Consumed(s)'
    BY <1>3, <2>1 DEF Consumed
  <2> QED
    BY <1>2, <1>4, <2>1, <2>2, ReplyStep DEF Answers
<1> QED
  BY <1>6, <1>7, <1>8, <1>9, <1>10, <1>11, <1>12 DEF Serve

-----------------------------------------------------------------------------
(* The network and the pages.                                              *)

\* The pages and the requests stay as they are.
LEMMA NetworkStep ==
  ASSUME BaseInv, UNCHANGED <<request, live, page>>, cookie' \in Jar,
         \A c \in calls' : c \in calls \/ CallFits(c)
  PROVE  BaseInv'
BY DEF BaseInv, CallFits, PageFits, Used, Consumed

LEMMA DropBase ==
  ASSUME BaseInv, NEW c \in calls, Drop(c)
  PROVE  BaseInv'
<1>1. cookie' \in Jar
  BY CookiesFit DEF Drop, BaseInv
<1> QED
  BY <1>1, NetworkStep DEF Drop

LEMMA FreshFits == PageFits(Fresh)
BY DEF Fresh, PageFits, Page, Views

LEMMA PollSent ==
  ASSUME NEW p, PageFits(p), NEW answer \in Answers \ {"waiting", "ok"},
         p.effect # None
  PROVE  PageFits(Polled(p, answer))
BY DEF Polled, Cleared, PageFits, Page, Views, Answers

\* A page shows requests that exist, and a login that was completed.
LEMMA HearBase ==
  ASSUME BaseInv, NEW c \in calls, HearOf(c)
  PROVE  BaseInv'
<1>1. CallFits(c) /\ c \in ApiCall /\ c.tab \in Tabs
  BY DEF BaseInv, CallFits, HearOf
<1> PICK answer \in {c.answer, "error"} \ {"waiting"} :
      \/ HearMe(c, answer) \/ HearStart(c, answer) \/ HearRestart(c, answer)
      \/ HearPoll(c, answer) \/ HearComplete(c, answer)
      \/ HearCancel(c, answer) \/ HearLogout(c, answer)
  BY DEF HearOf
<1>2. PICK p : p = page[c.tab] /\ PageFits(p) /\ p \in Page
  BY <1>1 DEF BaseInv, PageFits
<1>3. cookie.pending \in Requests \union {None} /\ cookie.session \in Requests \union {None}
  BY DEF BaseInv, Jar
<1>4. /\ c.result \in Requests \union {None} /\ c.request \in Requests \union {None}
      /\ answer \in Answers \ {"waiting"} /\ (answer = "ok" => c.answer = "ok")
  BY <1>1 DEF ApiCall, Answers
<1>5. CASE HearMe(c, answer)
  <2>1. CASE /\ c.result # None
             /\ Hear(c, answer, "me", [p EXCEPT !.login = c.result, !.view = "success"], {})
    <3>1. Consumed(c.result)
      BY <1>1, <2>1 DEF CallFits, Hear
    <3> DEFINE q == [p EXCEPT !.login = c.result, !.view = "success"]
    <3>2. PageFits(q) /\ q \in Page
      BY <1>2, <1>4, <2>1, <3>1 DEF PageFits, Page, Views
    <3> HIDE DEF q
    <3> QED
      BY <1>1, <2>1, <3>2, HearStep DEF q
  <2>2. CASE Hear(c, answer, "me", p, {ToSend(c.tab, "start", None, cookie.pending)})
    <3>1. CallFits(ToSend(c.tab, "start", None, cookie.pending))
      BY <1>1, <1>3, SentFits DEF Kinds
    <3> QED
      BY <1>1, <1>2, <2>2, <3>1, HearStep
  <2> QED
    BY <1>2, <1>5, <2>1, <2>2 DEF HearMe
<1>6. ASSUME NEW kind \in {"start", "restart"},
             Hear(c, answer, kind, IF answer = "ok" THEN Showing(p, c.result)
                                                    ELSE [p EXCEPT !.view = "error"], {})
      PROVE  BaseInv'
  <2> DEFINE q == IF answer = "ok" THEN Showing(p, c.result) ELSE [p EXCEPT !.view = "error"]
  <2>1. answer = "ok" => c.result # None /\ Used(c.result)
    BY <1>1, <1>4, <1>6 DEF CallFits, Hear
  <2>2. PageFits(q) /\ q \in Page
    BY <1>2, <1>4, <2>1 DEF Showing, PageFits, Page, Views
  <2> HIDE DEF q
  <2> QED
    BY <1>1, <1>6, <2>2, HearStep DEF q
<1>7. CASE HearPoll(c, answer)
  <2>1. CASE Hear(c, answer, "poll", p, {})
    BY <1>1, <1>2, <2>1, HearStep
  <2>2. ASSUME Active(c), NEW sends, Hear(c, answer, "poll", Polled(p, answer), sends),
               sends \subseteq {ToSend(c.tab, "complete", c.request, cookie.session)}
        PROVE  BaseInv'
    <3>1. c.request # None /\ p.effect = c.request /\ answer # "ok" /\ Used(c.request)
      BY <1>1, <1>2, <1>4, <2>2 DEF Active, Hear, CallFits
    <3>2. PageFits(Polled(p, answer))
      BY <1>2, <1>4, <3>1, PollSent
    <3>3. Polled(p, answer) \in Page
      BY <3>2 DEF PageFits
    <3>4. CallFits(ToSend(c.tab, "complete", c.request, cookie.session))
      BY <1>1, <1>3, <1>4, <3>1, SentFits DEF Kinds
    <3> QED
      BY <1>1, <2>2, <3>2, <3>3, <3>4, HearStep
  <2> QED
    BY <1>2, <1>7, <2>1, <2>2 DEF HearPoll
<1>8. CASE HearComplete(c, answer)
  <2>1. CASE Hear(c, answer, "complete", p, {})
    BY <1>1, <1>2, <2>1, HearStep
  <2> DEFINE q == IF answer = "ok" THEN [Cleared(p, "success") EXCEPT !.login = c.result]
                  ELSE [p EXCEPT !.completing = FALSE, !.view = "error"]
  <2>2. CASE Hear(c, answer, "complete", q, {})
    <3>1. answer = "ok" => c.result # None /\ Consumed(c.result)
      BY <1>1, <1>4, <2>2 DEF CallFits, Hear
    <3>2. PageFits(q) /\ q \in Page
      BY <1>2, <1>4, <3>1 DEF Cleared, PageFits, Page, Views
    <3> HIDE DEF q
    <3> QED
      BY <1>1, <2>2, <3>2, HearStep
  <2> QED
    BY <1>2, <1>8, <2>1, <2>2 DEF HearComplete
<1>9. CASE HearCancel(c, answer)
  <2> DEFINE q == Cleared(p, "cancelled")
  <2>1. PageFits(q) /\ q \in Page
    BY <1>2 DEF Cleared, PageFits, Page, Views
  <2>2. Hear(c, answer, "cancel", q, {})
    BY <1>2, <1>9 DEF HearCancel
  <2> HIDE DEF q
  <2> QED
    BY <1>1, <2>1, <2>2, HearStep
<1>10. CASE HearLogout(c, answer)
  <2> DEFINE q == IF answer = "ok" THEN [p EXCEPT !.login = None, !.view = "logged_out"]
                  ELSE [p EXCEPT !.view = "error"]
  <2>1. PageFits(q) /\ q \in Page
    BY <1>2 DEF PageFits, Page, Views
  <2>2. Hear(c, answer, "logout", q, {})
    BY <1>2, <1>10 DEF HearLogout
  <2> HIDE DEF q
  <2> QED
    BY <1>1, <2>1, <2>2, HearStep
<1> QED
  BY <1>2, <1>5, <1>6, <1>7, <1>8, <1>9, <1>10 DEF HearStart, HearRestart

LEMMA BrowserBase ==
  ASSUME BaseInv, NEW t \in Tabs, Browser(t)
  PROVE  BaseInv'
<1>1. PICK p : p = page[t] /\ PageFits(p) /\ p \in Page
  BY DEF BaseInv, PageFits
<1>2. /\ cookie.pending \in Requests \union {None}
      /\ cookie.session \in Requests \union {None}
      /\ p.effect \in Requests \union {None} /\ (p.effect # None => Used(p.effect))
  BY <1>1 DEF BaseInv, Jar, PageFits, Page
<1>3. UNCHANGED <<request, live, cookie>> /\ cookie' \in Jar
  BY DEF Browser, SendPoll, Draw, Renew, ClickCancel, SignOut, Load, BaseInv
<1>4. CASE SendPoll(t)
  <2>1. p.effect # None
    BY <1>1, <1>4 DEF SendPoll, PageFits
  <2> DEFINE q == [Cleared(p, "expired") EXCEPT !.poll = FALSE]
  <2>2. CASE page' = [page EXCEPT ![t] = q] /\ UNCHANGED calls
    <3>1. PageFits(q) /\ q \in Page
      BY <1>1 DEF Cleared, PageFits, Page, Views
    <3> HIDE DEF q
    <3> QED
      BY <1>3, <2>2, <3>1, BrowserStep
  <2>3. CASE /\ page' = [page EXCEPT ![t].poll = FALSE]
             /\ Send(ToSend(t, "poll", p.effect, None))
    <3> DEFINE d == [p EXCEPT !.poll = FALSE]
    <3>1. PageFits(d) /\ d \in Page
      BY <1>1 DEF PageFits, Page
    <3>2. page' = [page EXCEPT ![t] = d]
      BY <1>1, <2>3
    <3>3. CallFits(ToSend(t, "poll", p.effect, None))
      BY <1>2, <2>1, SentFits DEF Kinds
    <3> HIDE DEF d
    <3> QED
      BY <1>3, <2>3, <3>1, <3>2, <3>3, BrowserStep DEF Send
  <2> QED
    BY <1>1, <1>4, <2>2, <2>3 DEF SendPoll
<1>5. CASE Renew(t)
  <2> DEFINE q == [p EXCEPT !.view = "starting"]
  <2>1. PageFits(q) /\ q \in Page
    BY <1>1 DEF PageFits, Page, Views
  <2>2. page' = [page EXCEPT ![t] = q] /\ Send(ToSend(t, "restart", None, cookie.pending))
    BY <1>1, <1>5 DEF Renew
  <2>3. CallFits(ToSend(t, "restart", None, cookie.pending))
    BY <1>2, SentFits DEF Kinds
  <2> HIDE DEF q
  <2> QED
    BY <1>3, <2>1, <2>2, <2>3, BrowserStep DEF Send
<1>6. CASE ClickCancel(t)
  <2>1. CallFits(ToSend(t, "cancel", p.effect, None))
    BY <1>1, <1>2, <1>6, SentFits DEF ClickCancel, PageFits, Kinds
  <2> QED
    BY <1>1, <1>3, <1>6, <2>1, NetworkStep DEF ClickCancel, Send
<1>7. CASE SignOut(t)
  <2>1. CallFits(ToSend(t, "logout", None, cookie.session))
    BY <1>2, SentFits DEF Kinds
  <2> QED
    BY <1>3, <1>7, <2>1, NetworkStep DEF SignOut, Send
<1>8. CASE Load(t)
  <2>1. CallFits(ToSend(t, "me", None, cookie.session))
    BY <1>2, SentFits DEF Kinds
  <2>2. Fresh \in Page
    BY FreshFits DEF PageFits
  <2> QED
    BY <1>3, <1>8, <2>1, <2>2, FreshFits, BrowserStep DEF Load
<1>9. CASE Draw(t)
  <2>1. PageFits(Drawn(p)) /\ Drawn(p) \in Page
    BY <1>1 DEF Drawn, Screen, PageFits, Page
  <2> QED
    BY <1>1, <1>3, <1>9, <2>1, BrowserStep DEF Draw
<1> QED
  BY <1>4, <1>5, <1>6, <1>7, <1>8, <1>9 DEF Browser

LEMMA WorldBase ==
  ASSUME BaseInv, NEW r \in Requests, World(r)
  PROVE  BaseInv'
<1>1. UNCHANGED <<cookie, page, calls>>
  BY DEF World, Approve, Expire, EndSession
<1>2. RequestsKept
  <2>1. CASE Approve(r)
    BY <2>1, StatusStep DEF Approve, Statuses, Consumed
  <2>2. CASE Expire(r)
    <3>1. request[r] \in LoginRequest
      BY DEF BaseInv
    <3>2. /\ request' \in [Requests -> LoginRequest]
          /\ \A q \in Requests : request'[q].status = request[q].status
      BY <2>2, <3>1 DEF Expire, BaseInv, LoginRequest
    <3> QED
      BY <3>2 DEF RequestsKept, Used, Consumed
  <2>3. CASE EndSession(r)
    BY <2>3 DEF EndSession, RequestsKept, Used, Consumed, BaseInv
  <2> QED
    BY <2>1, <2>2, <2>3 DEF World
<1>3. live' \subseteq live
  BY DEF World, Approve, Expire, EndSession
<1>4. live' \subseteq Requests /\ \A s \in live' : Consumed(s)'
  BY <1>2, <1>3 DEF BaseInv, RequestsKept
<1>5. cookie' \in Jar /\ page' \in [Tabs -> Page]
  BY <1>1 DEF BaseInv
<1> QED
  BY <1>1, <1>2, <1>4, <1>5, BaseStep

LEMMA InitBase == Init => BaseInv
<1> SUFFICES ASSUME Init PROVE BaseInv
  OBVIOUS
<1>1. \A t \in Tabs : CallFits(ToSend(t, "me", None, None))
  BY SentFits DEF Kinds
<1>2. Fresh \in Page
  BY FreshFits DEF PageFits
<1> QED
  BY <1>1, <1>2, FreshFits DEF Init, BaseInv, LoginRequest, Jar

LEMMA NextBase == BaseInv /\ [Next]_vars => BaseInv'
<1> SUFFICES ASSUME BaseInv, [Next]_vars PROVE BaseInv'
  OBVIOUS
<1>1. ASSUME NEW c \in calls, Serve(c) \/ Drop(c) \/ HearOf(c)
      PROVE  BaseInv'
  BY <1>1, ServeBase, DropBase, HearBase
<1>2. CASE UNCHANGED vars
  BY <1>2, NetworkStep DEF vars, BaseInv
<1> QED
  BY <1>1, <1>2, BrowserBase, WorldBase DEF Next

\* Every variable keeps its type.
THEOREM TypeCorrect == Spec => []TypeOK
<1>1. BaseInv => TypeOK
  BY DEF BaseInv, CallFits, TypeOK
<1> QED
  BY <1>1, InitBase, NextBase, PTL DEF Spec

\* README.md:9: a page that says who is logged in names a session that a completed
\* login has opened.
THEOREM SuccessIsAlwaysALogin == Spec => []SuccessIsALogin
<1>1. BaseInv => SuccessIsALogin
  BY DEF BaseInv, PageFits, Consumed, SuccessIsALogin
<1> QED
  BY <1>1, InitBase, NextBase, PTL DEF Spec

-----------------------------------------------------------------------------
(* One loop.  Said of the page p of one tab and the set m of that tab's    *)
(* calls: a page begins with me and start and nothing beside them, renews  *)
(* with one restart at a time, is not polling yet for what that brings,    *)
(* nor for what it has not drawn yet.                                      *)

InLoop(p, c) == c.kind \in {"poll", "complete"} /\ c.request = p.effect

PollsAlone(p, m) == p.poll => p.effect # None /\ \A c \in m : ~InLoop(p, c)

AwaitsApproval(p, m) ==
  p.view = "pending" =>
    /\ p.shown # None
    /\ p.effect = p.shown => p.poll \/ p.completing \/ \E c \in m : InLoop(p, c)

Begins(p, m) ==
  \A c \in m : c.kind \in {"me", "start"} =>
    /\ p.view = "starting" /\ p.screen = "other" /\ ~p.completing
    /\ p.shown = None /\ p.effect = None
    /\ \A d \in m : d = c

TabFits(p, m) ==
  /\ PollsAlone(p, m)
  /\ \A c, d \in m : InLoop(p, c) /\ InLoop(p, d) => c = d
  /\ \A c, d \in m : c.kind = "complete" /\ d.kind = "complete" => c = d
  /\ \A c \in m : c.kind = "complete" => p.completing
  /\ AwaitsApproval(p, m)
  /\ Begins(p, m)
  /\ \A c, d \in m : c.kind = "restart" /\ d.kind = "restart" => c = d
  /\ \A c \in m : c.kind = "restart" /\ c.answer = "ok" =>
       /\ p.shown # c.result /\ p.effect # c.result
       /\ \A d \in m : d.kind \in {"poll", "complete"} => d.request # c.result
  /\ p.shown \notin {None, p.effect} =>
       \A d \in m : d.kind \in {"poll", "complete"} => d.request # p.shown

Mine(t) == {c \in calls : c.tab = t}

LoopInv == \A t \in Tabs : TabFits(page[t], Mine(t))

\* A step of one tab's page and calls is all that has to be looked at.
LEMMA TabStep ==
  ASSUME BaseInv, LoopInv, NEW t \in Tabs, NEW p, page' = [page EXCEPT ![t] = p],
         \A q \in Tabs \ {t} : Mine(q)' = Mine(q),
         NEW m, m = Mine(t)', TabFits(p, m)
  PROVE  LoopInv'
<1>1. page'[t] = p /\ \A q \in Tabs \ {t} : page'[q] = page[q]
  BY DEF BaseInv
<1>2. TabFits(page'[t], Mine(t)')
  BY <1>1
<1>3. ASSUME NEW q \in Tabs \ {t}
      PROVE  TabFits(page'[q], Mine(q)')
  BY <1>1, <1>3 DEF LoopInv
<1> QED
  BY <1>2, <1>3 DEF LoopInv

\* A call that is answered takes the place of the same call before.
LEMMA AnsweredFits ==
  ASSUME NEW p, NEW m, TabFits(p, m), NEW c \in m, NEW d,
         d.kind = c.kind, d.request = c.request,
         d.kind = "restart" /\ d.answer = "ok" =>
           /\ p.shown # d.result /\ p.effect # d.result
           /\ \A e \in m : e.kind \in {"poll", "complete"} => e.request # d.result
  PROVE  TabFits(p, (m \ {c}) \union {d})
<1> DEFINE n == (m \ {c}) \union {d}
<1>1. d \in n /\ \A e \in n : e = d \/ e \in m
  OBVIOUS
<1>2. \A e \in m : e # c => e \in n
  OBVIOUS
<1>3. InLoop(p, d) <=> InLoop(p, c)
  BY DEF InLoop
<1>4. PollsAlone(p, n) /\ \A e, f \in n : InLoop(p, e) /\ InLoop(p, f) => e = f
  BY <1>3 DEF TabFits, PollsAlone
<1>5. /\ \A e, f \in n : e.kind = "complete" /\ f.kind = "complete" => e = f
      /\ \A e \in n : e.kind = "complete" => p.completing
      /\ \A e, f \in n : e.kind = "restart" /\ f.kind = "restart" => e = f
  BY DEF TabFits
<1>6. AwaitsApproval(p, n)
  BY <1>3 DEF TabFits, AwaitsApproval
<1>7. Begins(p, n)
  BY DEF TabFits, Begins
<1>8. \A e \in n : e.kind = "restart" /\ e.answer = "ok" =>
        /\ p.shown # e.result /\ p.effect # e.result
        /\ \A f \in n : f.kind \in {"poll", "complete"} => f.request # e.result
  BY DEF TabFits
<1>9. p.shown \notin {None, p.effect} =>
        \A e \in n : e.kind \in {"poll", "complete"} => e.request # p.shown
  BY DEF TabFits
<1> HIDE DEF n
<1>10. TabFits(p, n)
  BY <1>4, <1>5, <1>6, <1>7, <1>8, <1>9 DEF TabFits
<1> QED
  BY <1>10 DEF n

\* What a restart brings is new to everybody.
LEMMA ServeLoop ==
  ASSUME BaseInv, LoopInv, NEW c \in calls, Serve(c)
  PROVE  LoopInv'
<1>1. c \in ApiCall /\ UNCHANGED page
  BY DEF BaseInv, CallFits, Serve
<1>2. PICK answer, result :
        /\ Reply(c, answer, result)
        /\ c.kind = "restart" => result \in Requests /\ request[result].status = "unused"
  <2>1. CASE c.kind = "restart"
    <3>1. c.cookie \in Requests \union {None}
      BY <1>1 DEF ApiCall
    <3>2. PICK r \in Requests :
            /\ Reply(c, "ok", r)
            /\ \/ request[r].status = "unused"
               \/ /\ c.cookie # None /\ Open(c.cookie)
                  /\ [request EXCEPT ![c.cookie].status = "cancelled"][r].status = "unused"
      BY <2>1 DEF Serve, Me, Start, Restart, Create, Poll, Complete, Cancel, Logout
    <3>3. request[r].status = "unused"
      BY <3>1, <3>2 DEF BaseInv, LoginRequest
    <3> QED
      BY <3>2, <3>3
  <2>2. CASE c.kind # "restart"
    BY <2>2 DEF Serve, Me, Start, Restart, Create, Poll, Complete, Cancel, Logout
  <2> QED
    BY <2>1, <2>2
<1> DEFINE d == [c EXCEPT !.answer = answer, !.result = result, !.cookie = None]
<1>3. d.tab = c.tab /\ d.kind = c.kind /\ d.request = c.request /\ d.result = result
  BY <1>1 DEF ApiCall
<1>4. calls' = (calls \ {c}) \union {d}
  BY <1>2 DEF Reply
<1> HIDE DEF d
<1>5. ASSUME c.tab \in Tabs, d.kind = "restart"
      PROVE  /\ page[c.tab].shown # d.result /\ page[c.tab].effect # d.result
             /\ \A e \in Mine(c.tab) : e.kind \in {"poll", "complete"} => e.request # d.result
  <2>1. result \in Requests /\ ~Used(result) /\ result # None
    BY <1>2, <1>3, <1>5, NoneIsNoValue DEF Used
  <2> QED
    BY <1>3, <1>5, <2>1 DEF BaseInv, PageFits, CallFits, Mine
<1>6. ASSUME NEW q \in Tabs
      PROVE  TabFits(page[q], Mine(q)')
  <2>1. CASE q = c.tab
    <3>1. Mine(q)' = (Mine(q) \ {c}) \union {d} /\ c \in Mine(q)
      BY <1>3, <1>4, <2>1 DEF Mine
    <3>2. TabFits(page[q], (Mine(q) \ {c}) \union {d})
      BY <1>3, <1>5, <2>1, <3>1, AnsweredFits DEF LoopInv
    <3> QED
      BY <3>1, <3>2
  <2>2. CASE q # c.tab
    <3>1. Mine(q)' = Mine(q)
      BY <1>3, <1>4, <2>2 DEF Mine
    <3> QED
      BY <3>1 DEF LoopInv
  <2> QED
    BY <2>1, <2>2
<1> QED
  BY <1>1, <1>6 DEF LoopInv

LEMMA DropLoop ==
  ASSUME BaseInv, LoopInv, NEW c \in calls, Drop(c)
  PROVE  LoopInv'
<1>1. ASSUME NEW t \in Tabs PROVE Mine(t)' = Mine(t)
  BY LateDisjoint DEF Drop, Mine
<1>2. ASSUME NEW t \in Tabs PROVE TabFits(page[t], Mine(t)')
  BY <1>1 DEF LoopInv
<1> QED
  BY <1>2 DEF Drop, LoopInv

-----------------------------------------------------------------------------
(* The page hears of its call c: p and m are what the tab was before.      *)

\* Nothing that begins is left when a call is heard of.
LEMMA BegunBefore ==
  ASSUME NEW p, NEW m, TabFits(p, m), NEW c \in m
  PROVE  \A d \in m \ {c} : d.kind \notin {"me", "start"}
BY DEF TabFits, Begins

\* The page goes on as q with some of its calls: what it loses, it may lose.
LEMMA GoesOn ==
  ASSUME NEW p, NEW m, TabFits(p, m), NEW q, NEW n, n \subseteq m,
         \A d \in n : d.kind \notin {"me", "start"},
         \A d \in n : d.kind = "restart" /\ d.answer = "ok" => d.result # None,
         q.effect = p.effect, q.shown \in {p.shown, None},
         PollsAlone(q, n), AwaitsApproval(q, n),
         \A d \in n : d.kind = "complete" => q.completing
  PROVE  TabFits(q, n)
<1>1. \A d \in n : d \in m /\ (InLoop(q, d) <=> InLoop(p, d))
  BY DEF InLoop
<1>2. /\ \A c, d \in n : InLoop(q, c) /\ InLoop(q, d) => c = d
      /\ \A c, d \in n : c.kind = "complete" /\ d.kind = "complete" => c = d
      /\ \A c, d \in n : c.kind = "restart" /\ d.kind = "restart" => c = d
  BY <1>1 DEF TabFits
<1>3. \A c \in n : c.kind = "restart" /\ c.answer = "ok" =>
        /\ q.shown # c.result /\ q.effect # c.result
        /\ \A d \in n : d.kind \in {"poll", "complete"} => d.request # c.result
  BY <1>1 DEF TabFits
<1>4. q.shown \notin {None, q.effect} =>
        \A d \in n : d.kind \in {"poll", "complete"} => d.request # q.shown
  BY <1>1 DEF TabFits
<1> QED
  BY <1>2, <1>3, <1>4 DEF TabFits, Begins

LEMMA HearingMe ==
  ASSUME NEW p \in Page, NEW m, TabFits(p, m), NEW c \in m, c.kind = "me",
         NEW r \in Requests \union {None}, NEW t, NEW sent
  PROVE  /\ TabFits([p EXCEPT !.login = r, !.view = "success"], m \ {c})
         /\ TabFits(p, (m \ {c}) \union {ToSend(t, "start", None, sent)})
<1>1. /\ m \ {c} = {} /\ ~p.poll /\ p.shown = None /\ p.effect = None
      /\ p.view = "starting" /\ p.screen = "other" /\ ~p.completing
  BY DEF TabFits, Begins, PollsAlone
<1> DEFINE q == [p EXCEPT !.login = r, !.view = "success"]
           d == ToSend(t, "start", None, sent)
<1>2. ~q.poll /\ q.shown = None /\ q.view = "success"
  BY <1>1 DEF Page
<1>3. d.kind = "start"
  BY DEF ToSend
<1> HIDE DEF q, d
<1>4. TabFits(q, m \ {c})
  BY <1>1, <1>2 DEF TabFits, PollsAlone, AwaitsApproval, Begins
<1>5. TabFits(p, (m \ {c}) \union {d})
  BY <1>1, <1>3 DEF TabFits, PollsAlone, AwaitsApproval, Begins, InLoop
<1> QED
  BY <1>4, <1>5 DEF q, d

\* Nothing is polled for what a start or a restart brings, nor drawn of it.
LEMMA HearingNew ==
  ASSUME NEW p \in Page, NEW m, TabFits(p, m), NEW c \in m,
         c.kind = "start" \/ (c.kind = "restart" /\ c.answer = "ok"), c.result # None
  PROVE  TabFits(Showing(p, c.result), m \ {c})
<1> DEFINE q == Showing(p, c.result)
           n == m \ {c}
<1>1. /\ q.shown = c.result /\ q.view = "pending" /\ q.effect = p.effect
      /\ q.poll = p.poll /\ q.completing = p.completing
  BY DEF Showing, Page
<1>2. \A d \in n : d \in m /\ d.kind \notin {"me", "start", "restart"}
  BY DEF TabFits, Begins
<1>3. p.effect # c.result /\ \A d \in n : d.kind \in {"poll", "complete"} => d.request # c.result
  BY DEF TabFits, Begins
<1> HIDE DEF q, n
<1>4. \A d \in n : InLoop(q, d) <=> InLoop(p, d)
  BY <1>1 DEF InLoop
<1>5. PollsAlone(q, n) /\ AwaitsApproval(q, n) /\ Begins(q, n)
  BY <1>1, <1>2, <1>3, <1>4 DEF TabFits, PollsAlone, AwaitsApproval, Begins
<1>6. TabFits(q, n)
  BY <1>1, <1>2, <1>3, <1>4, <1>5 DEF TabFits
<1> QED
  BY <1>6 DEF q, n

\* The page is told that something has failed or ended.
LEMMA HearingAnEnd ==
  ASSUME NEW p \in Page, NEW m, TabFits(p, m), NEW c \in m, NEW q \in Page,
         q.effect = p.effect, q.shown \in {p.shown, None}, q.poll = p.poll,
         \A d \in m \ {c} : d.kind = "complete" => q.completing,
         q.view # "pending",
         \A d \in m : d.kind = "restart" /\ d.answer = "ok" => d.result # None
  PROVE  TabFits(q, m \ {c})
<1>1. PollsAlone(q, m \ {c}) /\ AwaitsApproval(q, m \ {c})
  BY DEF TabFits, PollsAlone, AwaitsApproval, InLoop
<1> QED
  BY <1>1, BegunBefore, GoesOn

\* An answer that the loop does not wait for changes nothing.
LEMMA HearingAside ==
  ASSUME NEW p \in Page, NEW m, TabFits(p, m), NEW c \in m, ~InLoop(p, c),
         c.kind \in {"poll", "complete"},
         \A d \in m : d.kind = "restart" /\ d.answer = "ok" => d.result # None
  PROVE  TabFits(p, m \ {c})
<1>1. PollsAlone(p, m \ {c}) /\ AwaitsApproval(p, m \ {c})
  BY DEF TabFits, PollsAlone, AwaitsApproval
<1>2. \A d \in m \ {c} : d.kind = "complete" => p.completing
  BY DEF TabFits
<1> QED
  BY <1>1, <1>2, BegunBefore, GoesOn

\* The effect was waiting for this answer and for no other.
LEMMA HearingPoll ==
  ASSUME NEW p \in Page, NEW m, TabFits(p, m), NEW c \in m, p.effect # None,
         c.kind = "poll", c.request = p.effect, NEW answer \in Answers \ {"waiting", "ok"},
         \A d \in m : d.kind = "restart" /\ d.answer = "ok" => d.result # None
  PROVE  /\ ~(answer = "approved" /\ ~p.completing)
              => TabFits(Polled(p, answer), m \ {c})
         /\ answer = "approved" /\ ~p.completing
              => \A t, sent : TabFits(Polled(p, answer),
                                      (m \ {c}) \union {ToSend(t, "complete", c.request, sent)})
<1> DEFINE q == Polled(p, answer)
           n == m \ {c}
<1>1. \A e \in m : InLoop(p, e) <=> e = c
  BY DEF TabFits, InLoop
<1>2. ~p.poll
  BY <1>1 DEF TabFits, PollsAlone
<1>3. \A e \in n : e \in m /\ e.kind \notin {"me", "start"}
  BY BegunBefore
<1>4. \A e \in n : e.kind = "complete" => p.completing
  BY DEF TabFits
<1>5. CASE answer = "pending"
  <2>1. /\ q.shown = p.shown /\ q.view = p.view /\ q.effect = p.effect /\ q.poll
        /\ q.completing = p.completing
    BY <1>5 DEF Polled, Page
  <2> HIDE DEF q
  <2>2. PollsAlone(q, n) /\ AwaitsApproval(q, n)
    BY <1>1, <2>1 DEF TabFits, PollsAlone, AwaitsApproval, InLoop
  <2>3. TabFits(q, n)
    BY <1>3, <1>4, <2>1, <2>2, GoesOn
  <2> QED
    BY <1>5, <2>3 DEF q
<1>6. CASE answer = "approved" /\ ~p.completing
  <2> SUFFICES ASSUME NEW t, NEW sent
               PROVE  TabFits(q, n \union {ToSend(t, "complete", c.request, sent)})
    BY <1>6
  <2> DEFINE d == ToSend(t, "complete", c.request, sent)
             l == n \union {d}
  <2>1. /\ q.shown = p.shown /\ q.view = "completing" /\ q.poll = p.poll
        /\ q.effect = p.effect /\ q.completing
    BY <1>6 DEF Polled, Page
  <2>2. d.kind = "complete" /\ d.request = p.effect
    BY DEF ToSend
  <2>3. d \in l /\ \A e \in l : e = d \/ e \in n
    OBVIOUS
  <2> HIDE DEF q, d, n, l
  <2>4. \A e \in l : InLoop(q, e) <=> e = d
    BY <1>1, <1>3, <2>1, <2>2, <2>3 DEF InLoop, n
  <2>5. PollsAlone(q, l) /\ AwaitsApproval(q, l) /\ Begins(q, l)
    BY <1>2, <1>3, <2>1, <2>2, <2>3 DEF PollsAlone, AwaitsApproval, Begins
  <2>6. \A e, f \in l : e.kind = "complete" /\ f.kind = "complete" => e = f
    BY <1>4, <1>6, <2>3
  <2>7. /\ \A e, f \in l : e.kind = "restart" /\ f.kind = "restart" => e = f
        /\ \A e \in l : e.kind = "restart" /\ e.answer = "ok" =>
             /\ q.shown # e.result /\ q.effect # e.result
             /\ \A f \in l : f.kind \in {"poll", "complete"} => f.request # e.result
        /\ q.shown \notin {None, q.effect} =>
             \A f \in l : f.kind \in {"poll", "complete"} => f.request # q.shown
    BY <1>3, <2>1, <2>2, <2>3 DEF TabFits
  <2>8. TabFits(q, l)
    BY <2>1, <2>4, <2>5, <2>6, <2>7 DEF TabFits
  <2> QED
    BY <2>8 DEF l, d
<1>7. CASE answer = "approved" /\ p.completing
  <2>1. PollsAlone(p, n) /\ AwaitsApproval(p, n)
    BY <1>2, <1>7 DEF TabFits, PollsAlone, AwaitsApproval
  <2>2. TabFits(p, n)
    BY <1>3, <1>4, <2>1, GoesOn
  <2> QED
    BY <1>7, <2>2 DEF Polled
<1>8. CASE answer \in {"consumed", "expired", "cancelled", "error"}
  <2>1. /\ q \in Page /\ q.effect = p.effect /\ q.shown \in {p.shown, None}
        /\ q.poll = p.poll /\ q.completing = p.completing /\ q.view # "pending"
    BY <1>8 DEF Polled, Cleared, Page, Views
  <2> HIDE DEF q
  <2>2. TabFits(q, n)
    BY <1>4, <2>1, HearingAnEnd
  <2> QED
    BY <1>8, <2>2 DEF q
<1> QED
  BY <1>5, <1>6, <1>7, <1>8 DEF Answers

LEMMA HearLoop ==
  ASSUME BaseInv, LoopInv, NEW c \in calls, HearOf(c)
  PROVE  LoopInv'
<1>1. CallFits(c) /\ c \in ApiCall /\ c.tab \in Tabs
  BY DEF BaseInv, CallFits, HearOf
<1> PICK answer \in {c.answer, "error"} \ {"waiting"} :
      \/ HearMe(c, answer) \/ HearStart(c, answer) \/ HearRestart(c, answer)
      \/ HearPoll(c, answer) \/ HearComplete(c, answer)
      \/ HearCancel(c, answer) \/ HearLogout(c, answer)
  BY DEF HearOf
<1>2. PICK p \in Page : p = page[c.tab]
  BY <1>1 DEF BaseInv
<1>3. PICK m : m = Mine(c.tab)
  OBVIOUS
<1>4. c \in m /\ TabFits(p, m)
  BY <1>1, <1>2, <1>3 DEF LoopInv, Mine
<1>5. \A d \in m : d.kind = "restart" /\ d.answer = "ok" => d.result # None
  BY <1>3 DEF BaseInv, Mine, CallFits
<1>6. \A d \in m \ {c} : d.kind = "complete" => p.completing
  BY <1>4 DEF TabFits
<1>7. /\ c.result \in Requests \union {None} /\ answer \in Answers \ {"waiting"}
      /\ answer = "ok" => c.answer = "ok"
  BY <1>1 DEF ApiCall, Answers
<1>8. ASSUME NEW kind, NEW q, NEW sends, Hear(c, answer, kind, q, sends),
             \A d \in sends : d.tab = c.tab, TabFits(q, (m \ {c}) \union sends)
      PROVE  LoopInv'
  <2>1. PICK left \in Left(c, answer) : calls' = left \union sends
    BY <1>8 DEF Hear
  <2>2. \A l \in Late : [c EXCEPT !.tab = l].tab = l
    BY <1>1 DEF ApiCall
  <2>3. \A d : d.tab \in Tabs => (d \in left <=> d \in calls \ {c})
    BY <2>1, <2>2, LateDisjoint DEF Left
  <2>4. Mine(c.tab)' = (m \ {c}) \union sends
    BY <1>1, <1>3, <1>8, <2>1, <2>3 DEF Mine
  <2>5. \A t \in Tabs \ {c.tab} : Mine(t)' = Mine(t)
    BY <1>8, <2>1, <2>3 DEF Mine
  <2> QED
    BY <1>1, <1>8, <2>4, <2>5, TabStep DEF Hear
<1>9. ASSUME NEW kind, NEW q, Hear(c, answer, kind, q, {}), TabFits(q, m \ {c})
      PROVE  LoopInv'
  <2>1. (m \ {c}) \union {} = m \ {c}
    OBVIOUS
  <2> QED
    BY <1>8, <1>9, <2>1
<1>10. ASSUME NEW kind, NEW q \in Page, Hear(c, answer, kind, q, {}), q.effect = p.effect,
              q.shown \in {p.shown, None}, q.poll = p.poll, q.completing = p.completing,
              q.view # "pending"
       PROVE  LoopInv'
  BY <1>4, <1>5, <1>6, <1>9, <1>10, HearingAnEnd
<1>11. CASE HearMe(c, answer)
  <2>1. c.kind = "me"
    BY <1>11 DEF HearMe, Hear
  <2>2. CASE Hear(c, answer, "me", [p EXCEPT !.login = c.result, !.view = "success"], {})
    BY <1>4, <1>7, <1>9, <2>1, <2>2, HearingMe
  <2>3. CASE Hear(c, answer, "me", p, {ToSend(c.tab, "start", None, cookie.pending)})
    <3> DEFINE sends == {ToSend(c.tab, "start", None, cookie.pending)}
    <3>1. \A d \in sends : d.tab = c.tab
      BY DEF ToSend
    <3>2. TabFits(p, (m \ {c}) \union sends)
      BY <1>4, <1>7, <2>1, HearingMe
    <3> HIDE DEF sends
    <3>3. Hear(c, answer, "me", p, sends)
      BY <2>3 DEF sends
    <3> QED
      BY <1>8, <3>1, <3>2, <3>3
  <2> QED
    BY <1>2, <1>11, <2>2, <2>3 DEF HearMe
<1>12. ASSUME NEW kind \in {"start", "restart"},
              Hear(c, answer, kind, IF answer = "ok" THEN Showing(p, c.result)
                                                     ELSE [p EXCEPT !.view = "error"], {})
       PROVE  LoopInv'
  <2>1. c.kind = kind
    BY <1>12 DEF Hear
  <2>2. CASE answer = "ok"
    <3>1. c.result # None
      BY <1>1, <1>7, <2>1, <2>2 DEF CallFits
    <3>2. TabFits(Showing(p, c.result), m \ {c})
      BY <1>4, <1>7, <2>1, <2>2, <3>1, HearingNew
    <3> QED
      BY <1>9, <1>12, <2>2, <3>2
  <2>3. CASE answer # "ok"
    <3> DEFINE q == [p EXCEPT !.view = "error"]
    <3>1. /\ q \in Page /\ q.effect = p.effect /\ q.shown = p.shown /\ q.poll = p.poll
          /\ q.completing = p.completing /\ q.view = "error"
      BY DEF Page, Views
    <3>2. Hear(c, answer, kind, q, {})
      BY <1>12, <2>3
    <3> HIDE DEF q
    <3> QED
      BY <1>10, <3>1, <3>2
  <2> QED
    BY <2>2, <2>3
<1>13. CASE HearPoll(c, answer)
  <2>1. c.kind = "poll" /\ c.request # None /\ answer # "ok"
    BY <1>1, <1>7, <1>13 DEF HearPoll, Hear, CallFits
  <2>2. CASE c.request # p.effect
    <3>1. TabFits(p, m \ {c})
      BY <1>4, <1>5, <2>1, <2>2, HearingAside DEF InLoop
    <3>2. Hear(c, answer, "poll", p, {})
      BY <1>2, <1>13, <2>2 DEF HearPoll, Active
    <3> QED
      BY <1>9, <3>1, <3>2
  <2>3. CASE c.request = p.effect
    <3>1. /\ ~(answer = "approved" /\ ~p.completing) => TabFits(Polled(p, answer), m \ {c})
          /\ answer = "approved" /\ ~p.completing
               => \A t, sent : TabFits(Polled(p, answer),
                                 (m \ {c}) \union {ToSend(t, "complete", c.request, sent)})
      BY <1>4, <1>5, <1>7, <2>1, <2>3, HearingPoll
    <3>2. CASE answer = "approved" /\ ~p.completing
      <4> DEFINE sends == {ToSend(c.tab, "complete", c.request, cookie.session)}
      <4>1. Hear(c, answer, "poll", Polled(p, answer), sends)
        BY <1>2, <1>13, <2>3, <3>2 DEF HearPoll, Active
      <4>2. \A d \in sends : d.tab = c.tab
        BY DEF ToSend
      <4>3. TabFits(Polled(p, answer), (m \ {c}) \union sends)
        BY <3>1, <3>2
      <4> HIDE DEF sends
      <4> QED
        BY <1>8, <4>1, <4>2, <4>3
    <3>3. CASE ~(answer = "approved" /\ ~p.completing)
      <4>1. Hear(c, answer, "poll", Polled(p, answer), {})
        BY <1>2, <1>13, <2>3, <3>3 DEF HearPoll, Active
      <4> QED
        BY <1>9, <3>1, <3>3, <4>1
    <3> QED
      BY <3>2, <3>3
  <2> QED
    BY <2>2, <2>3
<1>14. CASE HearComplete(c, answer)
  <2>1. c.kind = "complete"
    BY <1>14 DEF HearComplete, Hear
  <2>2. CASE c.request # p.effect
    <3>1. TabFits(p, m \ {c})
      BY <1>4, <1>5, <2>1, <2>2, HearingAside DEF InLoop
    <3>2. Hear(c, answer, "complete", p, {})
      BY <1>2, <1>14, <2>2 DEF HearComplete, Active
    <3> QED
      BY <1>9, <3>1, <3>2
  <2>3. CASE c.request = p.effect /\ answer = "ok"
    <3> DEFINE q == [Cleared(p, "success") EXCEPT !.login = c.result]
    <3>1. /\ q \in Page /\ q.effect = p.effect /\ q.shown = None /\ q.poll = p.poll
          /\ q.completing = p.completing /\ q.view = "success"
      BY <1>7 DEF Cleared, Page, Views
    <3>2. Hear(c, answer, "complete", q, {})
      BY <1>2, <1>14, <2>3 DEF HearComplete, Active
    <3> HIDE DEF q
    <3> QED
      BY <1>10, <3>1, <3>2
  <2>4. CASE c.request = p.effect /\ answer # "ok"
    <3> DEFINE q == [p EXCEPT !.completing = FALSE, !.view = "error"]
    <3>1. /\ q \in Page /\ q.effect = p.effect /\ q.shown = p.shown /\ q.poll = p.poll
          /\ q.view = "error"
      BY DEF Page, Views
    <3>2. Hear(c, answer, "complete", q, {})
      BY <1>2, <1>14, <2>4 DEF HearComplete, Active
    <3> HIDE DEF q
    <3>3. \A d \in m \ {c} : d.kind # "complete"
      BY <1>4, <2>1 DEF TabFits
    <3>4. TabFits(q, m \ {c})
      BY <1>4, <1>5, <3>1, <3>3, HearingAnEnd
    <3> QED
      BY <1>9, <3>2, <3>4
  <2> QED
    BY <2>2, <2>3, <2>4
<1>15. CASE HearCancel(c, answer)
  <2> DEFINE q == Cleared(p, "cancelled")
  <2>1. /\ q \in Page /\ q.effect = p.effect /\ q.shown = None /\ q.poll = p.poll
        /\ q.completing = p.completing /\ q.view = "cancelled"
    BY DEF Cleared, Page, Views
  <2>2. Hear(c, answer, "cancel", q, {})
    BY <1>2, <1>15 DEF HearCancel
  <2> HIDE DEF q
  <2> QED
    BY <1>10, <2>1, <2>2
<1>16. CASE HearLogout(c, answer)
  <2> DEFINE q == IF answer = "ok" THEN [p EXCEPT !.login = None, !.view = "logged_out"]
                  ELSE [p EXCEPT !.view = "error"]
  <2>1. /\ q \in Page /\ q.effect = p.effect /\ q.shown = p.shown /\ q.poll = p.poll
        /\ q.completing = p.completing /\ q.view # "pending"
    BY DEF Page, Views
  <2>2. Hear(c, answer, "logout", q, {})
    BY <1>2, <1>16 DEF HearLogout
  <2> HIDE DEF q
  <2> QED
    BY <1>10, <2>1, <2>2
<1> QED
  BY <1>2, <1>11, <1>12, <1>13, <1>14, <1>15, <1>16 DEF HearStart, HearRestart

-----------------------------------------------------------------------------
(* The buttons, the timer and the drawing.                                 *)

\* A call that is not part of the loop joins the calls of a page with buttons.
LEMMA SendingAside ==
  ASSUME NEW p, NEW m, TabFits(p, m), p.screen # "other", NEW d,
         d.kind \in {"restart", "cancel", "logout"}, d.answer = "waiting",
         d.kind = "restart" => \A c \in m : c.kind # "restart",
         NEW q, q.shown = p.shown, q.effect = p.effect, q.poll = p.poll,
         q.completing = p.completing, q.view \in {p.view, "starting"}
  PROVE  TabFits(q, m \union {d})
<1> DEFINE n == m \union {d}
<1>1. d \in n /\ \A e \in n : e = d \/ e \in m
  OBVIOUS
<1>2. \A e \in m : e \in n
  OBVIOUS
<1> HIDE DEF n
<1>3. ~InLoop(q, d) /\ \A e \in m : InLoop(q, e) <=> InLoop(p, e)
  BY DEF InLoop
<1>4. Begins(q, n)
  BY <1>1 DEF TabFits, Begins
<1>5. \A e, f \in n : e.kind = "restart" /\ f.kind = "restart" => e = f
  BY <1>1 DEF TabFits
<1>6. \A e \in n : e.kind = "restart" /\ e.answer = "ok" =>
        /\ q.shown # e.result /\ q.effect # e.result
        /\ \A f \in n : f.kind \in {"poll", "complete"} => f.request # e.result
  BY <1>1 DEF TabFits
<1>7. PollsAlone(q, n) /\ AwaitsApproval(q, n)
  BY <1>1, <1>2, <1>3 DEF TabFits, PollsAlone, AwaitsApproval
<1>8. TabFits(q, n)
  BY <1>1, <1>3, <1>4, <1>5, <1>6, <1>7 DEF TabFits
<1> QED
  BY <1>8 DEF n

LEMMA PollingTheEnd ==
  ASSUME NEW p \in Page, NEW m, TabFits(p, m), p.poll,
         \A d \in m : d.kind = "restart" /\ d.answer = "ok" => d.result # None
  PROVE  TabFits([Cleared(p, "expired") EXCEPT !.poll = FALSE], m)
<1> DEFINE q == [Cleared(p, "expired") EXCEPT !.poll = FALSE]
<1>1. /\ q.shown = None /\ q.effect = p.effect /\ ~q.poll /\ q.view = "expired"
      /\ q.completing = p.completing
  BY DEF Cleared, Page
<1> HIDE DEF q
<1>2. \A d \in m : d.kind \notin {"me", "start"}
  BY DEF TabFits, PollsAlone, Begins
<1>3. PollsAlone(q, m) /\ AwaitsApproval(q, m)
  BY <1>1 DEF PollsAlone, AwaitsApproval
<1>4. \A d \in m : d.kind = "complete" => q.completing
  BY <1>1 DEF TabFits
<1>5. TabFits(q, m)
  BY <1>1, <1>2, <1>3, <1>4, GoesOn
<1> QED
  BY <1>5 DEF q

LEMMA PollingOnce ==
  ASSUME NEW p \in Page, NEW m, TabFits(p, m), p.poll,
         NEW d, d.kind = "poll", d.request = p.effect
  PROVE  TabFits([p EXCEPT !.poll = FALSE], m \union {d})
<1> DEFINE q == [p EXCEPT !.poll = FALSE]
           n == m \union {d}
<1>1. /\ q.shown = p.shown /\ q.effect = p.effect /\ ~q.poll /\ q.view = p.view
      /\ q.completing = p.completing
  BY DEF Page
<1>2. d \in n /\ \A e \in n : e = d \/ e \in m
  OBVIOUS
<1> HIDE DEF q, n
<1>3. \A e \in n : InLoop(q, e) <=> e = d
  BY <1>1, <1>2 DEF TabFits, PollsAlone, InLoop
<1>4. Begins(q, n)
  BY <1>2 DEF TabFits, PollsAlone, Begins
<1>5. /\ \A e, f \in n : e.kind = "complete" /\ f.kind = "complete" => e = f
      /\ \A e \in n : e.kind = "complete" => q.completing
      /\ \A e, f \in n : e.kind = "restart" /\ f.kind = "restart" => e = f
  BY <1>1, <1>2 DEF TabFits
<1>6. \A e \in n : e.kind = "restart" /\ e.answer = "ok" =>
        /\ q.shown # e.result /\ q.effect # e.result
        /\ \A f \in n : f.kind \in {"poll", "complete"} => f.request # e.result
  BY <1>1, <1>2 DEF TabFits
<1>7. PollsAlone(q, n) /\ AwaitsApproval(q, n)
  BY <1>1, <1>2, <1>3 DEF TabFits, PollsAlone, AwaitsApproval
<1>8. q.shown \notin {None, q.effect} =>
        \A e \in n : e.kind \in {"poll", "complete"} => e.request # q.shown
  BY <1>1, <1>2 DEF TabFits
<1>9. TabFits(q, n)
  BY <1>3, <1>4, <1>5, <1>6, <1>7, <1>8 DEF TabFits
<1> QED
  BY <1>9 DEF q, n

\* No call is for a request that the effect was not for until now.
LEMMA Drawing ==
  ASSUME NEW p \in Page, NEW m, TabFits(p, m),
         \A d \in m : d.kind \in {"poll", "complete"} => d.request # None
  PROVE  TabFits(Drawn(p), m)
<1> DEFINE q == Drawn(p)
<1>1. /\ q.shown = p.shown /\ q.effect = p.shown /\ q.view = p.view
      /\ q.completing = p.completing /\ q.screen = Screen(p)
      /\ q.poll = IF p.effect = p.shown THEN p.poll ELSE p.shown # None
  BY DEF Drawn, Page
<1>2. Begins(q, m)
  <2>1. p.view = "starting" => Screen(p) = "other"
    BY DEF Screen
  <2> HIDE DEF q
  <2> QED
    BY <1>1, <2>1 DEF TabFits, Begins
<1> HIDE DEF q
<1>3. PollsAlone(q, m) /\ AwaitsApproval(q, m)
  BY <1>1 DEF TabFits, PollsAlone, AwaitsApproval, InLoop
<1>4. \A c, d \in m : InLoop(q, c) /\ InLoop(q, d) => c = d
  BY <1>1 DEF TabFits, InLoop
<1>5. TabFits(q, m)
  BY <1>1, <1>2, <1>3, <1>4 DEF TabFits
<1> QED
  BY <1>5 DEF q

LEMMA Loading ==
  ASSUME NEW t, NEW sent
  PROVE  TabFits(Fresh, {ToSend(t, "me", None, sent)})
BY DEF Fresh, ToSend, TabFits, PollsAlone, AwaitsApproval, Begins, InLoop

LEMMA BrowserLoop ==
  ASSUME BaseInv, LoopInv, NEW t \in Tabs, Browser(t)
  PROVE  LoopInv'
<1>1. PICK p \in Page : p = page[t]
  BY DEF BaseInv
<1>2. PICK m : m = Mine(t)
  OBVIOUS
<1>3. TabFits(p, m) /\ \A c \in m : c \in calls /\ c.tab = t
  BY <1>1, <1>2 DEF LoopInv, Mine
<1>4. /\ \A d \in m : d.kind = "restart" /\ d.answer = "ok" => d.result # None
      /\ \A d \in m : d.kind \in {"poll", "complete"} => d.request # None
  BY <1>2 DEF BaseInv, Mine, CallFits
<1>5. ASSUME NEW d, NEW q, page' = [page EXCEPT ![t] = q], Send(d), d.tab = t,
             TabFits(q, m \union {d})
      PROVE  LoopInv'
  <2>1. Mine(t)' = m \union {d}
    BY <1>2, <1>5 DEF Mine, Send
  <2>2. \A s \in Tabs \ {t} : Mine(s)' = Mine(s)
    BY <1>5 DEF Mine, Send
  <2> QED
    BY <1>5, <2>1, <2>2, TabStep
<1>6. ASSUME NEW q, page' = [page EXCEPT ![t] = q], UNCHANGED calls, TabFits(q, m)
      PROVE  LoopInv'
  <2>1. Mine(t)' = m /\ \A s \in Tabs \ {t} : Mine(s)' = Mine(s)
    BY <1>2, <1>6 DEF Mine
  <2> QED
    BY <1>6, <2>1, TabStep
<1>7. page' = page => page' = [page EXCEPT ![t] = p]
  BY <1>1 DEF BaseInv
<1>8. CASE SendPoll(t)
  <2> DEFINE over == [Cleared(p, "expired") EXCEPT !.poll = FALSE]
  <2>1. CASE page' = [page EXCEPT ![t] = over] /\ UNCHANGED calls
    <3>1. TabFits(over, m)
      BY <1>1, <1>3, <1>4, <1>8, PollingTheEnd DEF SendPoll
    <3> HIDE DEF over
    <3> QED
      BY <1>6, <2>1, <3>1
  <2>2. CASE /\ page' = [page EXCEPT ![t].poll = FALSE]
             /\ Send(ToSend(t, "poll", p.effect, None))
    <3> DEFINE q == [p EXCEPT !.poll = FALSE]
               d == ToSend(t, "poll", p.effect, None)
    <3>1. d.tab = t /\ d.kind = "poll" /\ d.request = p.effect
      BY DEF ToSend
    <3>2. page' = [page EXCEPT ![t] = q] /\ Send(d)
      BY <1>1, <2>2
    <3> HIDE DEF d
    <3>3. TabFits(q, m \union {d})
      BY <1>1, <1>3, <1>8, <3>1, PollingOnce DEF SendPoll
    <3> HIDE DEF q
    <3> QED
      BY <1>5, <3>1, <3>2, <3>3
  <2> QED
    BY <1>1, <1>8, <2>1, <2>2 DEF SendPoll
<1>9. CASE Draw(t)
  <2>1. TabFits(Drawn(p), m)
    BY <1>3, <1>4, Drawing
  <2> QED
    BY <1>1, <1>6, <1>9, <2>1 DEF Draw
<1>10. CASE Renew(t)
  <2> DEFINE q == [p EXCEPT !.view = "starting"]
             d == ToSend(t, "restart", None, cookie.pending)
  <2>1. d.tab = t /\ d.kind = "restart" /\ d.answer = "waiting"
    BY DEF ToSend
  <2>2. page' = [page EXCEPT ![t] = q] /\ Send(d)
    BY <1>1, <1>10 DEF Renew
  <2>3. /\ q.shown = p.shown /\ q.effect = p.effect /\ q.poll = p.poll
        /\ q.completing = p.completing /\ q.view = "starting"
    BY DEF Page
  <2>4. p.screen # "other" /\ \A c \in m : c.kind # "restart"
    BY <1>1, <1>3, <1>10 DEF Renew
  <2> HIDE DEF q, d
  <2>5. TabFits(q, m \union {d})
    BY <1>3, <2>1, <2>3, <2>4, SendingAside
  <2> QED
    BY <1>5, <2>1, <2>2, <2>5
<1>11. ASSUME NEW kind \in {"cancel", "logout"}, NEW r, NEW sent,
              Send(ToSend(t, kind, r, sent)), page' = page, p.screen # "other"
       PROVE  LoopInv'
  <2> DEFINE d == ToSend(t, kind, r, sent)
  <2>1. d.tab = t /\ d.kind = kind /\ d.answer = "waiting"
    BY DEF ToSend
  <2>2. Send(d)
    BY <1>11
  <2> HIDE DEF d
  <2>3. TabFits(p, m \union {d})
    BY <1>3, <1>11, <2>1, SendingAside
  <2> QED
    BY <1>5, <1>7, <1>11, <2>1, <2>2, <2>3
<1>12. CASE ClickCancel(t)
  BY <1>1, <1>11, <1>12 DEF ClickCancel
<1>13. CASE SignOut(t)
  BY <1>1, <1>11, <1>13 DEF SignOut
<1>14. CASE Load(t)
  <2> DEFINE d == ToSend(t, "me", None, cookie.session)
  <2>1. d.tab = t
    BY DEF ToSend
  <2>2. TabFits(Fresh, {d})
    BY Loading
  <2>3. calls' = (calls \ m) \union {d} /\ page' = [page EXCEPT ![t] = Fresh]
    BY <1>2, <1>14 DEF Load, Mine
  <2> HIDE DEF d
  <2>4. Mine(t)' = {d}
    BY <1>2, <2>1, <2>3 DEF Mine
  <2>5. \A s \in Tabs \ {t} : Mine(s)' = Mine(s)
    BY <1>3, <2>1, <2>3 DEF Mine
  <2> QED
    BY <2>2, <2>3, <2>4, <2>5, TabStep
<1> QED
  BY <1>8, <1>9, <1>10, <1>12, <1>13, <1>14 DEF Browser

LEMMA InitLoop == Init => LoopInv
<1> SUFFICES ASSUME Init, NEW t \in Tabs PROVE TabFits(page[t], Mine(t))
  BY DEF LoopInv
<1>1. page[t] = Fresh
  BY DEF Init
<1>2. \A s \in Tabs : ToSend(s, "me", None, None).tab = s
  BY DEF ToSend
<1>3. Mine(t) = {ToSend(t, "me", None, None)}
  BY <1>2 DEF Init, Mine
<1> QED
  BY <1>1, <1>3, Loading

LEMMA NextLoop == BaseInv /\ LoopInv /\ [Next]_vars => LoopInv'
<1> SUFFICES ASSUME BaseInv, LoopInv, [Next]_vars PROVE LoopInv'
  OBVIOUS
<1>1. ASSUME NEW c \in calls, Serve(c) \/ Drop(c) \/ HearOf(c)
      PROVE  LoopInv'
  BY <1>1, ServeLoop, DropLoop, HearLoop
<1>2. CASE UNCHANGED <<page, calls>>
  <2>1. \A t \in Tabs : Mine(t)' = Mine(t)
    BY <1>2 DEF Mine
  <2> QED
    BY <1>2, <2>1 DEF LoopInv
<1>3. ASSUME NEW r \in Requests, World(r)
      PROVE  LoopInv'
  BY <1>2, <1>3 DEF World, Approve, Expire, EndSession
<1> QED
  BY <1>1, <1>2, <1>3, BrowserLoop DEF Next, vars

\* connect/page.tsx:70-129: for any number of tabs, requests and late calls, and
\* however answers come between setDeviceRequest and the cleanup of the effect before,
\* a page has one poll or complete of its effect's request on the way or one due, never
\* two, never two completes at all, and waits for no approval it does not poll for.
THEOREM LoopsAreSingle == Spec => []OneLoop
<1>1. LoopInv => OneLoop
  <2> SUFFICES ASSUME LoopInv, NEW t \in Tabs, NEW p, p = page[t]
               PROVE  /\ p.poll => p.effect # None /\ Loop(t) = {}
                      /\ \A c, d \in Loop(t) : c = d
                      /\ \A c, d \in Completes(t) : c = d
                      /\ Completes(t) # {} => p.completing
                      /\ p.view = "pending" => p.shown # None
                      /\ p.view = "pending" /\ p.effect = p.shown
                           => p.poll \/ Loop(t) # {} \/ p.completing
    BY DEF OneLoop
  <2>1. /\ \A c : c \in Loop(t) <=> c \in Mine(t) /\ InLoop(p, c)
        /\ \A c : c \in Completes(t) <=> c \in Mine(t) /\ c.kind = "complete"
    BY DEF Loop, Completes, Mine, InLoop
  <2>2. TabFits(p, Mine(t))
    BY DEF LoopInv
  <2> QED
    BY <2>1, <2>2 DEF TabFits, PollsAlone, AwaitsApproval
<1> QED
  BY <1>1, InitBase, NextBase, InitLoop, NextLoop, PTL DEF Spec

-----------------------------------------------------------------------------
(* A complete is sent by HearPoll alone.                                   *)

SentForDrawn(c) ==
  c.kind = "complete" /\ c.answer = "waiting" /\ c.tab \in Tabs =>
    page[c.tab].effect = c.request /\ Completes(c.tab) = {}

LEMMA SentElsewhere ==
  ASSUME NEW t, NEW kind \in Kinds \ {"complete"}, NEW r, NEW sent
  PROVE  SentForDrawn(ToSend(t, kind, r, sent))
BY DEF SentForDrawn, ToSend

\* What is left of a call that has failed is nobody's.
LEMMA LeftAlone ==
  ASSUME NEW d \in ApiCall, NEW answer, NEW left \in Left(d, answer), NEW c \in left \ calls
  PROVE  SentForDrawn(c)
<1>1. PICK l \in Late : c = [d EXCEPT !.tab = l]
  BY DEF Left
<1>2. c.tab = l
  BY <1>1 DEF ApiCall
<1> QED
  BY <1>2, LateDisjoint DEF SentForDrawn

LEMMA NewCalls ==
  ASSUME BaseInv, LoopInv, [Next]_vars, NEW c \in calls' \ calls
  PROVE  SentForDrawn(c)
<1>1. ASSUME NEW d \in calls, Serve(d)
      PROVE  SentForDrawn(c)
  <2>1. d \in ApiCall
    BY DEF BaseInv, CallFits
  <2>2. ASSUME NEW answer, NEW result, Reply(d, answer, result),
               d.kind # "complete" \/ answer # "waiting"
        PROVE  SentForDrawn(c)
    <3>1. c = [d EXCEPT !.answer = answer, !.result = result, !.cookie = None]
      BY <2>2 DEF Reply
    <3>2. c.kind = d.kind /\ c.answer = answer
      BY <2>1, <3>1 DEF ApiCall
    <3> QED
      BY <2>2, <3>2 DEF SentForDrawn
  <2>3. \E answer, result : /\ Reply(d, answer, result)
                            /\ d.kind # "complete" \/ answer # "waiting"
    BY <1>1 DEF Serve, Me, Start, Restart, Create, Poll, Complete, Cancel, Logout
  <2> QED
    BY <2>2, <2>3
<1>2. ASSUME NEW d \in calls, Drop(d)
      PROVE  SentForDrawn(c)
  BY <1>2 DEF Drop
<1>3. ASSUME NEW d \in calls, HearOf(d)
      PROVE  SentForDrawn(c)
  <2>1. d \in ApiCall /\ d.tab \in Tabs
    BY <1>3 DEF BaseInv, CallFits, HearOf
  <2>2. ASSUME NEW answer, NEW kind, NEW p, NEW sends, Hear(d, answer, kind, p, sends),
               \A e \in sends : SentForDrawn(e)
        PROVE  SentForDrawn(c)
    <3>1. PICK left \in Left(d, answer) : calls' = left \union sends
      BY <2>2 DEF Hear
    <3> QED
      BY <2>1, <2>2, <3>1, LeftAlone
  <2>3. SentForDrawn(ToSend(d.tab, "start", None, cookie.pending))
    BY SentElsewhere DEF Kinds
  <2>4. ASSUME Active(d), ~page[d.tab].completing
        PROVE  SentForDrawn(ToSend(d.tab, "complete", d.request, cookie.session))
    <3>1. Completes(d.tab) = {}
      BY <2>1, <2>4 DEF LoopInv, TabFits, Completes, Mine
    <3> QED
      BY <2>4, <3>1 DEF SentForDrawn, ToSend, Active
  <2>5. PICK answer :
      \/ HearMe(d, answer) \/ HearStart(d, answer) \/ HearRestart(d, answer)
      \/ HearPoll(d, answer) \/ HearComplete(d, answer)
      \/ HearCancel(d, answer) \/ HearLogout(d, answer)
    BY <1>3 DEF HearOf
  <2>6. CASE HearMe(d, answer)
    BY <2>2, <2>3, <2>6 DEF HearMe
  <2>7. CASE HearPoll(d, answer)
    BY <2>2, <2>4, <2>7 DEF HearPoll
  <2>8. CASE \/ HearStart(d, answer) \/ HearRestart(d, answer) \/ HearComplete(d, answer)
             \/ HearCancel(d, answer) \/ HearLogout(d, answer)
    BY <2>2, <2>8 DEF HearStart, HearRestart, HearComplete, HearCancel, HearLogout
  <2> QED
    BY <2>5, <2>6, <2>7, <2>8
<1>4. ASSUME NEW t \in Tabs, Browser(t)
      PROVE  SentForDrawn(c)
  <2>1. \E kind \in Kinds \ {"complete"} : \E r, sent : c = ToSend(t, kind, r, sent)
    BY <1>4 DEF Browser, SendPoll, Draw, Renew, ClickCancel, SignOut, Load, Send, Kinds
  <2> QED
    BY <2>1, SentElsewhere
<1>5. ASSUME NEW r \in Requests, World(r)
      PROVE  SentForDrawn(c)
  BY <1>5 DEF World, Approve, Expire, EndSession
<1> QED
  BY <1>1, <1>2, <1>3, <1>4, <1>5 DEF Next, vars

\* connect/page.tsx:84-85, 125-129: a page never completes a request whose effect is
\* not active, nor two at once, whatever answers come before it is drawn again.
THEOREM PagesCompleteWhatIsDrawn == Spec => CompletesWhatIsDrawn
<1>1. BaseInv /\ LoopInv /\ [Next]_vars
        => [\A c \in calls' \ calls :
              c.kind = "complete" /\ c.answer = "waiting" /\ c.tab \in Tabs
                => page[c.tab].effect = c.request /\ Completes(c.tab) = {}]_vars
  BY NewCalls DEF SentForDrawn
<1> QED
  BY <1>1, InitBase, NextBase, InitLoop, NextLoop, PTL DEF Spec, CompletesWhatIsDrawn

-----------------------------------------------------------------------------
(* The API as the page calls it implements LoginRequests.                  *)

Rows == [r \in Requests |-> Stored[request[r].status]]
Overs == [r \in Requests |-> request[r].over]

LEMMA SeenAs ==
  /\ Life!vars = <<Rows, Overs, live>>
  /\ \A r, from, to : Life!Moves(r, from, to) <=>
       Rows[r] \in from /\ Rows' = [Rows EXCEPT ![r] = to] /\ Overs' = Overs
  /\ \A old, r : Life!Renew(old, r) <=>
       /\ Rows[old] \in {"PENDING", "APPROVED"} /\ Rows[r] = "UNUSED"
       /\ Rows' = [Rows EXCEPT ![old] = "CANCELLED", ![r] = "PENDING"]
       /\ Overs' = Overs /\ live' = live
  /\ \A r : Life!TimePasses(r) <=>
       /\ Rows[r] # "UNUSED" /\ ~Overs[r]
       /\ Overs' = [Overs EXCEPT ![r] = TRUE]
       /\ Rows' = Rows /\ live' = live
BY DEF Life!vars, Life!Moves, Life!Renew, Life!Unfinished, Life!TimePasses, Rows, Overs

LEMMA StoredAs ==
  /\ Stored["unused"] = "UNUSED" /\ Stored["pending"] = "PENDING"
  /\ Stored["approved"] = "APPROVED" /\ Stored["consumed"] = "CONSUMED"
  /\ Stored["cancelled"] = "CANCELLED" /\ Stored["expired"] = "EXPIRED"
BY DEF Stored

LEMMA OneRowMoves ==
  ASSUME NEW r \in Requests, NEW status,
         \A q \in Requests :
           request'[q].status = IF q = r THEN status ELSE request[q].status
  PROVE  Rows' = [Rows EXCEPT ![r] = Stored[status]]
BY DEF Rows

\* A request is given another status.
LEMMA RowMoves ==
  ASSUME BaseInv, NEW r \in Requests, NEW status \in Statuses,
         request' = [request EXCEPT ![r].status = status]
  PROVE  /\ Rows[r] = Stored[request[r].status]
         /\ Rows' = [Rows EXCEPT ![r] = Stored[status]]
         /\ Overs' = Overs
<1>1. \A q \in Requests :
        /\ request'[q].status = IF q = r THEN status ELSE request[q].status
        /\ request'[q].over = request[q].over
  BY DEF BaseInv, LoginRequest
<1>2. Overs' = Overs
  BY <1>1, Zenon DEF Overs
<1>3. Rows[r] = Stored[request[r].status]
  BY DEF Rows
<1>4. Rows' = [Rows EXCEPT ![r] = Stored[status]]
  BY <1>1, OneRowMoves
<1> QED
  BY <1>2, <1>3, <1>4

LEMMA SameRows ==
  ASSUME UNCHANGED request
  PROVE  Rows' = Rows /\ Overs' = Overs
BY DEF Rows, Overs

\* Another request is made, after the one that is open, if any, was cancelled.
LEMMA CreateRefines ==
  ASSUME BaseInv, NEW c \in calls, NEW old \in Requests \union {None},
         old # None => Open(old), UNCHANGED live,
         Create(c, IF old # None THEN [request EXCEPT ![old].status = "cancelled"] ELSE request)
  PROVE  Life!Next
<1>1. request \in [Requests -> LoginRequest]
  BY DEF BaseInv
<1>2. CASE old = None
  <2>1. PICK r \in Requests : /\ request[r].status = "unused"
                              /\ request' = [request EXCEPT ![r].status = "pending"]
    BY <1>2 DEF Create
  <2>2. /\ Rows[r] = "UNUSED" /\ Overs' = Overs
        /\ Rows' = [Rows EXCEPT ![r] = "PENDING"]
    BY <2>1, RowMoves, StoredAs DEF Statuses
  <2>3. Life!Issue(r)
    BY <2>2, SeenAs DEF Life!Issue
  <2> QED
    BY <2>3 DEF Life!Next
<1>3. CASE old # None
  <2> DEFINE unfinished == [request EXCEPT ![old].status = "cancelled"]
  <2>1. PICK r \in Requests : /\ unfinished[r].status = "unused"
                              /\ request' = [unfinished EXCEPT ![r].status = "pending"]
    BY <1>3 DEF Create
  <2>2. /\ unfinished \in [Requests -> LoginRequest]
        /\ unfinished[old].status = "cancelled" /\ unfinished[old].over = request[old].over
        /\ \A q \in Requests : q # old => unfinished[q] = request[q]
    BY <1>1, <1>3 DEF LoginRequest
  <2> HIDE DEF unfinished
  <2>3. r # old /\ request[r].status = "unused"
    BY <2>1, <2>2
  <2>4. \A q \in Requests :
          /\ request'[q].status = CASE q = r -> "pending" [] q = old -> "cancelled"
                                    [] OTHER -> request[q].status
          /\ request'[q].over = request[q].over
    BY <1>1, <2>1, <2>2, <2>3 DEF LoginRequest
  <2>5. Overs' = Overs
    BY <2>4, Zenon DEF Overs
  <2>6. Rows' = [Rows EXCEPT ![old] = "CANCELLED", ![r] = "PENDING"]
    BY <1>3, <2>3, <2>4, StoredAs DEF Rows
  <2>7. Rows[r] = "UNUSED" /\ Rows[old] \in {"PENDING", "APPROVED"}
    BY <1>3, <2>3 DEF Rows, Stored, Open
  <2>8. Life!Renew(old, r)
    BY <2>5, <2>6, <2>7, SeenAs
  <2> QED
    BY <1>3, <2>8 DEF Life!Next
<1> QED
  BY <1>2, <1>3

LEMMA ServeRefines ==
  ASSUME BaseInv, NEW c \in calls, Serve(c)
  PROVE  [Life!Next]_(Life!vars)
<1>1. /\ CallFits(c) /\ c.cookie \in Requests \union {None}
      /\ c.request \in Requests \union {None}
  BY DEF BaseInv, CallFits, ApiCall
<1>2. ASSUME UNCHANGED <<request, live>> PROVE UNCHANGED Life!vars
  BY <1>2 DEF Life!vars
<1>3. CASE Start(c)
  <2>1. CASE Create(c, request) /\ UNCHANGED live
    BY <2>1, CreateRefines
  <2> QED
    BY <1>2, <1>3, <2>1 DEF Start
<1>4. CASE Restart(c)
  <2>1. CASE c.cookie # None /\ Open(c.cookie)
    BY <1>1, <1>4, <2>1, CreateRefines DEF Restart
  <2>2. CASE ~(c.cookie # None /\ Open(c.cookie))
    <3>1. Create(c, request) /\ UNCHANGED live
      BY <1>4, <2>2 DEF Restart
    <3> QED
      BY <3>1, CreateRefines
  <2> QED
    BY <2>1, <2>2
<1>5. CASE Poll(c)
  <2>1. CASE Open(c.request) /\ request[c.request].over /\ UNCHANGED live
               /\ request' = [request EXCEPT ![c.request].status = "expired"]
    <3>1. c.request \in Requests
      BY <1>1, <1>5 DEF Poll, CallFits
    <3>2. /\ Rows[c.request] \in {"PENDING", "APPROVED"} /\ Overs' = Overs
          /\ Rows' = [Rows EXCEPT ![c.request] = "EXPIRED"]
      BY <2>1, <3>1, RowMoves, StoredAs DEF Statuses, Open
    <3>3. Overs[c.request]
      BY <2>1, <3>1, Zenon DEF Overs
    <3>4. Life!Expire(c.request)
      BY <2>1, <3>2, <3>3, SeenAs DEF Life!Expire, Life!Unfinished, Overs
    <3> QED
      BY <3>1, <3>4 DEF Life!Next
  <2> QED
    BY <1>2, <1>5, <2>1 DEF Poll
<1>6. CASE Complete(c)
  <2>1. CASE /\ request[c.request].status = "approved"
             /\ request' = [request EXCEPT ![c.request].status = "consumed"]
             /\ live' = (live \ {c.cookie}) \union {c.request}
    <3>1. c.request \in Requests
      BY <1>1, <1>6 DEF Complete, CallFits
    <3>2. /\ Rows[c.request] = "APPROVED" /\ Overs' = Overs
          /\ Rows' = [Rows EXCEPT ![c.request] = "CONSUMED"]
      BY <2>1, <3>1, RowMoves, StoredAs DEF Statuses
    <3>3. Life!Complete(c.request)
      BY <1>1, <2>1, <3>2, SeenAs DEF Life!Complete
    <3> QED
      BY <3>1, <3>3 DEF Life!Next
  <2> QED
    BY <1>2, <1>6, <2>1 DEF Complete
<1>7. CASE Cancel(c)
  <2>1. CASE Open(c.request)
    <3>1. c.request \in Requests
      BY <1>1, <1>7 DEF Cancel, CallFits
    <3>2. /\ Rows[c.request] \in {"PENDING", "APPROVED"} /\ Overs' = Overs
          /\ Rows' = [Rows EXCEPT ![c.request] = "CANCELLED"]
      <4>1. request' = [request EXCEPT ![c.request].status = "cancelled"]
        BY <1>7, <2>1 DEF Cancel
      <4>2. /\ Rows[c.request] = Stored[request[c.request].status] /\ Overs' = Overs
            /\ Rows' = [Rows EXCEPT ![c.request] = Stored["cancelled"]]
        BY <3>1, <4>1, RowMoves DEF Statuses
      <4> QED
        BY <2>1, <4>2, StoredAs DEF Open
    <3>3. UNCHANGED live
      BY <1>7 DEF Cancel
    <3>4. Life!Cancel(c.request)
      BY <3>2, <3>3, SeenAs DEF Life!Cancel, Life!Unfinished
    <3> QED
      BY <3>1, <3>4 DEF Life!Next
  <2> QED
    BY <1>2, <1>7, <2>1 DEF Cancel
<1>8. CASE Logout(c)
  <2>1. UNCHANGED request /\ live' = live \ {c.cookie}
    BY <1>8 DEF Logout
  <2>2. CASE c.cookie \in live
    <3>1. Life!EndSession(c.cookie)
      BY <2>1, <2>2, SameRows DEF Life!EndSession, Rows, Overs
    <3> QED
      BY <2>2, <3>1 DEF Life!Next, BaseInv
  <2>3. CASE c.cookie \notin live
    BY <1>2, <2>1, <2>3
  <2> QED
    BY <2>2, <2>3
<1> QED
  BY <1>2, <1>3, <1>4, <1>5, <1>6, <1>7, <1>8 DEF Serve, Me

LEMMA WorldRefines ==
  ASSUME BaseInv, NEW r \in Requests, World(r)
  PROVE  Life!Next
<1>1. CASE Approve(r)
  <2>1. /\ Rows[r] = "PENDING" /\ Overs' = Overs
        /\ Rows' = [Rows EXCEPT ![r] = "APPROVED"] /\ live' = live
    BY <1>1, RowMoves, StoredAs DEF Approve, Statuses
  <2>2. Life!Approve(r)
    BY <2>1, SeenAs DEF Life!Approve
  <2> QED
    BY <2>2 DEF Life!Next
<1>2. CASE Expire(r)
  <2>1. \A q \in Requests :
          /\ request'[q].status = request[q].status
          /\ q = r => request'[q].over = TRUE
          /\ q # r => request'[q].over = request[q].over
    BY <1>2 DEF Expire, BaseInv, LoginRequest
  <2>2. Overs' = [Overs EXCEPT ![r] = TRUE]
    BY <2>1, Zenon DEF Overs
  <2>3. Rows' = Rows /\ live' = live
    BY <1>2, <2>1 DEF Rows, Expire
  <2>4. ~Overs[r]
    BY <1>2, Zenon DEF Overs, Expire
  <2>5. Rows[r] # "UNUSED"
    BY <1>2 DEF Rows, Expire, BaseInv, LoginRequest, Stored
  <2>6. Life!TimePasses(r)
    BY <2>2, <2>3, <2>4, <2>5, SeenAs
  <2> QED
    BY <2>6 DEF Life!Next
<1>3. CASE EndSession(r)
  <2>1. Life!EndSession(r)
    BY <1>3, SameRows DEF EndSession, Life!EndSession, Rows, Overs
  <2> QED
    BY <2>1 DEF Life!Next
<1> QED
  BY <1>1, <1>2, <1>3 DEF World

\* auth.service.ts:80-124, 239-421: whatever the pages send, give up, send again or
\* hear too late, their calls do to the requests and sessions only what the handlers,
\* interleaved statement by statement, are shown to do by DeviceLoginSafetyProofs.
THEOREM PagesUseLoginRequests == Spec => ImplementsLoginRequests
<1>1. Init => Life!Init
  <2> SUFFICES ASSUME Init PROVE Life!Init
    OBVIOUS
  <2>1. Rows = [r \in Requests |-> "UNUSED"] /\ live = {}
    BY DEF Init, Rows, Stored
  <2>2. \A r \in Requests : request[r].over = FALSE
    BY DEF Init
  <2>3. Overs = [r \in Requests |-> FALSE]
    BY <2>2, Zenon DEF Overs
  <2> QED
    BY <2>1, <2>3 DEF Life!Init, Rows, Overs
<1>2. BaseInv /\ [Next]_vars => [Life!Next]_(Life!vars)
  <2> SUFFICES ASSUME BaseInv, [Next]_vars PROVE [Life!Next]_(Life!vars)
    OBVIOUS
  <2>1. CASE UNCHANGED <<request, live>>
    BY <2>1 DEF Life!vars
  <2>2. ASSUME NEW c \in calls, Drop(c) \/ HearOf(c)
        PROVE  UNCHANGED <<request, live>>
    BY <2>2 DEF Drop, HearOf, Hear, HearMe, HearStart, HearRestart, HearPoll,
       HearComplete, HearCancel, HearLogout
  <2>3. ASSUME NEW t \in Tabs, Browser(t)
        PROVE  UNCHANGED <<request, live>>
    BY <2>3 DEF Browser, SendPoll, Draw, Renew, ClickCancel, SignOut, Load
  <2> QED
    BY <2>1, <2>2, <2>3, ServeRefines, WorldRefines DEF Next, vars
<1>3. Spec => []BaseInv
  BY InitBase, NextBase, PTL DEF Spec
<1> QED
  BY <1>1, <1>2, <1>3, PTL DEF Spec, ImplementsLoginRequests, Life!Spec
=============================================================================
