------------------------------ MODULE HomePage ------------------------------
(***************************************************************************)
(* The home page, apps/web/app/page.tsx: it finds out who is logged in,    *)
(* shows the player's dashboard and refreshes it whenever the tab is       *)
(* looked at again, at most once a second and one request at a time.       *)
(*                                                                         *)
(* The requests live in an effect that React starts after the page has     *)
(* shown its user as logged in, and cleans up after it has shown him as    *)
(* logged out: each is a step of its own, later than the change of state.  *)
(***************************************************************************)
EXTENDS PortalProxy

CONSTANT Slots   \* places for requests on their way; the code means to use one

VARIABLE home   \* the page's state, or None while the tab shows another page

\* version is that of the data a page shows and an answer brings.
DashStates == {"idle", "loading", "error", "success"}

Home == [auth : {"loading", "guest", "authenticated"},
         dash : [status : DashStates, version : Versions],
         leaving : BOOLEAN,           \* a sign-out is on its way
         effect : BOOLEAN,            \* the refresh effect is active
         inFlight : BOOLEAN,          \* requestInFlight
         recent : BOOLEAN,            \* less than a second since lastRequestedAt
         request : [Slots -> [initial : BOOLEAN,
                              answer : [kind : Answers, version : Versions]]]]

ASSUME NoneIsNoHome == None \notin Home

Says(status) == [status |-> status, version |-> 0]
Answer(kind) == [kind |-> kind, version |-> 0]
Free == [initial |-> FALSE, answer |-> Answer("none")]
FreshHome ==
  [auth |-> "loading", dash |-> Says("idle"), leaving |-> FALSE, effect |-> FALSE,
   inFlight |-> FALSE, recent |-> FALSE, request |-> [s \in Slots |-> Free]]

InUse(s) == home.request[s].answer.kind # "none"
Answered(s) == home.request[s].answer.kind \in {"data", "failed"}

homeOnly == <<session, game>>

-----------------------------------------------------------------------------
HomeAuth ==
  /\ home # None /\ home.auth = "loading"
  /\ \E auth \in AuthAnswers :
       home' = [home EXCEPT !.auth = auth,
                            !.dash = IF auth = "authenticated" THEN Says("loading") ELSE @]
  /\ UNCHANGED homeOnly

\* getPortalDashboard is sent in a place that is free.
Send(s, initial) ==
  /\ ~InUse(s) /\ s = CHOOSE q \in Slots : ~InUse(q)
  /\ home' = [home EXCEPT !.effect = TRUE, !.inFlight = TRUE, !.recent = TRUE,
                          !.dash = IF initial THEN Says("loading") ELSE @,
                          !.request[s] = [initial |-> initial, answer |-> Answer("sent")]]

StartEffect ==
  /\ home # None /\ home.auth = "authenticated" /\ ~home.effect
  /\ \E s \in Slots : Send(s, TRUE)
  /\ UNCHANGED homeOnly

\* Faulty: requestInFlight is not looked at.
RefreshAnyway ==
  /\ home # None /\ home.effect /\ ~home.recent
  /\ \E s \in Slots : Send(s, FALSE)
  /\ UNCHANGED homeOnly

\* The tab becomes visible, gets the focus or is restored from the back-forward cache.
Refresh ==
  /\ home # None /\ home.effect
  /\ ~home.inFlight /\ ~home.recent
  /\ \E s \in Slots : Send(s, FALSE)
  /\ UNCHANGED homeOnly

ServeHome(s) ==
  /\ home # None /\ home.request[s].answer = Answer("sent")
  /\ \E a \in DashboardAnswers : home' = [home EXCEPT !.request[s].answer = a]
  /\ UNCHANGED homeOnly

\* Faulty: a failure is never shown.
HearSilently(s) ==
  LET r == home.request[s]
      shown == IF r.answer.kind = "data"
               THEN [status |-> "success", version |-> r.answer.version] ELSE home.dash
  IN  /\ home # None /\ Answered(s)
      /\ home' = [home EXCEPT !.inFlight = FALSE, !.dash = shown, !.request[s] = Free]
      /\ UNCHANGED homeOnly

\* Faulty: requestInFlight is reset after a success only.
HearSuccessOnly(s) ==
  LET r == home.request[s]
      shown == IF r.answer.kind = "data"
               THEN [status |-> "success", version |-> r.answer.version]
               ELSE IF r.initial THEN Says("error") ELSE home.dash
  IN  /\ home # None /\ Answered(s)
      /\ home' = [home EXCEPT !.inFlight = (r.answer.kind # "data"), !.dash = shown,
                              !.request[s] = Free]
      /\ UNCHANGED homeOnly

\* An answer that is heard while the effect is active is shown; a failure is only
\* when nothing has been shown yet.
HearHome(s) ==
  LET r == home.request[s]
      shown == IF r.answer.kind = "data"
               THEN [status |-> "success", version |-> r.answer.version]
               ELSE IF r.initial THEN Says("error") ELSE home.dash
  IN  /\ home # None /\ Answered(s)
      /\ home' = [home EXCEPT !.inFlight = FALSE, !.dash = shown, !.request[s] = Free]
      /\ UNCHANGED homeOnly

SecondPasses ==
  /\ home # None /\ home.recent
  /\ home' = [home EXCEPT !.recent = FALSE]
  /\ UNCHANGED homeOnly

HomeSignOut ==
  /\ home # None /\ home.auth = "authenticated" /\ ~home.leaving
  /\ home' = [home EXCEPT !.leaving = TRUE]
  /\ UNCHANGED homeOnly

\* A sign-out that fails leaves the page as it is.
HomeSignedOut ==
  /\ home # None /\ home.leaving
  /\ \/ /\ home' = [home EXCEPT !.leaving = FALSE, !.auth = "guest", !.dash = Says("idle")]
        /\ session' = FALSE
     \/ /\ home' = [home EXCEPT !.leaving = FALSE]
        /\ LogoutFails
  /\ UNCHANGED game

\* React runs the effect's cleanup; answers on their way are dropped when they come.
CleanUpEffect ==
  /\ home # None /\ home.effect /\ home.auth # "authenticated"
  /\ home' = [home EXCEPT !.effect = FALSE, !.inFlight = FALSE, !.recent = FALSE,
                          !.request = [s \in Slots |-> Free]]
  /\ UNCHANGED homeOnly

HomeStep ==
  \/ HomeAuth \/ StartEffect \/ Refresh \/ SecondPasses
  \/ HomeSignOut \/ HomeSignedOut \/ CleanUpEffect
  \/ \E s \in Slots : ServeHome(s) \/ HearHome(s)
=============================================================================
