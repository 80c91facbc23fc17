----------------------------- MODULE PortalProxy -----------------------------
(***************************************************************************)
(* What the pages of the web app share on the API's side: the session      *)
(* behind the browser's cookie, and GET /api/portal/dashboard, which asks  *)
(* the game bot for the player of that session.  Its only caller bypasses  *)
(* the service's cache, so an answer is what the bot said when asked.      *)
(***************************************************************************)
EXTENDS Naturals

CONSTANTS
  MaxGame,   \* bound on how often the player's game data changes
  None       \* no page, or nothing chosen

ASSUME MaxGameIsNat == MaxGame \in Nat

VARIABLES
  session,   \* the browser's cookie names a live session
  game       \* the bot: the version of the player's data

Versions == 0..MaxGame

\* The states of a call for the dashboard; data comes with its version.
Answers == {"none", "sent", "failed", "data"}

\* What a request for the dashboard is answered: only a live session gets data, and
\* the bot may be down, slow, not configured, or not know the player.
Failed == [kind |-> "failed", version |-> 0]
DashboardAnswers ==
  IF session THEN {[kind |-> "data", version |-> game], Failed} ELSE {Failed}

\* What getCurrentAuth finds; the page takes a failed call for no session.
AuthAnswers == IF session THEN {"authenticated", "guest"} ELSE {"guest"}

\* What POST /logout does to the session: its answer may be lost, or it may not
\* have arrived.
LogoutFails == session' \in {session, FALSE}

-----------------------------------------------------------------------------
(* The environment: the player plays, and logs in and out in other tabs; a *)
(* session expires.                                                        *)

Play ==
  /\ game < MaxGame
  /\ game' = game + 1
  /\ UNCHANGED session

OtherTab ==
  /\ session' = ~session
  /\ UNCHANGED game
=============================================================================
