------------------------------- MODULE Session --------------------------------
(***************************************************************************)
(* One browser tab's requests and the sign-in they carry: the stored tokens *)
(* of frontend/assets/js/auth.js and the calls of api.js, which refreshes   *)
(* them once when the service refuses a call.                              *)
(*                                                                         *)
(* JavaScript runs one handler at a time up to its next await, so that an   *)
(* action is what one handler does between two of them.  A call outlives    *)
(* the page that made it; Pages says what its answer does.                 *)
(***************************************************************************)
EXTENDS Integers, FiniteSets

CONSTANTS
  Visits,  \* model bound: pages, the current one and those left with work to finish
  Slots    \* model bound: calls under way at the same time

ASSUME VisitsAssumption == 1 \in Visits /\ Visits \subseteq Nat \ {0}
ASSUME SlotsAssumption == 1 \in Slots /\ Slots \subseteq Nat \ {0}

VARIABLES
  session,   \* what localStorage holds: tokens, whether they are fresh, a refresh token
  calls,     \* the calls under way
  customer   \* the customer's entry as the table has it, and as the token index has it

sessionVars == <<session, calls, customer>>

Sessions == [has : BOOLEAN, fresh : BOOLEAN, refresh : BOOLEAN]
NoSession == [has |-> FALSE, fresh |-> FALSE, refresh |-> FALSE]
SignedIn == [has |-> TRUE, fresh |-> TRUE, refresh |-> TRUE]
\* writeSession after a refresh: Cognito answers without a refresh token, so the
\* stored one is gone.
Refreshed == [SignedIn EXCEPT !.refresh = FALSE]

CustomerStates == {"none", "waiting", "over"}
Phases == {"free", "sent", "answered", "refreshing"}
CognitoKinds == {"signIn", "newPassword", "forgot", "reset", "signUp", "confirm"}
ApiKinds ==
  {"load", "queues", "refresh", "reread", "act", "leave", "join", "step", "publish"}
Outcomes == {"none", "ok", "refused", "gone", "stale", "closed", "challenge", "unknown", "error"}
CallType ==
  [visit : Visits \cup {0}, kind : ApiKinds \cup CognitoKinds \cup {"none"}, phase : Phases,
   needs : BOOLEAN, token : BOOLEAN, retry : BOOLEAN, result : Outcomes, done : Nat]
NoCall == [visit |-> 0, kind |-> "none", phase |-> "free", needs |-> FALSE,
           token |-> FALSE, retry |-> FALSE, result |-> "none", done |-> 0]

-------------------------------------------------------------------------------
\* Tokens the client takes for expired, 60 s early, are not sent.
TokenOf(who) == who.has /\ who.fresh

\* The clock reaches the last minute of the stored token.
Lapse ==
  /\ TokenOf(session)
  /\ session' = [session EXCEPT !.fresh = FALSE]
  /\ UNCHANGED <<calls, customer>>

\* fetch, from page n; an Authorization header goes along when `who` has a token.
Request(n, kind, needs, who) ==
  [NoCall EXCEPT !.visit = n, !.kind = kind, !.phase = "sent", !.needs = needs,
                 !.token = TokenOf(who), !.retry = TRUE]
FreeSlots == { s \in Slots : calls[s].phase = "free" }
Sends(n, kind, needs) ==
  \E s \in FreeSlots :
    /\ \A r \in FreeSlots : s <= r
    /\ calls' = [calls EXCEPT ![s] = Request(n, kind, needs, session)]
\* The next call of the handler whose call in slot s was answered.
Continues(s, kind) ==
  calls' = [calls EXCEPT ![s] = Request(calls[s].visit, kind, calls[s].needs, session)]
Ends(s) == calls' = [calls EXCEPT ![s] = NoCall]

-------------------------------------------------------------------------------
\* THE SERVICES, as far as a page can tell their answers apart.

Answered(s, outcome, times) ==
  calls' = [calls EXCEPT ![s] = [@ EXCEPT !.phase = "answered", !.result = outcome,
                                          !.done = calls[s].done + times]]

\* A protected route refuses a call without a token, and may refuse the one it got.
Refuse(s) ==
  /\ calls[s].phase = "sent"
  /\ calls[s].needs
  /\ Answered(s, "refused", 0)
  /\ UNCHANGED <<session, customer>>

\* What is left to a route that lets the call in; a lost answer is an "error" too.
Possible(kind) ==
  CASE kind \in {"refresh", "reread", "load", "queues"} -> {"ok", "error"}
    [] kind = "act" -> {"ok", "stale", "error"}
    [] kind = "join" -> {"ok", "closed", "error"}
    [] kind = "signIn" -> {"ok", "challenge", "unknown", "error"}
    [] kind = "newPassword" -> {"ok", "challenge", "error"}
    [] OTHER -> {"ok", "error"}

Changes(kind) == kind \in {"act", "leave", "join", "step", "publish"}

\* A customer's own session is read, and left, by way of the index.
OfCustomer(c, view) == view = "status" /\ c.kind \in {"load", "refresh", "leave"}

Serve(s, view) ==
  LET c == calls[s]
  IN  /\ c.phase = "sent"
      /\ c.needs => c.token
      /\ UNCHANGED session
      /\ \/ /\ OfCustomer(c, view) /\ customer.index # "waiting"
            /\ Answered(s, "gone", 0)
            /\ UNCHANGED customer
         \/ /\ OfCustomer(c, view) => customer.index = "waiting"
            /\ c.kind = "leave" => customer.state = "waiting"
            /\ \E outcome \in Possible(c.kind) :
                 Answered(s, outcome, IF Changes(c.kind) /\ outcome \in {"ok", "error"} THEN 1 ELSE 0)
            /\ customer' = CASE c.kind = "leave" -> [customer EXCEPT !.state = "over"]
                             [] c.kind = "join" /\ customer.state = "none" ->
                                  [customer EXCEPT !.state = "waiting"]
                             [] OTHER -> customer

\* The call does not arrive, or is refused for what it asks.
Fail(s) ==
  /\ calls[s].phase = "sent"
  /\ Answered(s, "error", 0)
  /\ UNCHANGED <<session, customer>>

\* Staff serve the customer; the index follows the table.
Served ==
  /\ customer.state = "waiting"
  /\ customer' = [customer EXCEPT !.state = "over"]
  /\ UNCHANGED <<session, calls>>
IndexFollows ==
  /\ customer.index # customer.state
  /\ customer' = [customer EXCEPT !.index = customer.state]
  /\ UNCHANGED <<session, calls>>

-------------------------------------------------------------------------------
\* ONE SILENT REFRESH.

\* A variant that tries again after every failure.
AnyFailure(c) == c.retry /\ c.result \in {"refused", "error"}
\* A 401 to a call that carried a token and is not itself the second attempt.
Expired(c) == c.retry /\ c.token /\ c.result = "refused"
\* refreshSession reads the tokens again, and gives up at once without a refresh token.
CanRefresh(c) == Expired(c) /\ session.has /\ session.refresh

BeginRefresh(s) ==
  /\ calls[s].phase = "answered"
  /\ CanRefresh(calls[s])
  /\ calls' = [calls EXCEPT ![s].phase = "refreshing"]
  /\ UNCHANGED <<session, customer>>

\* The new tokens are stored whatever happened to the old ones meanwhile; after a
\* failure the tab is signed out, and the page gets the refusal.
Refresh(s) ==
  /\ calls[s].phase = "refreshing"
  /\ \/ /\ session' = Refreshed
        /\ calls' = [calls EXCEPT ![s] = [@ EXCEPT !.phase = "sent", !.result = "none",
                                                   !.token = TRUE, !.retry = FALSE]]
     \/ /\ session' = NoSession
        /\ calls' = [calls EXCEPT ![s] = [@ EXCEPT !.phase = "answered", !.retry = FALSE]]
  /\ UNCHANGED customer

\* The answer reaches the handler that waits for it.
Arrives(s) == calls[s].phase = "answered" /\ ~ CanRefresh(calls[s])

\* What the services, the clock and the staff do.
ServiceStep(s, view) == Refuse(s) \/ Serve(s, view) \/ Fail(s) \/ BeginRefresh(s) \/ Refresh(s)
WorldStep == Lapse \/ Served \/ IndexFollows
===============================================================================
