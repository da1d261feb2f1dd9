-------------------------------- MODULE Pages ---------------------------------
(***************************************************************************)
(* The pages of one browser tab: router.js, the views and their sockets.    *)
(*                                                                         *)
(* Every page draws into one element, `screen`.  A page that was left stays *)
(* in memory while a call, a timer or a socket of it does, and its handlers *)
(* go on running; what they draw, they draw over the page that is there.    *)
(***************************************************************************)
EXTENDS Session

VARIABLES
  current,   \* the page the router made last
  page,      \* the pages in memory
  screen,    \* what is drawn: by which page, and the call its button waits for
  returnTo   \* sessionStorage lineless.returnTo

vars == <<session, calls, customer, current, page, screen, returnTo>>
tab == <<current, page, screen, returnTo>>

Protected == {"dashboard", "analytics", "console", "onboarding"}
Live == {"status", "console", "display"}
Overviews == {"dashboard", "analytics"}
Loading == Live \cup Overviews \cup {"landing", "directory", "join"}
Forms == {"login", "signup", "onboarding"}
Views == Loading \cup Forms
Drawn == {"spinner", "content", "form", "error", "failed", "notice", "left",
          "newPassword", "forgot", "code"}
Sockets == {"none", "connecting", "open", "waiting", "closed"}

\* lock: actionLock of the console, leftLocally of the status page, the disabled button
\* of the sign-in form.  stopped: the flag of the socket.  torn: how the page was left,
\* before it had a socket or after.
PageType == [view : Views \cup {"none"}, lock : BOOLEAN, step : 0..4, socket : Sockets,
             stopped : BOOLEAN, torn : {"no", "early", "late"}]
NoPage == [view |-> "none", lock |-> FALSE, step |-> 0, socket |-> "none",
           stopped |-> FALSE, torn |-> "no"]
NewPage(view) == [NoPage EXCEPT !.view = view, !.step = IF view = "onboarding" THEN 1 ELSE 0]
ScreenType == [by : Visits, shows : Drawn, busy : Slots \cup {0}]
Draws(n, what) == [by |-> n, shows |-> what, busy |-> 0]

-------------------------------------------------------------------------------
\* THE ROUTER.

\* render() sends who is not signed in to the form, and the form who is to the dashboard.
RouteFor(view, who) ==
  IF view \in Protected /\ ~ who.has THEN "login"
  ELSE IF view = "login" /\ who.has THEN "dashboard" ELSE view

\* The teardown closes the socket the page has, if it has one yet.
Closed(p) ==
  IF p.socket = "none" THEN p
  ELSE [p EXCEPT !.stopped = TRUE,
                 !.socket = IF @ \in {"connecting", "open"} THEN "closed" ELSE @]
Left(p) ==
  IF p.view \in Live THEN [Closed(p) EXCEPT !.torn = IF p.socket = "none" THEN "early" ELSE "late"]
                     ELSE p

\* Nothing of a page that was left is under way any more.
Inert(n, now) ==
  /\ n # current
  /\ screen.by # n
  /\ page[n].socket \in {"none", "closed"}
  /\ \A s \in Slots : now[s].visit # n

FirstDrawing(view) == IF view \in Loading THEN "spinner" ELSE "form"

FirstFetch(n, view, who) == Request(n, "load", view \in Protected, who)
Remembered(target, view, before) ==
  IF target \in Protected /\ view = "login" THEN target ELSE before

\* navigate(path): the page there is torn down, the new one is made and, if it loads,
\* asks; `who` is the session by then, `now` the calls that
\* remain and `before` the page to return to.
Navigates(target, who, now, before) ==
  LET view == RouteFor(target, who)
      free == { n \in Visits : n # current /\ (page[n].view = "none" \/ Inert(n, now)) }
      slots == { s \in Slots : now[s].phase = "free" }
  IN  \E n \in free :
        /\ \A m \in free : n <= m
        /\ current' = n
        /\ page' = [m \in Visits |->
                      IF m = n THEN NewPage(view)
                      ELSE IF m = current THEN Left(page[m])
                      ELSE IF Inert(m, now) THEN NoPage ELSE page[m]]
        /\ screen' = Draws(n, FirstDrawing(view))
        /\ returnTo' = Remembered(target, view, before)
        /\ IF view \in Loading
             THEN \E s \in slots :
                    /\ \A r \in slots : s <= r
                    /\ calls' = [now EXCEPT ![s] = FirstFetch(n, view, who)]
             ELSE calls' = now

\* A link, or the browser's back and forward.
FollowsLink(view) ==
  /\ Navigates(view, session, calls, returnTo)
  /\ UNCHANGED <<session, customer>>
SignsOut ==
  /\ session.has
  /\ page[current].view # "display"
  /\ session' = NoSession
  /\ Navigates("landing", NoSession, calls, returnTo)
  /\ UNCHANGED customer

\* The document is loaded again: only the two storages remain.
Reloads(target) ==
  LET view == RouteFor(target, session)
  IN  /\ current' = 1
      /\ page' = [n \in Visits |-> IF n = 1 THEN NewPage(view) ELSE NoPage]
      /\ screen' = Draws(1, FirstDrawing(view))
      /\ returnTo' = Remembered(target, view, returnTo)
      /\ calls' = [s \in Slots |->
                     IF s = 1 /\ view \in Loading THEN FirstFetch(1, view, session) ELSE NoCall]

-------------------------------------------------------------------------------
\* HELPERS OF THE HANDLERS.  The handler of the call in slot s runs for page By(s).

By(s) == calls[s].visit
Gets(s, view, kind) == Arrives(s) /\ page[By(s)].view = view /\ calls[s].kind = kind
Result(s) == calls[s].result
Keep == UNCHANGED <<session, customer, current, returnTo>>
PageTo(n, p) == page' = [page EXCEPT ![n] = p]

\* A button of what is drawn, by the page that drew it.
Clicks(view, what) ==
  /\ page[screen.by].view = view
  /\ screen.shows = what
  /\ screen.busy = 0
\* The button waits for the call that its handler makes.
Submits(kind, needs) ==
  /\ Sends(screen.by, kind, needs)
  /\ \E s \in FreeSlots : (\A r \in FreeSlots : s <= r) /\ screen' = [screen EXCEPT !.busy = s]
\* The button is enabled again, if it is still the one that is drawn.
Enables(s) == screen' = IF screen.busy = s THEN [screen EXCEPT !.busy = 0] ELSE screen

-------------------------------------------------------------------------------
\* A PAGE THAT LOADS: the first fetch draws the page, and a live one connects.

Connected(p) == [p EXCEPT !.socket = "connecting", !.stopped = FALSE]
\* A queue that is closed or paused has a notice in place of the form.
LoadSuccess(view) == IF view = "join" THEN {"form", "notice"} ELSE {"content"}
\* The landing page does without the directory.
LoadFailure(view) ==
  CASE view = "status" -> "error" [] view = "display" -> "notice"
    [] view = "landing" -> "content" [] OTHER -> "failed"

\* A variant that has something to draw for a missing session only.
DrawsWhenGone(n, view, outcome) ==
  IF outcome = "gone" THEN Draws(n, LoadFailure(view)) ELSE screen
DrawsFailure(n, view, outcome) == Draws(n, LoadFailure(view))
Loaded(s) ==
  LET n == By(s) view == page[n].view
  IN  /\ Gets(s, view, "load")
      /\ view \in Loading \ Overviews
      /\ \/ /\ Result(s) = "ok"
            /\ \E what \in LoadSuccess(view) : screen' = Draws(n, what)
            /\ PageTo(n, IF view \in Live THEN Connected(page[n]) ELSE page[n])
         \/ /\ Result(s) # "ok"
            /\ screen' = DrawsFailure(n, view, Result(s))
            /\ UNCHANGED page
      /\ Ends(s)
      /\ Keep

\* The dashboard and the analytics make two calls, the second for an organisation if
\* there is one; refused, the dashboard loads the document of the form.
ToSignIn(s) == Result(s) = "refused" /\ page[By(s)].view = "dashboard"
OverviewLoaded(s) ==
  LET n == By(s)
  IN  /\ Arrives(s)
      /\ page[n].view \in Overviews
      /\ \/ /\ Result(s) = "ok"
            /\ UNCHANGED <<page, current, returnTo>>
            /\ \/ calls[s].kind = "load" /\ Continues(s, "queues") /\ UNCHANGED screen
               \/ Ends(s) /\ screen' = Draws(n, "content")
         \/ ToSignIn(s) /\ Reloads("login")
         \/ /\ Result(s) # "ok" /\ ~ ToSignIn(s)
            /\ screen' = Draws(n, "failed")
            /\ Ends(s)
            /\ UNCHANGED <<page, current, returnTo>>
      /\ UNCHANGED <<session, customer>>

\* 'Try again' of the status page loads once more; of the others, the document.
TriesAgain ==
  /\ screen.shows = "error"
  /\ screen' = Draws(screen.by, "spinner")
  /\ Sends(screen.by, "load", FALSE)
  /\ UNCHANGED page
  /\ Keep
TriesDocument ==
  /\ screen.shows = "failed"
  /\ Reloads(page[current].view)
  /\ UNCHANGED <<session, customer>>

-------------------------------------------------------------------------------
\* SOCKETS (ws.js).

SocketTo(n, state) == PageTo(n, [page[n] EXCEPT !.socket = state])
Opens(n) ==
  /\ page[n].socket = "connecting"
  /\ SocketTo(n, "open")
  /\ UNCHANGED <<screen, calls>> /\ Keep
\* A close the page did not ask for is followed by a timer.
Drops(n) ==
  /\ page[n].socket \in {"connecting", "open"}
  /\ SocketTo(n, "waiting")
  /\ UNCHANGED <<screen, calls>> /\ Keep
\* A variant of connect() that does not look at the flag.
ConnectsAgain(p) == "connecting"
\* connect(): nothing after close().
Connects(p) == IF p.stopped THEN "closed" ELSE "connecting"
TimerFires(n) ==
  /\ page[n].socket = "waiting"
  /\ SocketTo(n, Connects(page[n]))
  /\ UNCHANGED <<screen, calls>> /\ Keep

\* A message asks for the state again; the status page not after its own leave.
Message(n) ==
  /\ page[n].socket = "open"
  /\ page[n].view = "status" => ~ page[n].lock
  /\ Sends(n, "refresh", page[n].view \in Protected)
  /\ UNCHANGED <<page, screen>> /\ Keep

\* Display and console keep what they show when a refresh fails.
BoardRefreshed(s) ==
  /\ \E view \in {"display", "console"} : Gets(s, view, "refresh")
  /\ screen' = IF Result(s) = "ok" THEN Draws(By(s), "content") ELSE screen
  /\ Ends(s)
  /\ UNCHANGED page /\ Keep

-------------------------------------------------------------------------------
\* THE STATUS PAGE.

\* The session's end closes the socket; it is an error unless the customer left.
StatusRefreshed(s) ==
  LET n == By(s)
  IN  /\ Gets(s, "status", "refresh")
      /\ \/ /\ Result(s) = "ok"
            /\ screen' = Draws(n, "content")
            /\ UNCHANGED page
         \/ /\ Result(s) = "gone"
            /\ PageTo(n, Closed(page[n]))
            /\ screen' = IF page[n].lock THEN screen ELSE Draws(n, "error")
         \/ Result(s) \notin {"ok", "gone"} /\ UNCHANGED <<page, screen>>
      /\ Ends(s)
      /\ Keep

LeaveClicked ==
  /\ Clicks("status", "content")
  /\ Submits("leave", FALSE)
  /\ PageTo(screen.by, [page[screen.by] EXCEPT !.lock = TRUE])
  /\ Keep

\* A variant that confirms whatever the answer is.
Confirmed(s) == TRUE
LeaveSucceeded(s) == Result(s) = "ok"
LeaveAnswered(s) ==
  LET n == By(s)
  IN  /\ Gets(s, "status", "leave")
      /\ \/ /\ LeaveSucceeded(s)
            /\ PageTo(n, Closed(page[n]))
            /\ screen' = Draws(n, "left")
         \/ /\ ~ LeaveSucceeded(s)
            /\ PageTo(n, [page[n] EXCEPT !.lock = FALSE])
            /\ Enables(s)
      /\ Ends(s)
      /\ Keep

-------------------------------------------------------------------------------
\* THE CONSOLE.  The lock is taken before the call and given back after the state was
\* read again, or the operation failed.

\* A variant without the lock.
Unlocked(p) == TRUE
MayAct(p) == ~ p.lock
ActClicked ==
  LET n == screen.by
  IN  /\ Clicks("console", "content")
      /\ MayAct(page[n])
      /\ Sends(n, "act", TRUE)
      /\ PageTo(n, [page[n] EXCEPT !.lock = TRUE])
      /\ UNCHANGED screen /\ Keep
ActAnswered(s) ==
  LET n == By(s)
  IN  /\ Gets(s, "console", "act")
      /\ \/ Result(s) \in {"ok", "stale"} /\ Continues(s, "reread") /\ UNCHANGED page
         \/ /\ Result(s) \notin {"ok", "stale"}
            /\ PageTo(n, [page[n] EXCEPT !.lock = FALSE])
            /\ Ends(s)
      /\ UNCHANGED screen /\ Keep
Reread(s) ==
  LET n == By(s)
  IN  /\ Gets(s, "console", "reread")
      /\ screen' = IF Result(s) = "ok" THEN Draws(n, "content") ELSE screen
      /\ PageTo(n, [page[n] EXCEPT !.lock = FALSE])
      /\ Ends(s)
      /\ Keep

-------------------------------------------------------------------------------
\* THE JOIN FORM.

JoinClicked ==
  /\ Clicks("join", "form")
  /\ Submits("join", FALSE)
  /\ UNCHANGED page /\ Keep
\* The new session's page is opened wherever the tab is by now; a queue that closed is
\* fetched again.
JoinAnswered(s) ==
  LET n == By(s)
  IN  /\ Gets(s, "join", "join")
      /\ UNCHANGED <<session, customer>>
      /\ \/ Result(s) = "ok" /\ Navigates("status", session, [calls EXCEPT ![s] = NoCall], returnTo)
         \/ /\ Result(s) = "closed"
            /\ Continues(s, "load")
            /\ screen' = Draws(n, "spinner")
            /\ UNCHANGED <<page, current, returnTo>>
         \/ /\ Result(s) \notin {"ok", "closed"}
            /\ Enables(s)
            /\ Ends(s)
            /\ UNCHANGED <<page, current, returnTo>>

-------------------------------------------------------------------------------
\* SIGNING IN.  The sign-in form keeps one button, so that it is the page that
\* remembers whether it is disabled; the other forms make theirs anew.

SignInClicked ==
  LET n == screen.by
  IN  /\ Clicks("login", "form")
      /\ ~ page[n].lock
      /\ Sends(n, "signIn", FALSE)
      /\ PageTo(n, [page[n] EXCEPT !.lock = TRUE])
      /\ UNCHANGED screen /\ Keep

\* What navigate() goes to after a sign-in.
Destination == IF returnTo = "none" THEN "dashboard" ELSE returnTo
SignInAnswered(s) ==
  LET n == By(s) rest == [calls EXCEPT ![s] = NoCall]
      who == IF Result(s) = "ok" THEN SignedIn ELSE session
  IN  /\ Gets(s, "login", "signIn")
      /\ session' = who
      /\ UNCHANGED customer
      /\ \/ Result(s) \in {"ok", "unknown"} /\ Navigates(Destination, who, rest, "none")
         \/ /\ Result(s) = "challenge"
            /\ screen' = Draws(n, "newPassword")
            /\ Ends(s) /\ UNCHANGED <<page, current, returnTo>>
         \/ /\ Result(s) \notin {"ok", "unknown", "challenge"}
            /\ PageTo(n, [page[n] EXCEPT !.lock = FALSE])
            /\ Ends(s) /\ UNCHANGED <<screen, current, returnTo>>

\* The other steps of the form: the new password, the forgotten one and its code.  A new
\* password that is answered by another challenge stores no session, and the page goes to
\* the dashboard all the same.
StepKind(what) ==
  CASE what = "newPassword" -> "newPassword" [] what = "forgot" -> "forgot" [] OTHER -> "reset"
SecretClicked ==
  \E what \in {"newPassword", "forgot", "code"} :
    /\ Clicks("login", what)
    /\ Submits(StepKind(what), FALSE)
    /\ UNCHANGED page /\ Keep
SecretAnswered(s) ==
  LET n == By(s)
      who == IF Result(s) = "ok" THEN SignedIn ELSE session
  IN  /\ \E kind \in {"newPassword", "forgot", "reset"} : Gets(s, "login", kind)
      /\ UNCHANGED customer
      /\ \/ /\ Result(s) \in {"ok", "challenge"} /\ calls[s].kind = "newPassword"
            /\ session' = who
            /\ Navigates("dashboard", who, [calls EXCEPT ![s] = NoCall], returnTo)
         \/ /\ Result(s) = "ok" /\ calls[s].kind # "newPassword"
            /\ screen' = Draws(n, IF calls[s].kind = "forgot" THEN "code" ELSE "form")
            /\ Ends(s) /\ UNCHANGED <<session, page, current, returnTo>>
         \/ /\ Result(s) \notin {"ok", "challenge"}
            /\ Enables(s)
            /\ Ends(s) /\ UNCHANGED <<session, page, current, returnTo>>
\* 'Forgot password?', 'Use a different email' and 'Back to sign in'.
TurnsTo ==
  /\ page[screen.by].view = "login"
  /\ \E step \in {<<"form", "forgot">>, <<"code", "forgot">>, <<"forgot", "form">>} :
       /\ screen.shows = step[1]
       /\ screen' = Draws(screen.by, step[2])
  /\ UNCHANGED <<calls, page>> /\ Keep

-------------------------------------------------------------------------------
\* SIGNING UP, and the four steps of setting up an organisation.

FormClicked ==
  \E view \in {"signup", "onboarding"} :
    /\ Clicks(view, "form")
    /\ Submits(IF view = "onboarding" THEN "step"
               ELSE IF page[screen.by].step = 0 THEN "signUp" ELSE "confirm",
               view = "onboarding")
    /\ UNCHANGED page /\ Keep

\* The account first, then its code; the sign-in that follows may fail unnoticed.
SignUpAnswered(s) ==
  LET n == By(s) rest == [calls EXCEPT ![s] = NoCall]
      who == IF Result(s) = "ok" THEN SignedIn ELSE session
  IN  /\ \E kind \in {"signUp", "confirm", "signIn"} : Gets(s, "signup", kind)
      /\ UNCHANGED customer
      /\ \/ /\ calls[s].kind = "signIn"
            /\ session' = who
            /\ Navigates("onboarding", who, rest, returnTo)
         \/ /\ calls[s].kind = "confirm" /\ Result(s) = "ok"
            /\ Continues(s, "signIn")
            /\ UNCHANGED <<session, page, screen, current, returnTo>>
         \/ /\ calls[s].kind = "signUp" /\ Result(s) = "ok"
            /\ PageTo(n, [page[n] EXCEPT !.step = 1])
            /\ Enables(s)
            /\ Ends(s) /\ UNCHANGED <<session, current, returnTo>>
         \/ /\ calls[s].kind # "signIn" /\ Result(s) # "ok"
            /\ Enables(s)
            /\ Ends(s) /\ UNCHANGED <<session, page, current, returnTo>>

\* The organisation is published in a call of its own, whose failure is passed over.
OnboardingAnswered(s) ==
  LET n == By(s) p == page[n]
      done == Result(s) = "ok" \/ calls[s].kind = "publish"
  IN  /\ \E kind \in {"step", "publish"} : Gets(s, "onboarding", kind)
      /\ UNCHANGED <<session, customer>>
      /\ \/ /\ done /\ p.step = 1 /\ calls[s].kind = "step"
            /\ Continues(s, "publish")
            /\ UNCHANGED <<page, screen, current, returnTo>>
         \/ /\ done /\ p.step < 4 /\ (p.step = 1 => calls[s].kind = "publish")
            /\ PageTo(n, [p EXCEPT !.step = @ + 1])
            /\ screen' = Draws(n, "form")
            /\ Ends(s) /\ UNCHANGED <<current, returnTo>>
         \/ done /\ p.step = 4 /\ Navigates("console", session, [calls EXCEPT ![s] = NoCall], returnTo)
         \/ /\ ~ done
            /\ Enables(s)
            /\ Ends(s) /\ UNCHANGED <<page, current, returnTo>>

-------------------------------------------------------------------------------
\* The document is opened at any page, by somebody signed in or not.
Init ==
  /\ session \in {NoSession, SignedIn}
  /\ customer \in {[state |-> st, index |-> st] : st \in {"none", "waiting"}}
  /\ returnTo = "none"
  /\ current = 1
  /\ \E target \in Views :
       LET view == RouteFor(target, session)
       IN  /\ page = [n \in Visits |-> IF n = 1 THEN NewPage(view) ELSE NoPage]
           /\ screen = Draws(1, FirstDrawing(view))
           /\ calls = [s \in Slots |->
                         IF s = 1 /\ view \in Loading THEN FirstFetch(1, view, session) ELSE NoCall]

\* What the person does.
UserStep ==
  \/ \E view \in Views : FollowsLink(view)
  \/ SignsOut \/ TriesAgain \/ TriesDocument
  \/ LeaveClicked \/ ActClicked \/ JoinClicked
  \/ SignInClicked \/ SecretClicked \/ TurnsTo \/ FormClicked

\* The handler of an answer.
Handles(s) ==
  \/ Loaded(s) \/ OverviewLoaded(s) \/ BoardRefreshed(s)
  \/ StatusRefreshed(s) \/ LeaveAnswered(s)
  \/ ActAnswered(s) \/ Reread(s) \/ JoinAnswered(s)
  \/ SignInAnswered(s) \/ SecretAnswered(s) \/ SignUpAnswered(s) \/ OnboardingAnswered(s)

SocketStep(n) == Opens(n) \/ Drops(n) \/ TimerFires(n) \/ Message(n)
Services(s) == ServiceStep(s, page[By(s)].view) /\ UNCHANGED tab

Next ==
  \/ UserStep
  \/ \E s \in Slots : Services(s) \/ Handles(s)
  \/ \E n \in Visits : SocketStep(n)
  \/ WorldStep /\ UNCHANGED tab

Spec == Init /\ [][Next]_vars

-------------------------------------------------------------------------------
\* PROPERTIES

\* Pages, screen and calls have the shape the code gives them.
TypeOK ==
  /\ session \in Sessions
  /\ calls \in [Slots -> CallType]
  /\ customer \in [state : CustomerStates, index : CustomerStates]
  /\ current \in Visits
  /\ page \in [Visits -> PageType]
  /\ screen \in ScreenType
  /\ returnTo \in Protected \cup {"none"}

\* console.js: the lock is held exactly while an operation, or the read after it, is
\* under way, so that two clicks never overlap and no failure leaves the buttons dead.
ActsOf(n) == { s \in Slots : calls[s].visit = n /\ calls[s].kind \in {"act", "reread"} }
LockIsAnOperation ==
  \A n \in Visits : page[n].view = "console" =>
    /\ Cardinality(ActsOf(n)) <= 1
    /\ page[n].lock <=> ActsOf(n) # {}

\* api.js: the one silent retry never makes the service do twice what was asked once.
DoneAtMostOnce == \A s \in Slots : calls[s].done <= 1

\* ws.js and the teardowns: a page that was left after it had connected never opens a
\* connection again, also when the timer of a reconnect was running.
LeftPagesAreSilent ==
  \A n \in Visits :
    page[n].torn = "late" => page[n].socket \notin {"connecting", "open"}

\* status.js: 'You left the queue' is shown only to who is not in the queue any more.
ConfirmedMeansGone == screen.shows = "left" => customer.state # "waiting"

\* No page is left with its spinner: whoever shows one has its first fetch under way.
SpinnersAreLoading ==
  screen.shows = "spinner" =>
    \E s \in Slots : calls[s].visit = screen.by /\ calls[s].kind \in {"load", "queues"}
===============================================================================
