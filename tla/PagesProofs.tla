----------------------------- MODULE PagesProofs -------------------------------
(***************************************************************************)
(* What the pages keep for any number of pages in memory and of calls under *)
(* way.  Whatever a handler, a click or a socket does to the calls, each of *)
(* them stays as it is, ends, or is made anew (Tame); only the services      *)
(* change a call and leave it under way.                                   *)
(***************************************************************************)
EXTENDS Pages, FiniteSetTheorems, TLAPS

-------------------------------------------------------------------------------
\* THE INVARIANT

\* A call under way is some page's; it is done once at most, and not before it was let in.
CallOK(c) ==
  /\ c.phase = "free" => c.kind = "none" /\ c.visit = 0
  /\ c.phase # "free" => c.visit \in Visits
  /\ c.done <= 1
  /\ c.phase # "answered" => c.done = 0
  /\ c.result = "refused" => c.done = 0
GoodCalls == { c \in CallType : CallOK(c) }
CallsInv == calls \in [Slots -> GoodCalls]

\* Who is told to have left has left, and so will be who is about to be told.
LeaveInv ==
  /\ \A s \in Slots : calls[s].kind = "leave" /\ calls[s].result = "ok" => customer.state = "over"
  /\ screen.shows = "left" => customer.state = "over"

PInv == TypeOK /\ CallsInv /\ LeaveInv /\ SpinnersAreLoading

-------------------------------------------------------------------------------
\* ONE CALL

Kinds == ApiKinds \cup CognitoKinds
Fresh ==
  { c \in CallType : c.visit \in Visits /\ c.phase = "sent" /\ c.done = 0 /\ c.result = "none" }

LEMMA SessionsType == {NoSession, SignedIn, Refreshed} \subseteq Sessions
<1>1. NoSession \in Sessions
  BY DEF NoSession, Sessions
<1>2. SignedIn \in Sessions
  BY DEF SignedIn, Sessions
<1>3. ASSUME NEW who \in Sessions
      PROVE  [who EXCEPT !.refresh = FALSE] \in Sessions
  BY DEF Sessions
<1>4. Refreshed \in Sessions
  BY <1>2, <1>3 DEF Refreshed
<1>. QED
  BY <1>1, <1>2, <1>4

LEMMA NoCallIsGood == NoCall \in GoodCalls
BY DEF NoCall, CallType, Phases, Outcomes, GoodCalls, CallOK

LEMMA FreshIsGood == Fresh \subseteq GoodCalls
BY DEF Fresh, GoodCalls, CallOK

LEMMA RequestIsFresh ==
  ASSUME NEW n \in Visits, NEW kind \in Kinds, NEW needs \in BOOLEAN, NEW who \in Sessions
  PROVE  /\ Request(n, kind, needs, who) \in Fresh
         /\ Request(n, kind, needs, who).kind = kind /\ Request(n, kind, needs, who).visit = n
<1>1. ASSUME NEW token \in BOOLEAN
      PROVE  LET c == [NoCall EXCEPT !.visit = n, !.kind = kind, !.phase = "sent", !.needs = needs,
                                     !.token = token, !.retry = TRUE]
             IN  /\ c \in CallType /\ c.visit = n /\ c.kind = kind
                 /\ c.phase = "sent" /\ c.done = 0 /\ c.result = "none"
  BY DEF NoCall, CallType, Phases, Outcomes, Kinds
<1>2. TokenOf(who) \in BOOLEAN
  BY DEF TokenOf, Sessions
<1>. QED
  BY <1>1, <1>2 DEF Request, Fresh

\* What a handler, a click or a socket may do to the call in slot q.
Tame(q) == calls'[q] = calls[q] \/ calls'[q] \in Fresh \cup {NoCall}
TameCalls == calls' = [q \in Slots |-> calls'[q]] /\ \A q \in Slots : Tame(q)

LEMMA TameIsGood ==
  ASSUME CallsInv, TameCalls
  PROVE  CallsInv' /\ calls' \in [Slots -> CallType]
<1>1. \A q \in Slots : calls'[q] \in GoodCalls
  BY NoCallIsGood, FreshIsGood DEF CallsInv, TameCalls, Tame
<1>2. GoodCalls \subseteq CallType
  BY DEF GoodCalls
<1>. QED
  BY <1>1, <1>2 DEF CallsInv, TameCalls

LEMMA SameIsTame ==
  ASSUME CallsInv, UNCHANGED calls
  PROVE  TameCalls
BY DEF CallsInv, TameCalls, Tame

LEMMA EndsIsTame ==
  ASSUME CallsInv, NEW s \in Slots, Ends(s)
  PROVE  TameCalls /\ \A q \in Slots : q # s => calls'[q] = calls[q]
BY DEF CallsInv, TameCalls, Tame, Ends

LEMMA SendsIsTame ==
  ASSUME TypeOK, CallsInv, NEW n \in Visits, NEW kind \in Kinds, NEW needs \in BOOLEAN,
         Sends(n, kind, needs)
  PROVE  /\ TameCalls
         /\ \E s \in Slots : calls'[s].kind = kind /\ calls'[s].visit = n
         /\ \A q \in Slots : calls[q].kind # "none" => calls'[q] = calls[q]
<1>1. PICK s \in FreeSlots : calls' = [calls EXCEPT ![s] = Request(n, kind, needs, session)]
  BY DEF Sends
<1>2. s \in Slots /\ calls[s].kind = "none"
  BY DEF FreeSlots, CallsInv, GoodCalls, CallOK
<1>3. Request(n, kind, needs, session) \in Fresh /\ Request(n, kind, needs, session).kind = kind
      /\ Request(n, kind, needs, session).visit = n
  BY RequestIsFresh DEF TypeOK
<1>. QED
  BY <1>1, <1>2, <1>3 DEF CallsInv, TameCalls, Tame

LEMMA ContinuesIsTame ==
  ASSUME TypeOK, CallsInv, NEW s \in Slots, calls[s].phase = "answered", NEW kind \in Kinds,
         Continues(s, kind)
  PROVE  /\ TameCalls
         /\ calls'[s].kind = kind /\ calls'[s].visit = calls[s].visit
         /\ \A q \in Slots : q # s => calls'[q] = calls[q]
<1>1. calls[s].visit \in Visits /\ calls[s].needs \in BOOLEAN /\ session \in Sessions
  BY DEF TypeOK, CallsInv, GoodCalls, CallOK, CallType
<1>. DEFINE c == Request(calls[s].visit, kind, calls[s].needs, session)
<1>2. c \in Fresh /\ c.kind = kind /\ c.visit = calls[s].visit
  BY <1>1, RequestIsFresh
<1>3. calls' = [calls EXCEPT ![s] = c]
  BY DEF Continues
<1>. HIDE DEF c
<1>. QED
  BY <1>2, <1>3 DEF CallsInv, TameCalls, Tame

\* Whose call is answered is a page in memory.
LEMMA OwnerType ==
  ASSUME TypeOK, CallsInv, NEW s \in Slots, calls[s].phase = "answered"
  PROVE  By(s) \in Visits /\ page[By(s)] \in PageType
BY DEF TypeOK, CallsInv, GoodCalls, CallOK, By

\* Whoever loads goes on loading where the calls of the kind stay.
Loads(c, n) == c.visit = n /\ c.kind \in {"load", "queues"}
LEMMA StillLoading ==
  ASSUME SpinnersAreLoading, screen'.shows = "spinner" => screen.shows = "spinner",
         screen'.shows = "spinner" => screen'.by = screen.by,
         \A q \in Slots : Loads(calls[q], screen.by) => Loads(calls'[q], screen.by)
  PROVE  SpinnersAreLoading'
BY DEF SpinnersAreLoading, Loads

LEMMA DrawnIsNoSpinner ==
  ASSUME screen'.shows # "spinner"
  PROVE  SpinnersAreLoading'
BY DEF SpinnersAreLoading

-------------------------------------------------------------------------------
\* PAGES, SCREEN AND ROUTER

TabType ==
  /\ current \in Visits
  /\ page \in [Visits -> PageType]
  /\ screen \in ScreenType
  /\ returnTo \in Protected \cup {"none"}

\* A step of the tab; the services and the customer wait.
LocalStep ==
  /\ TabType' /\ TameCalls
  /\ session' \in Sessions /\ UNCHANGED customer
  /\ SpinnersAreLoading'
  /\ screen'.shows = "left" => customer.state = "over"

LEMMA LocalKeeps ==
  ASSUME PInv, LocalStep
  PROVE  PInv'
<1>1. CallsInv' /\ calls' \in [Slots -> CallType]
  BY TameIsGood DEF PInv, LocalStep
<1>2. TypeOK'
  BY <1>1 DEF PInv, LocalStep, TypeOK, TabType
<1>3. LeaveInv'
  <2>1. ASSUME NEW s \in Slots, calls'[s].kind = "leave", calls'[s].result = "ok"
        PROVE  customer'.state = "over"
    <3>1. calls'[s] = calls[s]
      BY <2>1 DEF LocalStep, TameCalls, Tame, Fresh, NoCall
    <3>. QED
      BY <2>1, <3>1 DEF PInv, LeaveInv, LocalStep
  <2>. QED
    BY <2>1 DEF LeaveInv, LocalStep
<1>. QED
  BY <1>1, <1>2, <1>3 DEF PInv, LocalStep

LEMMA NoPageType == NoPage \in PageType
BY DEF NoPage, PageType, Sockets

LEMMA NewPageType ==
  ASSUME NEW view \in Views \cup {"none"}
  PROVE  NewPage(view) \in PageType
<1>1. ASSUME NEW p \in PageType, NEW step \in 0..4
      PROVE  [p EXCEPT !.view = view, !.step = step] \in PageType
  BY DEF PageType
<1>2. (IF view = "onboarding" THEN 1 ELSE 0) \in 0..4
  OBVIOUS
<1>. QED
  BY <1>1, <1>2, NoPageType DEF NewPage

LEMMA ClosedType ==
  ASSUME NEW p \in PageType
  PROVE  Closed(p) \in PageType /\ Left(p) \in PageType
<1>1. Closed(p) \in PageType
  BY DEF Closed, PageType, Sockets
<1>. QED
  BY <1>1 DEF Left, PageType

LEMMA RouteType ==
  ASSUME NEW target \in Views \cup {"none"}, NEW who \in Sessions
  PROVE  RouteFor(target, who) \in Views \cup {"none"}
BY DEF RouteFor, Views, Loading, Forms, Overviews, Live

LEMMA DrawsType ==
  ASSUME NEW n \in Visits, NEW what \in Drawn
  PROVE  /\ Draws(n, what) \in ScreenType
         /\ Draws(n, what).shows = what /\ Draws(n, what).by = n
BY DEF Draws, ScreenType

LEMMA FirstDrawingType ==
  ASSUME NEW view
  PROVE  /\ FirstDrawing(view) \in Drawn \ {"left"}
         /\ FirstDrawing(view) = "spinner" => view \in Loading
BY DEF FirstDrawing, Drawn

LEMMA FirstFetchIsFresh ==
  ASSUME NEW n \in Visits, NEW view, NEW who \in Sessions
  PROVE  FirstFetch(n, view, who) \in Fresh /\ Loads(FirstFetch(n, view, who), n)
<1>1. "load" \in Kinds
  BY DEF Kinds, ApiKinds
<1>2. ASSUME NEW needs \in BOOLEAN
      PROVE  /\ Request(n, "load", needs, who) \in Fresh
             /\ Loads(Request(n, "load", needs, who), n)
  BY <1>1, RequestIsFresh DEF Loads
<1>3. (view \in Protected) \in BOOLEAN
  OBVIOUS
<1>. QED
  BY <1>2, <1>3 DEF FirstFetch

\* navigate: the page that is made draws, and fetches if it shows a spinner.
LEMMA NavigatesKeeps ==
  ASSUME TypeOK, CallsInv, NEW target \in Views, NEW who \in Sessions, NEW now,
         now \in [Slots -> GoodCalls], \A q \in Slots : now[q] \in {calls[q], NoCall},
         NEW before \in Protected \cup {"none"}, Navigates(target, who, now, before)
  PROVE  TabType' /\ TameCalls /\ SpinnersAreLoading' /\ screen'.shows # "left"
<1>. DEFINE view == RouteFor(target, who)
<1>1. view \in Views \cup {"none"}
  BY RouteType
<1>2. PICK n \in Visits :
        /\ current' = n
        /\ page' = [m \in Visits |->
                      IF m = n THEN NewPage(view)
                      ELSE IF m = current THEN Left(page[m])
                      ELSE IF Inert(m, now) THEN NoPage ELSE page[m]]
        /\ screen' = Draws(n, FirstDrawing(view))
        /\ returnTo' = Remembered(target, view, before)
        /\ IF view \in Loading
             THEN \E s \in Slots : calls' = [now EXCEPT ![s] = FirstFetch(n, view, who)]
             ELSE calls' = now
  BY DEF Navigates
<1>3. returnTo' \in Protected \cup {"none"}
  BY <1>2 DEF Remembered
<1>4. /\ screen' \in ScreenType /\ screen'.by = n /\ screen'.shows # "left"
      /\ screen'.shows = "spinner" => view \in Loading
  BY <1>2, DrawsType, FirstDrawingType
<1>5. page' \in [Visits -> PageType]
  BY <1>1, <1>2, NewPageType, NoPageType, ClosedType DEF TypeOK
<1>6. TabType'
  BY <1>2, <1>3, <1>4, <1>5 DEF TabType
<1>7. CASE view \in Loading
  <2>1. PICK s \in Slots : calls' = [now EXCEPT ![s] = FirstFetch(n, view, who)]
    BY <1>2, <1>7
  <2>2. FirstFetch(n, view, who) \in Fresh /\ Loads(FirstFetch(n, view, who), n)
    BY FirstFetchIsFresh
  <2>3. TameCalls
    BY <2>1, <2>2 DEF TameCalls, Tame
  <2>4. SpinnersAreLoading'
    BY <1>4, <2>1, <2>2 DEF SpinnersAreLoading, Loads
  <2>. QED
    BY <1>4, <1>6, <2>3, <2>4
<1>8. CASE view \notin Loading
  <2>1. TameCalls
    BY <1>2, <1>8 DEF TameCalls, Tame
  <2>. QED
    BY <1>4, <1>6, <1>8, <2>1, DrawnIsNoSpinner
<1>. QED
  BY <1>7, <1>8

\* The document loaded again: only the new page's fetch is under way.
LEMMA ReloadsKeeps ==
  ASSUME TypeOK, NEW target \in Views \cup {"none"}, Reloads(target)
  PROVE  TabType' /\ TameCalls /\ SpinnersAreLoading' /\ screen'.shows # "left"
<1>. DEFINE view == RouteFor(target, session)
<1>1. view \in Views \cup {"none"} /\ session \in Sessions
  BY RouteType DEF TypeOK
<1>2. 1 \in Visits /\ 1 \in Slots
  BY VisitsAssumption, SlotsAssumption
<1>3. returnTo' \in Protected \cup {"none"}
  BY DEF Reloads, Remembered, TypeOK
<1>4. /\ screen' \in ScreenType /\ screen'.by = 1 /\ screen'.shows # "left"
      /\ screen'.shows = "spinner" => view \in Loading
  BY <1>2, DrawsType, FirstDrawingType DEF Reloads
<1>5. page' \in [Visits -> PageType]
  BY <1>1, NewPageType, NoPageType DEF Reloads
<1>6. TabType'
  BY <1>2, <1>3, <1>4, <1>5 DEF TabType, Reloads
<1>7. FirstFetch(1, view, session) \in Fresh /\ Loads(FirstFetch(1, view, session), 1)
  BY <1>1, <1>2, FirstFetchIsFresh
<1>8. calls' = [s \in Slots |->
                  IF s = 1 /\ view \in Loading THEN FirstFetch(1, view, session) ELSE NoCall]
  BY DEF Reloads
<1>9. TameCalls
  BY <1>7, <1>8 DEF TameCalls, Tame
<1>10. SpinnersAreLoading'
  BY <1>2, <1>4, <1>7, <1>8 DEF SpinnersAreLoading, Loads
<1>. QED
  BY <1>4, <1>6, <1>9, <1>10

-------------------------------------------------------------------------------
\* WHAT THE PERSON DOES

LEMMA LinksKeep ==
  ASSUME PInv, NEW view \in Views, FollowsLink(view)
  PROVE  LocalStep
<1>1. session \in Sessions /\ returnTo \in Protected \cup {"none"} /\ calls \in [Slots -> GoodCalls]
  BY DEF PInv, TypeOK, CallsInv
<1>. QED
  BY <1>1, NavigatesKeeps DEF FollowsLink, LocalStep, PInv

LEMMA SignsOutKeeps ==
  ASSUME PInv, SignsOut
  PROVE  LocalStep
<1>1. NoSession \in Sessions /\ returnTo \in Protected \cup {"none"}
      /\ calls \in [Slots -> GoodCalls] /\ "landing" \in Views
  BY SessionsType DEF PInv, TypeOK, CallsInv, Views, Loading
<1>. QED
  BY <1>1, NavigatesKeeps DEF SignsOut, LocalStep, PInv

LEMMA TriesDocumentKeeps ==
  ASSUME PInv, TriesDocument
  PROVE  LocalStep
<1>1. page[current].view \in Views \cup {"none"} /\ session \in Sessions
  BY DEF PInv, TypeOK, PageType
<1>. QED
  BY <1>1, ReloadsKeeps DEF TriesDocument, LocalStep, PInv

LEMMA TriesAgainKeeps ==
  ASSUME PInv, TriesAgain
  PROVE  LocalStep
<1>1. screen.by \in Visits /\ "load" \in Kinds /\ "spinner" \in Drawn
  BY DEF PInv, TypeOK, ScreenType, Kinds, ApiKinds, Drawn
<1>2. /\ screen' \in ScreenType /\ screen'.shows = "spinner" /\ screen'.by = screen.by
  BY <1>1, DrawsType DEF TriesAgain
<1>3. TameCalls /\ \E s \in Slots : calls'[s].kind = "load" /\ calls'[s].visit = screen.by
  BY <1>1, SendsIsTame DEF TriesAgain, PInv
<1>4. SpinnersAreLoading'
  BY <1>2, <1>3 DEF SpinnersAreLoading
<1>. QED
  BY <1>2, <1>3, <1>4 DEF TriesAgain, Keep, LocalStep, TabType, PInv, TypeOK

\* A click that sends a call leaves what is drawn, but for its button.
LEMMA ClickKeeps ==
  ASSUME PInv, NEW kind \in Kinds, NEW needs \in BOOLEAN, Sends(screen.by, kind, needs),
         screen' \in ScreenType, screen'.by = screen.by, screen'.shows = screen.shows,
         page' \in [Visits -> PageType], Keep
  PROVE  LocalStep
<1>1. screen.by \in Visits
  BY DEF PInv, TypeOK, ScreenType
<1>2. TameCalls /\ \A q \in Slots : calls[q].kind # "none" => calls'[q] = calls[q]
  BY <1>1, SendsIsTame DEF PInv
<1>3. SpinnersAreLoading'
  BY <1>2 DEF PInv, SpinnersAreLoading
<1>. QED
  BY <1>2, <1>3 DEF Keep, LocalStep, TabType, PInv, TypeOK, LeaveInv

LEMMA SubmitsKeeps ==
  ASSUME PInv, NEW kind \in Kinds, NEW needs \in BOOLEAN, Submits(kind, needs),
         page' \in [Visits -> PageType], Keep
  PROVE  LocalStep
<1>1. PICK s \in Slots : screen' = [screen EXCEPT !.busy = s]
  BY DEF Submits, FreeSlots
<1>2. screen' \in ScreenType /\ screen'.by = screen.by /\ screen'.shows = screen.shows
  BY <1>1 DEF PInv, TypeOK, ScreenType
<1>. QED
  BY <1>2, ClickKeeps DEF Submits

LEMMA LocksType ==
  ASSUME PInv, NEW n \in Visits, NEW b \in BOOLEAN, PageTo(n, [page[n] EXCEPT !.lock = b])
  PROVE  page' \in [Visits -> PageType]
<1>1. [page[n] EXCEPT !.lock = b] \in PageType
  BY DEF PInv, TypeOK, PageType
<1>. QED
  BY <1>1 DEF PInv, TypeOK, PageTo

LEMMA ClicksKeep ==
  ASSUME PInv, LeaveClicked \/ ActClicked \/ JoinClicked \/ SignInClicked \/ SecretClicked
               \/ TurnsTo \/ FormClicked
  PROVE  LocalStep
<1>1. screen.by \in Visits /\ screen \in ScreenType /\ page \in [Visits -> PageType]
  BY DEF PInv, TypeOK, ScreenType
<1>2. {"leave", "act", "join", "signIn", "newPassword", "forgot", "reset", "signUp",
       "confirm", "step"} \subseteq Kinds
  BY DEF Kinds, ApiKinds, CognitoKinds
<1>3. CASE LeaveClicked
  BY <1>1, <1>2, <1>3, LocksType, SubmitsKeeps DEF LeaveClicked
<1>4. CASE ActClicked
  <2>1. page' \in [Visits -> PageType]
    BY <1>1, <1>4, LocksType DEF ActClicked
  <2>. QED
    BY <1>1, <1>2, <1>4, <2>1, ClickKeeps DEF ActClicked
<1>5. CASE JoinClicked
  BY <1>1, <1>2, <1>5, SubmitsKeeps DEF JoinClicked
<1>6. CASE SignInClicked
  <2>1. page' \in [Visits -> PageType]
    BY <1>1, <1>6, LocksType DEF SignInClicked
  <2>. QED
    BY <1>1, <1>2, <1>6, <2>1, ClickKeeps DEF SignInClicked
<1>7. CASE SecretClicked
  <2>1. PICK what \in {"newPassword", "forgot", "code"} : Submits(StepKind(what), FALSE)
    BY <1>7 DEF SecretClicked
  <2>2. StepKind(what) \in Kinds
    BY <1>2 DEF StepKind
  <2>. QED
    BY <1>1, <1>7, <2>1, <2>2, SubmitsKeeps DEF SecretClicked
<1>8. CASE TurnsTo
  <2>1. screen' \in ScreenType /\ screen'.shows \in {"forgot", "form"}
    BY <1>1, <1>8, DrawsType DEF TurnsTo, Drawn
  <2>2. TameCalls
    BY <1>8, SameIsTame DEF TurnsTo, PInv
  <2>3. SpinnersAreLoading'
    BY <2>1, DrawnIsNoSpinner
  <2>. QED
    BY <1>8, <2>1, <2>2, <2>3 DEF TurnsTo, Keep, LocalStep, TabType, PInv, TypeOK
<1>9. CASE FormClicked
  <2>1. PICK view \in {"signup", "onboarding"} :
          Submits(IF view = "onboarding" THEN "step"
                  ELSE IF page[screen.by].step = 0 THEN "signUp" ELSE "confirm",
                  view = "onboarding")
    BY <1>9 DEF FormClicked
  <2>2. \E kind \in Kinds, needs \in BOOLEAN : Submits(kind, needs)
    BY <1>2, <2>1
  <2>. QED
    BY <1>1, <1>9, <2>2, SubmitsKeeps DEF FormClicked
<1>. QED
  BY <1>3, <1>4, <1>5, <1>6, <1>7, <1>8, <1>9

LEMMA UserKeeps ==
  ASSUME PInv, UserStep
  PROVE  PInv'
BY LinksKeep, SignsOutKeeps, TriesDocumentKeeps, TriesAgainKeeps, ClicksKeep, LocalKeeps
   DEF UserStep

-------------------------------------------------------------------------------
\* SOCKETS

LEMMA SocketsKeep ==
  ASSUME PInv, NEW n \in Visits, SocketStep(n)
  PROVE  PInv'
<1>1. page[n] \in PageType /\ page \in [Visits -> PageType] /\ CallsInv
  BY DEF PInv, TypeOK
<1>2. ASSUME NEW state \in Sockets, SocketTo(n, state), UNCHANGED <<screen, calls>>, Keep
      PROVE  LocalStep
  <2>1. [page[n] EXCEPT !.socket = state] \in PageType
    BY <1>1, <1>2 DEF PageType
  <2>2. page' \in [Visits -> PageType]
    BY <1>1, <1>2, <2>1 DEF SocketTo, PageTo
  <2>3. TameCalls
    BY <1>1, <1>2, SameIsTame
  <2>. QED
    BY <1>2, <2>2, <2>3 DEF Keep, LocalStep, TabType, PInv, TypeOK, LeaveInv, SpinnersAreLoading
<1>3. CASE Opens(n) \/ Drops(n)
  BY <1>2, <1>3, LocalKeeps DEF Opens, Drops, Sockets
<1>4. CASE TimerFires(n)
  BY <1>2, <1>4, LocalKeeps DEF TimerFires, Connects, Sockets
<1>5. CASE Message(n)
  <2>1. "refresh" \in Kinds /\ (page[n].view \in Protected) \in BOOLEAN
    BY DEF Kinds, ApiKinds
  <2>2. TameCalls /\ \A q \in Slots : calls[q].kind # "none" => calls'[q] = calls[q]
    BY <1>5, <2>1, SendsIsTame DEF Message, PInv
  <2>3. SpinnersAreLoading'
    BY <1>5, <2>2 DEF Message, PInv, SpinnersAreLoading
  <2>4. LocalStep
    BY <1>5, <2>2, <2>3 DEF Message, Keep, LocalStep, TabType, PInv, TypeOK, LeaveInv
  <2>. QED
    BY <2>4, LocalKeeps
<1>. QED
  BY <1>3, <1>4, <1>5 DEF SocketStep

-------------------------------------------------------------------------------
\* THE HANDLERS OF ANSWERS

\* The call in slot s was answered, and its page goes on.
LEMMA AnswerType ==
  ASSUME PInv, NEW s \in Slots, Arrives(s)
  PROVE  /\ calls[s].phase = "answered" /\ By(s) \in Visits /\ By(s) = calls[s].visit
         /\ page[By(s)] \in PageType /\ page \in [Visits -> PageType]
         /\ screen \in ScreenType /\ session \in Sessions /\ CallsInv
         /\ returnTo \in Protected \cup {"none"}
BY OwnerType DEF Arrives, PInv, TypeOK, By

LEMMA PageToType ==
  ASSUME page \in [Visits -> PageType], NEW n \in Visits, NEW p \in PageType, PageTo(n, p)
  PROVE  page' \in [Visits -> PageType]
BY DEF PageTo

LEMMA UnlocksType ==
  ASSUME NEW p \in PageType
  PROVE  [p EXCEPT !.lock = FALSE] \in PageType
BY DEF PageType

LEMMA EnablesType ==
  ASSUME screen \in ScreenType, NEW s \in Slots, Enables(s)
  PROVE  screen' \in ScreenType /\ screen'.shows = screen.shows /\ screen'.by = screen.by
BY DEF Enables, ScreenType

\* A handler that ends, or goes on with another call, and draws nothing that loads.
LEMMA DrawingKeeps ==
  ASSUME PInv, TameCalls, page' \in [Visits -> PageType], session' \in Sessions,
         screen' \in ScreenType, screen'.shows # "spinner",
         screen'.shows = "left" => customer.state = "over",
         UNCHANGED <<customer, current, returnTo>>
  PROVE  LocalStep
BY DrawnIsNoSpinner DEF LocalStep, TabType, PInv, TypeOK

\* A handler that leaves the drawing, and was not the one a spinner waits for.
LEMMA SilentKeeps ==
  ASSUME PInv, NEW s \in Slots, TameCalls, \A q \in Slots : q # s => calls'[q] = calls[q],
         calls[s].kind \notin {"load", "queues"},
         page' \in [Visits -> PageType], session' \in Sessions,
         screen' \in ScreenType, screen'.shows = screen.shows, screen'.by = screen.by,
         UNCHANGED <<customer, current, returnTo>>
  PROVE  LocalStep
<1>1. SpinnersAreLoading'
  BY DEF PInv, SpinnersAreLoading
<1>. QED
  BY <1>1 DEF LocalStep, TabType, PInv, TypeOK, LeaveInv

LEMMA LoadedKeeps ==
  ASSUME PInv, NEW s \in Slots, Loaded(s)
  PROVE  LocalStep
<1>. DEFINE n == By(s)
            view == page[n].view
<1>1. /\ n \in Visits /\ page[n] \in PageType /\ page \in [Visits -> PageType]
      /\ CallsInv /\ session \in Sessions
  BY AnswerType DEF Loaded, Gets
<1>2. TameCalls
  BY <1>1, EndsIsTame DEF Loaded
<1>3. CASE Result(s) = "ok"
  <2>1. PICK what \in LoadSuccess(view) : screen' = Draws(n, what)
    BY <1>3 DEF Loaded
  <2>2. what \in Drawn \ {"spinner", "left"}
    BY DEF LoadSuccess, Drawn
  <2>3. Connected(page[n]) \in PageType
    BY <1>1 DEF Connected, PageType, Sockets
  <2>4. page' \in [Visits -> PageType]
    BY <1>1, <1>3, <2>3, PageToType DEF Loaded
  <2>. QED
    BY <1>1, <1>2, <2>1, <2>2, <2>4, DrawsType, DrawingKeeps DEF Loaded, Keep
<1>4. CASE Result(s) # "ok"
  <2>1. LoadFailure(view) \in Drawn \ {"spinner", "left"}
    BY DEF LoadFailure, Drawn
  <2>2. screen' = Draws(n, LoadFailure(view)) /\ page' = page
    BY <1>4 DEF Loaded, DrawsFailure
  <2>. QED
    BY <1>1, <1>2, <2>1, <2>2, DrawsType, DrawingKeeps DEF Loaded, Keep
<1>. QED
  BY <1>3, <1>4

LEMMA OverviewLoadedKeeps ==
  ASSUME PInv, NEW s \in Slots, OverviewLoaded(s)
  PROVE  LocalStep
<1>. DEFINE n == By(s)
<1>1. /\ n \in Visits /\ n = calls[s].visit /\ calls[s].phase = "answered"
      /\ page \in [Visits -> PageType] /\ screen \in ScreenType
      /\ CallsInv /\ session \in Sessions
  BY AnswerType DEF OverviewLoaded
<1>2. /\ UNCHANGED <<session, customer>>
      /\ \/ Continues(s, "queues") /\ UNCHANGED <<page, screen, current, returnTo>>
         \/ Reloads("login")
         \/ \E what \in {"content", "failed"} :
              Ends(s) /\ screen' = Draws(n, what) /\ UNCHANGED <<page, current, returnTo>>
  BY DEF OverviewLoaded
<1>3. CASE Continues(s, "queues") /\ UNCHANGED <<page, screen, current, returnTo>>
  <2>1. "queues" \in Kinds
    BY DEF Kinds, ApiKinds
  <2>2. /\ TameCalls /\ calls'[s].kind = "queues" /\ calls'[s].visit = calls[s].visit
        /\ \A q \in Slots : q # s => calls'[q] = calls[q]
    BY <1>1, <1>3, <2>1, ContinuesIsTame DEF PInv
  <2>3. SpinnersAreLoading'
    BY <1>3, <2>2 DEF PInv, SpinnersAreLoading
  <2>. QED
    BY <1>2, <1>3, <2>2, <2>3 DEF LocalStep, TabType, PInv, TypeOK, LeaveInv
<1>4. CASE Reloads("login")
  <2>1. "login" \in Views
    BY DEF Views, Forms
  <2>. QED
    BY <1>1, <1>2, <1>4, <2>1, ReloadsKeeps DEF LocalStep, PInv
<1>5. ASSUME NEW what \in {"content", "failed"},
             Ends(s), screen' = Draws(n, what), UNCHANGED <<page, current, returnTo>>
      PROVE  LocalStep
  <2>1. TameCalls /\ what \in Drawn \ {"spinner", "left"}
    BY <1>1, <1>5, EndsIsTame DEF Drawn
  <2>. QED
    BY <1>1, <1>2, <1>5, <2>1, DrawsType, DrawingKeeps
<1>. QED
  BY <1>2, <1>3, <1>4, <1>5

LEMMA BoardRefreshedKeeps ==
  ASSUME PInv, NEW s \in Slots, BoardRefreshed(s)
  PROVE  LocalStep
<1>1. /\ By(s) \in Visits /\ page \in [Visits -> PageType] /\ screen \in ScreenType
      /\ CallsInv /\ session \in Sessions /\ calls[s].kind = "refresh"
  BY AnswerType DEF BoardRefreshed, Gets
<1>2. TameCalls /\ \A q \in Slots : q # s => calls'[q] = calls[q]
  BY <1>1, EndsIsTame DEF BoardRefreshed
<1>3. CASE screen' = screen
  BY <1>1, <1>2, <1>3, SilentKeeps DEF BoardRefreshed, Keep
<1>4. CASE screen' = Draws(By(s), "content")
  <2>1. "content" \in Drawn
    BY DEF Drawn
  <2>. QED
    BY <1>1, <1>2, <1>4, <2>1, DrawsType, DrawingKeeps DEF BoardRefreshed, Keep
<1>. QED
  BY <1>3, <1>4 DEF BoardRefreshed

LEMMA StatusRefreshedKeeps ==
  ASSUME PInv, NEW s \in Slots, StatusRefreshed(s)
  PROVE  LocalStep
<1>. DEFINE n == By(s)
<1>1. /\ n \in Visits /\ page[n] \in PageType /\ page \in [Visits -> PageType]
      /\ screen \in ScreenType
      /\ CallsInv /\ session \in Sessions /\ calls[s].kind = "refresh"
  BY AnswerType DEF StatusRefreshed, Gets
<1>2. TameCalls /\ \A q \in Slots : q # s => calls'[q] = calls[q]
  BY <1>1, EndsIsTame DEF StatusRefreshed
<1>3. page' \in [Visits -> PageType]
  BY <1>1, ClosedType, PageToType DEF StatusRefreshed
<1>4. CASE screen' = screen
  BY <1>1, <1>2, <1>3, <1>4, SilentKeeps DEF StatusRefreshed, Keep
<1>5. ASSUME NEW what \in {"content", "error"}, screen' = Draws(n, what)
      PROVE  LocalStep
  <2>1. what \in Drawn \ {"spinner", "left"}
    BY DEF Drawn
  <2>. QED
    BY <1>1, <1>2, <1>3, <1>5, <2>1, DrawsType, DrawingKeeps DEF StatusRefreshed, Keep
<1>6. \/ screen' = screen
      \/ \E what \in {"content", "error"} : screen' = Draws(n, what)
  BY DEF StatusRefreshed
<1>. QED
  BY <1>4, <1>5, <1>6

LEMMA LeaveAnsweredKeeps ==
  ASSUME PInv, NEW s \in Slots, LeaveAnswered(s)
  PROVE  LocalStep
<1>. DEFINE n == By(s)
<1>1. /\ n \in Visits /\ page[n] \in PageType /\ page \in [Visits -> PageType]
      /\ screen \in ScreenType
      /\ CallsInv /\ session \in Sessions /\ calls[s].kind = "leave"
  BY AnswerType DEF LeaveAnswered, Gets
<1>2. TameCalls /\ \A q \in Slots : q # s => calls'[q] = calls[q]
  BY <1>1, EndsIsTame DEF LeaveAnswered
<1>3. page' \in [Visits -> PageType]
  BY <1>1, ClosedType, UnlocksType, PageToType DEF LeaveAnswered
<1>4. CASE LeaveSucceeded(s)
  <2>1. customer.state = "over"
    BY <1>1, <1>4 DEF LeaveSucceeded, Result, PInv, LeaveInv
  <2>2. "left" \in Drawn
    BY DEF Drawn
  <2>3. screen' \in ScreenType /\ screen'.shows = "left"
    BY <1>1, <1>4, <2>2, DrawsType DEF LeaveAnswered
  <2>. QED
    BY <1>1, <1>2, <1>3, <2>1, <2>3, DrawingKeeps DEF LeaveAnswered, Keep
<1>5. CASE ~ LeaveSucceeded(s)
  <2>1. screen' \in ScreenType /\ screen'.shows = screen.shows /\ screen'.by = screen.by
    BY <1>1, <1>5, EnablesType DEF LeaveAnswered
  <2>. QED
    BY <1>1, <1>2, <1>3, <2>1, SilentKeeps DEF LeaveAnswered, Keep
<1>. QED
  BY <1>4, <1>5

LEMMA ActAnsweredKeeps ==
  ASSUME PInv, NEW s \in Slots, ActAnswered(s)
  PROVE  LocalStep
<1>1. /\ By(s) \in Visits /\ page[By(s)] \in PageType /\ page \in [Visits -> PageType]
      /\ calls[s].phase = "answered" /\ screen \in ScreenType
      /\ CallsInv /\ session \in Sessions /\ calls[s].kind = "act"
  BY AnswerType DEF ActAnswered, Gets
<1>2. TameCalls /\ \A q \in Slots : q # s => calls'[q] = calls[q]
  <2>1. "reread" \in Kinds
    BY DEF Kinds, ApiKinds
  <2>. QED
    BY <1>1, <2>1, EndsIsTame, ContinuesIsTame DEF ActAnswered, PInv
<1>3. page' \in [Visits -> PageType]
  BY <1>1, UnlocksType, PageToType DEF ActAnswered
<1>. QED
  BY <1>1, <1>2, <1>3, SilentKeeps DEF ActAnswered, Keep

LEMMA RereadKeeps ==
  ASSUME PInv, NEW s \in Slots, Reread(s)
  PROVE  LocalStep
<1>1. /\ By(s) \in Visits /\ page[By(s)] \in PageType /\ page \in [Visits -> PageType]
      /\ screen \in ScreenType
      /\ CallsInv /\ session \in Sessions /\ calls[s].kind = "reread"
  BY AnswerType DEF Reread, Gets
<1>2. TameCalls /\ \A q \in Slots : q # s => calls'[q] = calls[q]
  BY <1>1, EndsIsTame DEF Reread
<1>3. page' \in [Visits -> PageType]
  BY <1>1, UnlocksType, PageToType DEF Reread
<1>4. CASE screen' = screen
  BY <1>1, <1>2, <1>3, <1>4, SilentKeeps DEF Reread, Keep
<1>5. CASE screen' = Draws(By(s), "content")
  <2>1. "content" \in Drawn
    BY DEF Drawn
  <2>. QED
    BY <1>1, <1>2, <1>3, <1>5, <2>1, DrawsType, DrawingKeeps DEF Reread, Keep
<1>. QED
  BY <1>4, <1>5 DEF Reread

\* The handlers that go on to another page, wherever the tab is by then.
LEMMA AnswerNavigates ==
  ASSUME PInv, NEW s \in Slots, NEW target \in Views, NEW who \in Sessions,
         NEW before \in Protected \cup {"none"},
         Navigates(target, who, [calls EXCEPT ![s] = NoCall], before),
         session' = who, UNCHANGED customer
  PROVE  LocalStep
<1>. DEFINE rest == [calls EXCEPT ![s] = NoCall]
<1>1. rest \in [Slots -> GoodCalls] /\ \A q \in Slots : rest[q] \in {calls[q], NoCall}
  BY NoCallIsGood DEF PInv, CallsInv
<1>2. TypeOK /\ CallsInv
  BY DEF PInv
<1>3. TabType' /\ TameCalls /\ SpinnersAreLoading' /\ screen'.shows # "left"
  <2>1. Navigates(target, who, rest, before)
    OBVIOUS
  <2>. HIDE DEF rest
  <2>. QED
    BY <1>1, <1>2, <2>1, NavigatesKeeps
<1>. QED
  BY <1>3 DEF LocalStep

LEMMA ViewNames ==
  /\ Protected \subseteq Views
  /\ {"status", "dashboard", "onboarding", "console"} \subseteq Views
BY DEF Protected, Views, Loading, Forms, Live, Overviews

\* The button is enabled again, and nothing else is drawn.
LEMMA EnablesKeeps ==
  ASSUME PInv, NEW s \in Slots, Arrives(s), calls[s].kind \notin {"load", "queues"},
         Enables(s), Ends(s), page' \in [Visits -> PageType], session' \in Sessions,
         UNCHANGED <<customer, current, returnTo>>
  PROVE  LocalStep
<1>1. screen' \in ScreenType /\ screen'.shows = screen.shows /\ screen'.by = screen.by
  BY AnswerType, EnablesType
<1>2. TameCalls /\ \A q \in Slots : q # s => calls'[q] = calls[q]
  BY EndsIsTame DEF PInv
<1>. QED
  BY <1>1, <1>2, SilentKeeps

LEMMA JoinAnsweredKeeps ==
  ASSUME PInv, NEW s \in Slots, JoinAnswered(s)
  PROVE  LocalStep
<1>. DEFINE n == By(s)
<1>1. /\ n \in Visits /\ n = calls[s].visit /\ calls[s].phase = "answered" /\ Arrives(s)
      /\ page \in [Visits -> PageType] /\ calls[s].kind = "join"
      /\ CallsInv /\ session \in Sessions /\ returnTo \in Protected \cup {"none"}
  BY AnswerType DEF JoinAnswered, Gets
<1>2. CASE Result(s) = "ok"
  BY <1>1, <1>2, AnswerNavigates, ViewNames DEF JoinAnswered
<1>3. CASE Result(s) = "closed"
  <2>1. "load" \in Kinds /\ "spinner" \in Drawn
    BY DEF Kinds, ApiKinds, Drawn
  <2>2. TameCalls /\ calls'[s].kind = "load" /\ calls'[s].visit = n
    BY <1>1, <1>3, <2>1, ContinuesIsTame DEF JoinAnswered, PInv
  <2>3. screen' \in ScreenType /\ screen'.shows = "spinner" /\ screen'.by = n
    BY <1>1, <1>3, <2>1, DrawsType DEF JoinAnswered
  <2>4. SpinnersAreLoading'
    BY <2>2, <2>3 DEF SpinnersAreLoading
  <2>. QED
    BY <1>3, <2>2, <2>3, <2>4 DEF JoinAnswered, LocalStep, TabType, PInv, TypeOK
<1>4. CASE Result(s) \notin {"ok", "closed"}
  BY <1>1, <1>4, EnablesKeeps DEF JoinAnswered
<1>. QED
  BY <1>2, <1>3, <1>4

LEMMA SignInAnsweredKeeps ==
  ASSUME PInv, NEW s \in Slots, SignInAnswered(s)
  PROVE  LocalStep
<1>. DEFINE n == By(s)
            who == IF Result(s) = "ok" THEN SignedIn ELSE session
<1>1. /\ n \in Visits /\ page[n] \in PageType /\ page \in [Visits -> PageType]
      /\ screen \in ScreenType /\ CallsInv /\ calls[s].kind = "signIn"
      /\ session \in Sessions /\ returnTo \in Protected \cup {"none"}
  BY AnswerType DEF SignInAnswered, Gets
<1>2. who \in Sessions /\ session' = who
  BY <1>1, SessionsType DEF SignInAnswered
<1>3. CASE Result(s) \in {"ok", "unknown"}
  <2>1. Destination \in Views
    BY <1>1, ViewNames DEF Destination
  <2>. QED
    BY <1>2, <1>3, <2>1, AnswerNavigates DEF SignInAnswered
<1>4. CASE Result(s) = "challenge"
  <2>1. "newPassword" \in Drawn \ {"spinner", "left"}
    BY DEF Drawn
  <2>2. TameCalls
    BY <1>1, <1>4, EndsIsTame DEF SignInAnswered
  <2>. QED
    BY <1>1, <1>2, <1>4, <2>1, <2>2, DrawsType, DrawingKeeps DEF SignInAnswered
<1>5. CASE Result(s) \notin {"ok", "unknown", "challenge"}
  <2>1. page' \in [Visits -> PageType]
    BY <1>1, <1>5, UnlocksType, PageToType DEF SignInAnswered
  <2>2. TameCalls /\ \A q \in Slots : q # s => calls'[q] = calls[q]
    BY <1>1, <1>5, EndsIsTame DEF SignInAnswered
  <2>. QED
    BY <1>1, <1>2, <1>5, <2>1, <2>2, SilentKeeps DEF SignInAnswered
<1>. QED
  BY <1>3, <1>4, <1>5

LEMMA SecretAnsweredKeeps ==
  ASSUME PInv, NEW s \in Slots, SecretAnswered(s)
  PROVE  LocalStep
<1>. DEFINE n == By(s)
            who == IF Result(s) = "ok" THEN SignedIn ELSE session
<1>1. /\ n \in Visits /\ page \in [Visits -> PageType] /\ Arrives(s)
      /\ CallsInv /\ calls[s].kind \notin {"load", "queues"}
      /\ session \in Sessions /\ returnTo \in Protected \cup {"none"}
  BY AnswerType DEF SecretAnswered, Gets
<1>2. CASE Result(s) \in {"ok", "challenge"} /\ calls[s].kind = "newPassword"
  <2>1. who \in Sessions
    BY <1>1, SessionsType
  <2>. QED
    BY <1>1, <1>2, <2>1, AnswerNavigates, ViewNames DEF SecretAnswered
<1>3. CASE Result(s) = "ok" /\ calls[s].kind # "newPassword"
  <2>1. PICK what \in {"code", "form"} : screen' = Draws(n, what)
    BY <1>3 DEF SecretAnswered
  <2>2. what \in Drawn \ {"spinner", "left"}
    BY DEF Drawn
  <2>3. TameCalls
    BY <1>1, <1>3, EndsIsTame DEF SecretAnswered
  <2>. QED
    BY <1>1, <1>3, <2>1, <2>2, <2>3, DrawsType, DrawingKeeps DEF SecretAnswered
<1>4. CASE Result(s) \notin {"ok", "challenge"}
  BY <1>1, <1>4, EnablesKeeps DEF SecretAnswered
<1>. QED
  BY <1>2, <1>3, <1>4 DEF SecretAnswered

LEMMA SignUpAnsweredKeeps ==
  ASSUME PInv, NEW s \in Slots, SignUpAnswered(s)
  PROVE  LocalStep
<1>. DEFINE n == By(s)
            who == IF Result(s) = "ok" THEN SignedIn ELSE session
<1>1. /\ n \in Visits /\ page[n] \in PageType /\ page \in [Visits -> PageType] /\ Arrives(s)
      /\ calls[s].phase = "answered" /\ screen \in ScreenType
      /\ CallsInv /\ calls[s].kind \in {"signUp", "confirm", "signIn"}
      /\ session \in Sessions /\ returnTo \in Protected \cup {"none"}
  BY AnswerType DEF SignUpAnswered, Gets
<1>2. CASE calls[s].kind = "signIn"
  <2>1. who \in Sessions
    BY <1>1, SessionsType
  <2>2. /\ session' = who /\ UNCHANGED customer
        /\ Navigates("onboarding", who, [calls EXCEPT ![s] = NoCall], returnTo)
    BY <1>2 DEF SignUpAnswered
  <2>. QED
    BY <1>1, <2>1, <2>2, AnswerNavigates, ViewNames
<1>3. CASE calls[s].kind = "confirm" /\ Result(s) = "ok"
  <2>1. "signIn" \in Kinds
    BY DEF Kinds, CognitoKinds
  <2>2. TameCalls /\ \A q \in Slots : q # s => calls'[q] = calls[q]
    BY <1>1, <1>3, <2>1, ContinuesIsTame DEF SignUpAnswered, PInv
  <2>. QED
    BY <1>1, <1>3, <2>2, SilentKeeps DEF SignUpAnswered
<1>4. CASE calls[s].kind = "signUp" /\ Result(s) = "ok"
  <2>1. [page[n] EXCEPT !.step = 1] \in PageType
    BY <1>1 DEF PageType
  <2>2. page' \in [Visits -> PageType]
    BY <1>1, <1>4, <2>1, PageToType DEF SignUpAnswered
  <2>. QED
    BY <1>1, <1>4, <2>2, EnablesKeeps DEF SignUpAnswered
<1>5. CASE calls[s].kind # "signIn" /\ Result(s) # "ok"
  BY <1>1, <1>5, EnablesKeeps DEF SignUpAnswered
<1>. QED
  BY <1>1, <1>2, <1>3, <1>4, <1>5

LEMMA OnboardingAnsweredKeeps ==
  ASSUME PInv, NEW s \in Slots, OnboardingAnswered(s)
  PROVE  LocalStep
<1>. DEFINE n == By(s)
            p == page[n]
<1>1. /\ n \in Visits /\ p \in PageType /\ page \in [Visits -> PageType] /\ Arrives(s)
      /\ calls[s].phase = "answered" /\ screen \in ScreenType
      /\ CallsInv /\ calls[s].kind \in {"step", "publish"}
      /\ session \in Sessions /\ returnTo \in Protected \cup {"none"}
  BY AnswerType DEF OnboardingAnswered, Gets
<1>2. /\ UNCHANGED <<session, customer>>
      /\ \/ Continues(s, "publish") /\ UNCHANGED <<page, screen, current, returnTo>>
         \/ /\ p.step < 4 /\ PageTo(n, [p EXCEPT !.step = @ + 1])
            /\ screen' = Draws(n, "form") /\ Ends(s) /\ UNCHANGED <<current, returnTo>>
         \/ Navigates("console", session, [calls EXCEPT ![s] = NoCall], returnTo)
         \/ Enables(s) /\ Ends(s) /\ UNCHANGED <<page, current, returnTo>>
  BY DEF OnboardingAnswered
<1>3. CASE Continues(s, "publish") /\ UNCHANGED <<page, screen, current, returnTo>>
  <2>1. "publish" \in Kinds
    BY DEF Kinds, ApiKinds
  <2>2. TameCalls /\ \A q \in Slots : q # s => calls'[q] = calls[q]
    BY <1>1, <1>3, <2>1, ContinuesIsTame DEF PInv
  <2>. QED
    BY <1>1, <1>2, <1>3, <2>2, SilentKeeps
<1>4. CASE /\ p.step < 4 /\ PageTo(n, [p EXCEPT !.step = @ + 1])
           /\ screen' = Draws(n, "form") /\ Ends(s) /\ UNCHANGED <<current, returnTo>>
  <2>1. [p EXCEPT !.step = @ + 1] \in PageType
    BY <1>1, <1>4 DEF PageType
  <2>2. page' \in [Visits -> PageType]
    BY <1>1, <1>4, <2>1, PageToType
  <2>3. TameCalls /\ "form" \in Drawn \ {"spinner", "left"}
    BY <1>1, <1>4, EndsIsTame DEF Drawn
  <2>. QED
    BY <1>1, <1>2, <1>4, <2>2, <2>3, DrawsType, DrawingKeeps
<1>5. CASE Navigates("console", session, [calls EXCEPT ![s] = NoCall], returnTo)
  BY <1>1, <1>2, <1>5, AnswerNavigates, ViewNames
<1>6. CASE Enables(s) /\ Ends(s) /\ UNCHANGED <<page, current, returnTo>>
  BY <1>1, <1>2, <1>6, EnablesKeeps
<1>. QED
  BY <1>2, <1>3, <1>4, <1>5, <1>6

LEMMA HandlersKeep ==
  ASSUME PInv, NEW s \in Slots, Handles(s)
  PROVE  PInv'
BY LoadedKeeps, OverviewLoadedKeeps, BoardRefreshedKeeps, StatusRefreshedKeeps,
   LeaveAnsweredKeeps, ActAnsweredKeeps, RereadKeeps, JoinAnsweredKeeps, SignInAnsweredKeeps,
   SecretAnsweredKeeps, SignUpAnsweredKeeps, OnboardingAnsweredKeeps, LocalKeeps
   DEF Handles

-------------------------------------------------------------------------------
\* THE SERVICES AND THE WORLD

\* A service changes one call, which stays the call it is, of the page it is of.
LEMMA ServiceKeeps ==
  ASSUME PInv, NEW s \in Slots, NEW c \in GoodCalls, calls' = [calls EXCEPT ![s] = c],
         c.kind = calls[s].kind, c.visit = calls[s].visit, UNCHANGED tab,
         session' \in Sessions, customer' \in [state : CustomerStates, index : CustomerStates],
         customer.state = "over" => customer'.state = "over",
         c.kind = "leave" /\ c.result = "ok" => customer'.state = "over"
  PROVE  PInv'
<1>1. GoodCalls \subseteq CallType
  BY DEF GoodCalls
<1>2. CallsInv' /\ calls' \in [Slots -> CallType]
  BY <1>1 DEF PInv, CallsInv
<1>3. TypeOK'
  BY <1>2 DEF PInv, TypeOK, tab
<1>4. LeaveInv'
  BY DEF PInv, CallsInv, LeaveInv, tab
<1>5. SpinnersAreLoading'
  BY DEF PInv, CallsInv, SpinnersAreLoading, tab
<1>. QED
  BY <1>2, <1>3, <1>4, <1>5 DEF PInv

LEMMA AnsweredIsGood ==
  ASSUME CallsInv, NEW s \in Slots, calls[s].phase = "sent", NEW outcome \in Outcomes,
         NEW times \in {0, 1}, outcome = "refused" => times = 0, Answered(s, outcome, times)
  PROVE  \E c \in GoodCalls : /\ calls' = [calls EXCEPT ![s] = c] /\ c.result = outcome
                             /\ c.kind = calls[s].kind /\ c.visit = calls[s].visit
<1>1. calls[s] \in CallType /\ calls[s].done = 0 /\ calls[s].visit \in Visits
  BY DEF CallsInv, GoodCalls, CallOK
<1>. DEFINE c == [calls[s] EXCEPT !.phase = "answered", !.result = outcome,
                                  !.done = calls[s].done + times]
<1>2. c \in CallType /\ c.phase = "answered" /\ c.result = outcome /\ c.done = times
      /\ c.kind = calls[s].kind /\ c.visit = calls[s].visit
  <2>1. calls[s].done + times \in Nat /\ calls[s].done + times = times
    BY <1>1
  <2>. QED
    BY <1>1, <2>1 DEF CallType, Phases
<1>3. calls' = [calls EXCEPT ![s] = c]
  BY DEF Answered
<1>. HIDE DEF c
<1>4. c \in GoodCalls
  BY <1>1, <1>2 DEF GoodCalls, CallOK
<1>. QED
  BY <1>2, <1>3, <1>4

LEMMA ServeKeeps ==
  ASSUME PInv, NEW s \in Slots, NEW view, Serve(s, view), UNCHANGED tab
  PROVE  PInv'
<1>1. /\ CallsInv /\ session' \in Sessions /\ calls[s].phase = "sent"
      /\ customer \in [state : CustomerStates, index : CustomerStates]
  BY DEF Serve, PInv, TypeOK
<1>2. CASE Answered(s, "gone", 0) /\ UNCHANGED customer
  <2>1. "gone" \in Outcomes
    BY DEF Outcomes
  <2>2. PICK c \in GoodCalls : /\ calls' = [calls EXCEPT ![s] = c] /\ c.result = "gone"
                               /\ c.kind = calls[s].kind /\ c.visit = calls[s].visit
    BY <1>1, <1>2, <2>1, AnsweredIsGood
  <2>. QED
    BY <1>1, <1>2, <2>2, ServiceKeeps
<1>3. ASSUME NEW outcome \in Possible(calls[s].kind), NEW times \in {0, 1},
             Answered(s, outcome, times),
             calls[s].kind = "leave" => customer.state = "waiting",
             customer' = CASE calls[s].kind = "leave" -> [customer EXCEPT !.state = "over"]
                           [] calls[s].kind = "join" /\ customer.state = "none" ->
                                [customer EXCEPT !.state = "waiting"]
                           [] OTHER -> customer
      PROVE  PInv'
  <2>1. outcome \in Outcomes \ {"refused"}
    BY DEF Possible, Outcomes
  <2>2. PICK c \in GoodCalls : /\ calls' = [calls EXCEPT ![s] = c] /\ c.result = outcome
                               /\ c.kind = calls[s].kind /\ c.visit = calls[s].visit
    BY <1>1, <1>3, <2>1, AnsweredIsGood
  <2>3. /\ customer' \in [state : CustomerStates, index : CustomerStates]
        /\ customer.state = "over" => customer'.state = "over"
        /\ c.kind = "leave" => customer'.state = "over"
    BY <1>1, <1>3, <2>2 DEF CustomerStates
  <2>. QED
    BY <1>1, <2>2, <2>3, ServiceKeeps
<1>. QED
  BY <1>2, <1>3 DEF Serve

LEMMA ServicesKeep ==
  ASSUME PInv, NEW s \in Slots, Services(s)
  PROVE  PInv'
<1>1. /\ CallsInv /\ session \in Sessions /\ UNCHANGED tab
      /\ customer \in [state : CustomerStates, index : CustomerStates]
  BY DEF Services, PInv, TypeOK
<1>2. ASSUME NEW outcome \in {"refused", "error"}, calls[s].phase = "sent",
             Answered(s, outcome, 0), UNCHANGED <<session, customer>>
      PROVE  PInv'
  <2>1. outcome \in Outcomes /\ outcome # "ok"
    BY DEF Outcomes
  <2>2. PICK c \in GoodCalls : /\ calls' = [calls EXCEPT ![s] = c] /\ c.result = outcome
                               /\ c.kind = calls[s].kind /\ c.visit = calls[s].visit
    BY <1>1, <1>2, <2>1, AnsweredIsGood
  <2>. QED
    BY <1>1, <1>2, <2>1, <2>2, ServiceKeeps
<1>3. CASE BeginRefresh(s)
  <2>. DEFINE c == [calls[s] EXCEPT !.phase = "refreshing"]
  <2>1. calls[s] \in CallType /\ CallOK(calls[s]) /\ calls[s].result = "refused"
        /\ calls[s].phase = "answered"
    BY <1>1, <1>3 DEF CallsInv, GoodCalls, BeginRefresh, CanRefresh, Expired
  <2>2. c \in CallType /\ c.phase = "refreshing" /\ c.result = "refused"
        /\ c.done = calls[s].done /\ c.kind = calls[s].kind /\ c.visit = calls[s].visit
    BY <2>1 DEF CallType, Phases
  <2>3. calls' = [calls EXCEPT ![s] = c]
    BY <1>1, <1>3 DEF BeginRefresh, CallsInv
  <2>. HIDE DEF c
  <2>4. c \in GoodCalls
    BY <2>1, <2>2 DEF GoodCalls, CallOK
  <2>. QED
    BY <1>1, <1>3, <2>2, <2>3, <2>4, ServiceKeeps DEF BeginRefresh
<1>4. CASE Refresh(s)
  <2>1. calls[s] \in CallType /\ CallOK(calls[s]) /\ calls[s].phase = "refreshing"
    BY <1>1, <1>4 DEF CallsInv, GoodCalls, Refresh
  <2>2. calls[s].done = 0 /\ calls[s].visit \in Visits /\ session' \in Sessions
    BY <1>4, <2>1, SessionsType DEF CallOK, Refresh
  <2>. DEFINE c == [calls[s] EXCEPT !.phase = "sent", !.result = "none", !.token = TRUE,
                                    !.retry = FALSE]
              d == [calls[s] EXCEPT !.phase = "answered", !.retry = FALSE]
  <2>3. c \in GoodCalls /\ c.result = "none" /\ c.kind = calls[s].kind
        /\ c.visit = calls[s].visit
    BY <2>1, <2>2 DEF CallType, Phases, Outcomes, GoodCalls, CallOK
  <2>4. d \in GoodCalls /\ d.kind = calls[s].kind /\ d.visit = calls[s].visit
        /\ d.result = calls[s].result
    BY <2>1, <2>2 DEF CallType, Phases, GoodCalls, CallOK
  <2>5. calls' = [calls EXCEPT ![s] = c] \/ calls' = [calls EXCEPT ![s] = d]
    BY <1>4, <1>1 DEF Refresh, CallsInv
  <2>6. d.kind = "leave" /\ d.result = "ok" => customer.state = "over"
    BY <2>4 DEF PInv, LeaveInv
  <2>7. UNCHANGED customer
    BY <1>4 DEF Refresh
  <2>. HIDE DEF c, d
  <2>. QED
    BY <1>1, <2>2, <2>3, <2>4, <2>5, <2>6, <2>7, ServiceKeeps
<1>5. CASE Refuse(s) \/ Fail(s)
  BY <1>2, <1>5 DEF Refuse, Fail
<1>6. CASE Serve(s, page[By(s)].view)
  BY <1>1, <1>6, ServeKeeps
<1>. QED
  BY <1>3, <1>4, <1>5, <1>6 DEF Services, ServiceStep

LEMMA WorldKeeps ==
  ASSUME PInv, WorldStep, UNCHANGED tab
  PROVE  PInv'
<1>1. /\ session' \in Sessions /\ UNCHANGED calls
      /\ customer' \in [state : CustomerStates, index : CustomerStates]
      /\ customer.state = "over" => customer'.state = "over"
  BY DEF WorldStep, Lapse, Served, IndexFollows, PInv, TypeOK, Sessions, CustomerStates
<1>. QED
  BY <1>1 DEF PInv, TypeOK, CallsInv, LeaveInv, SpinnersAreLoading, tab

-------------------------------------------------------------------------------
\* THE THEOREMS

LEMMA InitKeeps ==
  ASSUME Init
  PROVE  PInv
<1>1. PICK target \in Views :
        /\ page = [n \in Visits |-> IF n = 1 THEN NewPage(RouteFor(target, session)) ELSE NoPage]
        /\ screen = Draws(1, FirstDrawing(RouteFor(target, session)))
        /\ calls = [s \in Slots |->
                      IF s = 1 /\ RouteFor(target, session) \in Loading
                        THEN FirstFetch(1, RouteFor(target, session), session) ELSE NoCall]
  BY DEF Init
<1>. DEFINE view == RouteFor(target, session)
<1>2. session \in Sessions /\ 1 \in Visits /\ 1 \in Slots
  BY VisitsAssumption, SlotsAssumption, SessionsType DEF Init
<1>3. view \in Views \cup {"none"}
  BY <1>2, RouteType
<1>4. /\ screen \in ScreenType /\ screen.by = 1 /\ screen.shows # "left"
      /\ screen.shows = "spinner" => view \in Loading
  BY <1>1, <1>2, DrawsType, FirstDrawingType
<1>5. page \in [Visits -> PageType]
  BY <1>1, <1>3, NewPageType, NoPageType
<1>6. FirstFetch(1, view, session) \in Fresh /\ Loads(FirstFetch(1, view, session), 1)
  BY <1>2, FirstFetchIsFresh
<1>7. \A s \in Slots : calls[s] \in Fresh \cup {NoCall}
  BY <1>1, <1>6
<1>8. CallsInv /\ calls \in [Slots -> CallType]
  BY <1>1, <1>7, NoCallIsGood, FreshIsGood DEF CallsInv, GoodCalls
<1>9. TypeOK
  BY <1>2, <1>4, <1>5, <1>8 DEF TypeOK, Init, CustomerStates
<1>10. LeaveInv
  BY <1>4, <1>7 DEF LeaveInv, Fresh, NoCall
<1>11. SpinnersAreLoading
  BY <1>1, <1>2, <1>4, <1>6 DEF SpinnersAreLoading, Loads
<1>. QED
  BY <1>8, <1>9, <1>10, <1>11 DEF PInv

\* The invariant of the pages and their calls, for any number of both.
THEOREM Invariant == Spec => []PInv
<1>1. PInv /\ [Next]_vars => PInv'
  <2>1. PInv /\ Next => PInv'
    BY UserKeeps, HandlersKeep, SocketsKeep, ServicesKeep, WorldKeeps DEF Next
  <2>2. PInv /\ UNCHANGED vars => PInv'
    BY DEF PInv, TypeOK, CallsInv, LeaveInv, SpinnersAreLoading, vars
  <2>. QED
    BY <2>1, <2>2
<1>. QED
  BY <1>1, InitKeeps, PTL DEF Spec

\* api.js: the service never does twice what was asked once, whatever is refused, is lost
\* or is tried again.
THEOREM DoneOnce == Spec => []DoneAtMostOnce
<1>1. PInv => DoneAtMostOnce
  BY DEF PInv, CallsInv, GoodCalls, CallOK, DoneAtMostOnce
<1>. QED
  BY <1>1, Invariant, PTL

\* status.js: who is told that they left the queue is in it no more.
THEOREM ConfirmedGone == Spec => []ConfirmedMeansGone
<1>1. PInv => ConfirmedMeansGone
  BY DEF PInv, LeaveInv, ConfirmedMeansGone
<1>. QED
  BY <1>1, Invariant, PTL

\* Every spinner has the fetch under way that will replace it.
THEOREM SpinnersLoad == Spec => []SpinnersAreLoading
<1>1. PInv => SpinnersAreLoading
  BY DEF PInv
<1>. QED
  BY <1>1, Invariant, PTL
-------------------------------------------------------------------------------
\* LOCKS AND SOCKETS: WHAT EVERY PAGE KEEPS
\*
\* Of page n: p is its record, cs are the calls, `index` is the customer's entry as the
\* token index has it, and d is what is drawn.

IsCall(c, n, kind) == c.visit = n /\ c.kind = kind
IsAct(c, n) == c.visit = n /\ c.kind \in {"act", "reread"}
ShowsError(n, d) == d.by = n /\ d.shows = "error"

\* A number that no page has is in no call.
Absent(n, p, cs) == p.view = "none" => \A s \in Slots : cs[s].visit # n

\* A page that is not live has no socket, and shows no lost session.
Plain(n, p, d) ==
  p.view \notin Live => p.socket = "none" /\ p.torn # "late" /\ ~ ShowsError(n, d)

\* One operation at a time, and the lock is held for it.
Locked(n, p, cs) ==
  p.view = "console" =>
    /\ \A s, q \in Slots : IsAct(cs[s], n) /\ IsAct(cs[q], n) => s = q
    /\ p.lock <=> \E s \in Slots : IsAct(cs[s], n)

\* The socket of a page that was left is closed, or its timer will find it stopped.
TornDown(p) ==
  p.torn = "late" => p.socket = "closed" \/ (p.socket = "waiting" /\ p.stopped)

\* A live page loads once before it connects.  The status page may load again when the
\* customer's session is over, so that no answer makes it connect a second time.
LoadsOnce(n, p, cs, index, d) ==
  p.view \in Live =>
    /\ p.socket = "none" =>
         /\ \A s, q \in Slots : IsCall(cs[s], n, "load") /\ IsCall(cs[q], n, "load") => s = q
         /\ ShowsError(n, d) => \A s \in Slots : ~ IsCall(cs[s], n, "load")
    /\ p.socket # "none" =>
         \A s \in Slots : IsCall(cs[s], n, "load") =>
           p.view = "status" /\ index = "over" /\ cs[s].result # "ok"

\* Who has the status page connected had a session; it is gone only when it is over.
KnowsSession(n, p, cs, index, d) ==
  /\ p.view = "status" =>
       /\ p.socket # "none" => index # "none"
       /\ \A s \in Slots :
            /\ IsCall(cs[s], n, "load") /\ cs[s].result = "ok" => index # "none"
            /\ IsCall(cs[s], n, "refresh") =>
                 p.socket # "none" /\ (cs[s].result = "gone" => index = "over")
  /\ ShowsError(n, d) => p.view = "status" /\ (p.socket # "none" => index = "over")

PageGood(n, p, cs, index, d) ==
  /\ Absent(n, p, cs) /\ Plain(n, p, d) /\ Locked(n, p, cs) /\ TornDown(p)
  /\ LoadsOnce(n, p, cs, index, d) /\ KnowsSession(n, p, cs, index, d)
PageOK(n) == PageGood(n, page[n], calls, customer.index, screen)

\* The customer's entry only goes on, and the index behind it.
IndexInv ==
  /\ customer.index = "over" => customer.state = "over"
  /\ customer.index = "waiting" => customer.state # "none"

TInv == IndexInv /\ \A n \in Visits : PageOK(n)

LEMMA LiveNames ==
  /\ Live = {"status", "console", "display"} /\ Live \subseteq Loading
  /\ "none" \notin Live /\ "none" \notin Loading
BY DEF Live, Loading, Overviews

LEMMA PlainPage ==
  ASSUME NEW n, NEW p, NEW cs, NEW index, NEW d,
         p.view \notin Live, p.socket = "none", p.torn # "late", ~ ShowsError(n, d), Absent(n, p, cs)
  PROVE  PageGood(n, p, cs, index, d)
BY LiveNames DEF PageGood, Plain, Locked, TornDown, LoadsOnce, KnowsSession

\* A page of which nothing changes, whatever the others do.
LEMMA OtherPage ==
  ASSUME NEW n, NEW p, NEW cs, NEW cs2, NEW index, NEW d, NEW d2,
         PageGood(n, p, cs, index, d),
         \A q \in Slots : cs2[q] = cs[q] \/ (cs[q].visit # n /\ cs2[q].visit # n),
         ShowsError(n, d2) => ShowsError(n, d)
  PROVE  PageGood(n, p, cs2, index, d2)
<1>1. Absent(n, p, cs2) /\ Plain(n, p, d2) /\ TornDown(p)
  BY DEF PageGood, Absent, Plain
<1>2. \A s \in Slots : IsAct(cs2[s], n) <=> IsAct(cs[s], n)
  BY DEF IsAct
<1>3. \A s \in Slots : \A kind : IsCall(cs2[s], n, kind) => cs2[s] = cs[s] /\ IsCall(cs[s], n, kind)
  BY DEF IsCall
<1>4. Locked(n, p, cs2)
  BY <1>2 DEF PageGood, Locked
<1>5. LoadsOnce(n, p, cs2, index, d2)
  BY <1>3 DEF PageGood, LoadsOnce
<1>6. KnowsSession(n, p, cs2, index, d2)
  BY <1>3 DEF PageGood, KnowsSession
<1>. QED
  BY <1>1, <1>4, <1>5, <1>6 DEF PageGood

\* A page that was just made has its first fetch under way, or nothing.
LEMMA NewPageGood ==
  ASSUME NEW n \in Visits, NEW view, NEW cs, NEW index, NEW d, NEW f \in Slots,
         ~ ShowsError(n, d),
         \A q \in Slots : cs[q].visit = n =>
           q = f /\ cs[q].kind = "load" /\ cs[q].result = "none" /\ view \in Loading
  PROVE  PageGood(n, NewPage(view), cs, index, d)
<1>. DEFINE p == NewPage(view)
<1>1. p.view = view /\ p.socket = "none" /\ p.torn = "no" /\ p.lock = FALSE
  BY DEF NewPage, NoPage
<1>. HIDE DEF p
<1>2. Absent(n, p, cs) /\ Plain(n, p, d) /\ TornDown(p)
  BY <1>1, LiveNames DEF Absent, Plain, TornDown
<1>3. Locked(n, p, cs)
  BY <1>1 DEF Locked, IsAct
<1>4. LoadsOnce(n, p, cs, index, d)
  BY <1>1 DEF LoadsOnce, IsCall
<1>5. KnowsSession(n, p, cs, index, d)
  BY <1>1 DEF KnowsSession, IsCall
<1>6. PageGood(n, p, cs, index, d)
  BY <1>2, <1>3, <1>4, <1>5 DEF PageGood
<1>. QED
  BY <1>6 DEF p

LEMMA NoPageGood ==
  ASSUME NEW n \in Visits, NEW cs, NEW index, NEW d, ~ ShowsError(n, d),
         \A q \in Slots : cs[q].visit # n
  PROVE  PageGood(n, NoPage, cs, index, d)
<1>1. NoPage.view \notin Live /\ NoPage.socket = "none" /\ NoPage.torn = "no"
  BY LiveNames DEF NoPage
<1>. QED
  BY <1>1, PlainPage DEF Absent

\* The teardown of a page: its calls go on, its socket does not.
LEMMA LeftPage ==
  ASSUME NEW n, NEW p \in PageType, NEW cs, NEW index, NEW d, NEW d2,
         PageGood(n, p, cs, index, d), ~ ShowsError(n, d2)
  PROVE  PageGood(n, Left(p), cs, index, d2)
<1>1. PageGood(n, p, cs, index, d2)
  BY OtherPage
<1>2. CASE p.view \notin Live
  BY <1>1, <1>2 DEF Left
<1>3. CASE p.view \in Live
  <2>1. /\ Left(p).view = p.view /\ Left(p).lock = p.lock
        /\ Left(p).socket = "none" <=> p.socket = "none"
        /\ TornDown(Left(p))
    BY <1>3 DEF Left, Closed, PageType, Sockets, TornDown
  <2>. HIDE DEF Left
  <2>2. Absent(n, Left(p), cs) /\ Plain(n, Left(p), d2) /\ Locked(n, Left(p), cs)
    BY <1>1, <1>3, <2>1 DEF PageGood, Absent, Plain, Locked
  <2>3. LoadsOnce(n, Left(p), cs, index, d2)
    BY <1>1, <2>1 DEF PageGood, LoadsOnce
  <2>4. KnowsSession(n, Left(p), cs, index, d2)
    BY <1>1, <2>1 DEF PageGood, KnowsSession
  <2>. QED
    BY <2>1, <2>2, <2>3, <2>4 DEF PageGood
<1>. QED
  BY <1>2, <1>3

-------------------------------------------------------------------------------
\* STEPS OF ONE PAGE

\* A call is of page n before and after, or nobody's.
Touches(n) ==
  \A q \in Slots : calls'[q] = calls[q] \/ {calls[q].visit, calls'[q].visit} \subseteq {n, 0}
OnlyPage(n) ==
  /\ \A m \in Visits \ {n} : page'[m] = page[m]
  /\ Touches(n) /\ UNCHANGED customer
  /\ screen'.shows = "error" => screen'.by = n \/ ShowsError(screen'.by, screen)

LEMMA OnePageKeeps ==
  ASSUME TInv, NEW n \in Visits, OnlyPage(n), PageOK(n)'
  PROVE  TInv'
<1>1. IndexInv'
  BY DEF TInv, IndexInv, OnlyPage
<1>2. ASSUME NEW m \in Visits, m # n
      PROVE  PageOK(m)'
  <2>1. /\ page'[m] = page[m] /\ PageGood(m, page[m], calls, customer.index, screen)
        /\ UNCHANGED customer /\ m # 0
    BY <1>2, VisitsAssumption DEF TInv, PageOK, OnlyPage
  <2>2. \A q \in Slots : calls'[q] = calls[q] \/ (calls[q].visit # m /\ calls'[q].visit # m)
    BY <1>2, <2>1 DEF OnlyPage, Touches
  <2>3. ShowsError(m, screen') => ShowsError(m, screen)
    BY <1>2 DEF OnlyPage, ShowsError
  <2>4. PageGood(m, page[m], calls', customer.index, screen')
    BY <2>1, <2>2, <2>3, OtherPage
  <2>. QED
    BY <2>1, <2>4 DEF PageOK
<1>. QED
  BY <1>1, <1>2 DEF TInv

LEMMA EndsTouches ==
  ASSUME CallsInv, NEW s \in Slots, Ends(s)
  PROVE  /\ Touches(calls[s].visit) /\ calls'[s] = NoCall
         /\ \A q \in Slots : q # s => calls'[q] = calls[q]
BY DEF CallsInv, Ends, Touches, NoCall

LEMMA ContinuesTouches ==
  ASSUME PInv, NEW s \in Slots, calls[s].phase = "answered", NEW kind \in Kinds,
         Continues(s, kind)
  PROVE  /\ Touches(calls[s].visit)
         /\ calls'[s].visit = calls[s].visit /\ calls'[s].kind = kind
         /\ \A q \in Slots : q # s => calls'[q] = calls[q]
BY ContinuesIsTame DEF PInv, Touches

\* The slot a new call takes was nobody's.
LEMMA SendsTouches ==
  ASSUME PInv, NEW n \in Visits, NEW kind \in Kinds, NEW needs \in BOOLEAN,
         Sends(n, kind, needs)
  PROVE  /\ Touches(n)
         /\ \E s \in Slots :
              /\ calls[s].visit = 0 /\ calls'[s].visit = n /\ calls'[s].kind = kind
              /\ calls'[s].result = "none"
              /\ \A q \in Slots : q # s => calls'[q] = calls[q]
<1>1. PICK s \in FreeSlots : calls' = [calls EXCEPT ![s] = Request(n, kind, needs, session)]
  BY DEF Sends
<1>2. s \in Slots /\ calls[s].visit = 0
  BY DEF FreeSlots, PInv, CallsInv, GoodCalls, CallOK
<1>. DEFINE c == Request(n, kind, needs, session)
<1>3. c \in Fresh /\ c.kind = kind /\ c.visit = n
  BY RequestIsFresh DEF PInv, TypeOK
<1>4. c.result = "none"
  BY <1>3 DEF Fresh
<1>. HIDE DEF c
<1>5. calls'[s] = c /\ \A q \in Slots : q # s => calls'[q] = calls[q]
  BY <1>1, <1>2 DEF PInv, CallsInv, c
<1>. QED
  BY <1>2, <1>3, <1>4, <1>5 DEF Touches

\* A page that is not live may lock, count its steps and make calls.
LEMMA PlainStep ==
  ASSUME TInv, NEW n \in Visits, page[n].view \notin Live, page[n].view # "none", OnlyPage(n),
         page'[n].view = page[n].view, page'[n].socket = page[n].socket,
         page'[n].torn = page[n].torn,
         screen'.shows = "error" => ShowsError(screen'.by, screen)
  PROVE  TInv'
<1>1. page[n].socket = "none" /\ page[n].torn # "late" /\ ~ ShowsError(n, screen)
  BY DEF TInv, PageOK, PageGood, Plain
<1>2. ~ ShowsError(n, screen') /\ Absent(n, page'[n], calls')
  BY <1>1 DEF ShowsError, Absent
<1>3. PageGood(n, page'[n], calls', customer'.index, screen')
  BY <1>1, <1>2, PlainPage
<1>. QED
  BY <1>3, OnePageKeeps DEF PageOK

LEMMA PlainClick ==
  ASSUME PInv, TInv, page[screen.by].view \notin Live, page[screen.by].view # "none",
         NEW kind \in Kinds, NEW needs \in BOOLEAN, Sends(screen.by, kind, needs), UNCHANGED customer,
         screen'.by = screen.by, screen'.shows = screen.shows,
         \/ UNCHANGED page
         \/ \E b \in BOOLEAN : PageTo(screen.by, [page[screen.by] EXCEPT !.lock = b])
  PROVE  TInv'
<1>. DEFINE n == screen.by
<1>1. n \in Visits /\ page \in [Visits -> PageType]
  BY DEF PInv, TypeOK, ScreenType
<1>2. /\ \A m \in Visits \ {n} : page'[m] = page[m]
      /\ page'[n].view = page[n].view /\ page'[n].socket = page[n].socket
      /\ page'[n].torn = page[n].torn
  BY <1>1 DEF PageTo, PageType
<1>3. Touches(n)
  BY <1>1, SendsTouches
<1>. QED
  BY <1>1, <1>2, <1>3, PlainStep DEF OnlyPage, ShowsError

LEMMA PlainSubmit ==
  ASSUME PInv, TInv, page[screen.by].view \notin Live, page[screen.by].view # "none",
         NEW kind \in Kinds, NEW needs \in BOOLEAN, Submits(kind, needs), UNCHANGED <<page, customer>>
  PROVE  TInv'
<1>1. PICK s \in Slots : screen' = [screen EXCEPT !.busy = s]
  BY DEF Submits, FreeSlots
<1>2. screen'.by = screen.by /\ screen'.shows = screen.shows
  BY <1>1 DEF PInv, TypeOK, ScreenType
<1>. QED
  BY <1>2, PlainClick DEF Submits

\* The clicks on the forms.
LEMMA FormClicksKeep ==
  ASSUME PInv, TInv, JoinClicked \/ SignInClicked \/ SecretClicked \/ FormClicked
  PROVE  TInv'
<1>1. {"join", "signIn", "newPassword", "forgot", "reset", "signUp", "confirm", "step"} \subseteq Kinds
  BY DEF Kinds, ApiKinds, CognitoKinds
<1>2. {"join", "login", "signup", "onboarding"} \cap Live = {}
  BY LiveNames
<1>3. CASE JoinClicked
  BY <1>1, <1>2, <1>3, PlainSubmit DEF JoinClicked, Clicks, Keep
<1>4. CASE SignInClicked
  BY <1>1, <1>2, <1>4, PlainClick DEF SignInClicked, Clicks, Keep
<1>5. CASE SecretClicked
  <2>1. PICK what \in {"newPassword", "forgot", "code"} :
          Clicks("login", what) /\ Submits(StepKind(what), FALSE) /\ UNCHANGED page /\ Keep
    BY <1>5 DEF SecretClicked
  <2>2. StepKind(what) \in Kinds
    BY <1>1 DEF StepKind
  <2>. QED
    BY <1>2, <2>1, <2>2, PlainSubmit DEF Clicks, Keep
<1>6. CASE FormClicked
  <2>1. PICK view \in {"signup", "onboarding"} :
          /\ Clicks(view, "form")
          /\ Submits(IF view = "onboarding" THEN "step"
                     ELSE IF page[screen.by].step = 0 THEN "signUp" ELSE "confirm",
                     view = "onboarding")
          /\ UNCHANGED page /\ Keep
    BY <1>6 DEF FormClicked
  <2>2. \E kind \in Kinds, needs \in BOOLEAN : Submits(kind, needs)
    BY <1>1, <2>1
  <2>. QED
    BY <1>2, <2>1, <2>2, PlainSubmit DEF Clicks, Keep
<1>. QED
  BY <1>3, <1>4, <1>5, <1>6

LEMMA TurnsToKeeps ==
  ASSUME PInv, TInv, TurnsTo
  PROVE  TInv'
<1>1. screen.by \in Visits /\ page[screen.by].view \notin Live /\ page[screen.by].view # "none"
  BY LiveNames DEF TurnsTo, PInv, TypeOK, ScreenType
<1>2. screen'.shows \in {"forgot", "form"}
  BY DEF TurnsTo, Draws
<1>3. OnlyPage(screen.by)
  BY <1>2 DEF TurnsTo, Keep, OnlyPage, Touches
<1>. QED
  BY <1>1, <1>2, <1>3, PlainStep DEF TurnsTo

\* The handler of a page that is not live ends, or goes on with another call.
LEMMA PlainAnswer ==
  ASSUME PInv, TInv, NEW s \in Slots, Arrives(s), page[By(s)].view \notin Live,
         Ends(s) \/ \E kind \in Kinds : Continues(s, kind), UNCHANGED customer,
         \/ UNCHANGED page
         \/ \E b \in BOOLEAN : PageTo(By(s), [page[By(s)] EXCEPT !.lock = b])
         \/ \E step \in 0..4 : PageTo(By(s), [page[By(s)] EXCEPT !.step = step]),
         screen'.shows = "error" => ShowsError(screen'.by, screen)
  PROVE  TInv'
<1>. DEFINE n == By(s)
<1>1. n \in Visits /\ n = calls[s].visit /\ calls[s].phase = "answered"
      /\ page \in [Visits -> PageType] /\ CallsInv
  BY AnswerType
<1>2. page[n].view # "none"
  BY <1>1 DEF TInv, PageOK, PageGood, Absent
<1>3. /\ \A m \in Visits \ {n} : page'[m] = page[m]
      /\ page'[n].view = page[n].view /\ page'[n].socket = page[n].socket
      /\ page'[n].torn = page[n].torn
  BY <1>1 DEF PageTo, PageType
<1>4. Touches(n)
  BY <1>1, EndsTouches, ContinuesTouches
<1>. QED
  BY <1>1, <1>2, <1>3, <1>4, PlainStep DEF OnlyPage

\* What a handler draws that is no error, and a button that is enabled.
LEMMA NoError ==
  ASSUME PInv, NEW s \in Slots, NEW n,
         \/ UNCHANGED screen \/ Enables(s)
         \/ \E what : what # "error" /\ screen' = Draws(n, what)
  PROVE  screen'.shows = "error" => ShowsError(screen'.by, screen)
BY DEF PInv, TypeOK, ScreenType, Enables, Draws, ShowsError

LEMMA KindNames ==
  /\ {"load", "queues", "refresh", "reread", "act", "leave", "join", "step", "publish"} \subseteq Kinds
  /\ {"signIn", "newPassword", "forgot", "reset", "signUp", "confirm"} \subseteq Kinds
BY DEF Kinds, ApiKinds, CognitoKinds

LEMMA PlainLoaded ==
  ASSUME PInv, TInv, NEW s \in Slots, Loaded(s), page[By(s)].view \notin Live
  PROVE  TInv'
<1>1. Arrives(s) /\ Ends(s) /\ UNCHANGED customer
  BY DEF Loaded, Gets, Keep
<1>2. page' = page
  <2>1. CASE Result(s) = "ok"
    <3>1. PageTo(By(s), page[By(s)])
      BY <2>1 DEF Loaded
    <3>. QED
      BY <1>1, <3>1, AnswerType DEF PageTo
  <2>. QED
    BY <2>1 DEF Loaded
<1>3. \E what : what # "error" /\ screen' = Draws(By(s), what)
  BY LiveNames DEF Loaded, LoadSuccess, DrawsFailure, LoadFailure
<1>. QED
  BY <1>1, <1>2, <1>3, NoError, PlainAnswer

LEMMA OverviewStays ==
  ASSUME PInv, TInv, NEW s \in Slots, OverviewLoaded(s), ~ Reloads("login")
  PROVE  TInv'
<1>1. Arrives(s) /\ page[By(s)].view \notin Live /\ UNCHANGED <<page, customer>>
  BY LiveNames DEF OverviewLoaded, Overviews
<1>2. Ends(s) \/ Continues(s, "queues")
  BY DEF OverviewLoaded
<1>3. UNCHANGED screen \/ \E what : what # "error" /\ screen' = Draws(By(s), what)
  BY DEF OverviewLoaded
<1>4. screen'.shows = "error" => ShowsError(screen'.by, screen)
  BY <1>3, NoError
<1>. QED
  BY <1>1, <1>2, <1>4, KindNames, PlainAnswer

\* The handler goes on to another page, and its call is over.
MovesOn(s) ==
  \E target \in Views, who \in Sessions : \E before :
    Navigates(target, who, [calls EXCEPT ![s] = NoCall], before)

LEMMA FormAnswerType ==
  ASSUME PInv, NEW s \in Slots,
         JoinAnswered(s) \/ SignInAnswered(s) \/ SecretAnswered(s) \/ SignUpAnswered(s)
           \/ OnboardingAnswered(s)
  PROVE  /\ Arrives(s) /\ page[By(s)].view \notin Live /\ UNCHANGED customer
         /\ By(s) = calls[s].visit /\ page[By(s)] \in PageType
<1>1. Arrives(s) /\ page[By(s)].view \in {"join", "login", "signup", "onboarding"}
      /\ UNCHANGED customer
  BY DEF JoinAnswered, SignInAnswered, SecretAnswered, SignUpAnswered, OnboardingAnswered, Gets
<1>. QED
  BY <1>1, LiveNames, AnswerType

LEMMA FormAnswersStay ==
  ASSUME PInv, TInv, NEW s \in Slots,
         JoinAnswered(s) \/ SignInAnswered(s) \/ SecretAnswered(s) \/ SignUpAnswered(s)
           \/ OnboardingAnswered(s),
         ~ MovesOn(s)
  PROVE  TInv'
<1>. DEFINE Draw == \/ UNCHANGED screen \/ Enables(s)
                    \/ \E what : what # "error" /\ screen' = Draws(By(s), what)
            Turn == \/ UNCHANGED page
                    \/ \E b \in BOOLEAN : PageTo(By(s), [page[By(s)] EXCEPT !.lock = b])
                    \/ \E step \in 0..4 : PageTo(By(s), [page[By(s)] EXCEPT !.step = step])
            GoOn == Ends(s) \/ \E kind \in Kinds : Continues(s, kind)
<1>1. /\ Arrives(s) /\ page[By(s)].view \notin Live /\ UNCHANGED customer
      /\ page[By(s)] \in PageType
  BY FormAnswerType
<1>2. /\ session \in Sessions /\ SignedIn \in Sessions /\ Destination \in Views
      /\ {"status", "dashboard", "onboarding", "console"} \subseteq Views
  BY ViewNames, SessionsType DEF PInv, TypeOK, Destination
<1>3. ASSUME NEW target \in Views, NEW who \in Sessions, NEW before
      PROVE  ~ Navigates(target, who, [calls EXCEPT ![s] = NoCall], before)
  BY DEF MovesOn
<1>4. GoOn /\ Draw /\ Turn
  <2>1. CASE JoinAnswered(s)
    BY <1>2, <1>3, <2>1, KindNames DEF JoinAnswered
  <2>2. CASE SignInAnswered(s)
    BY <1>2, <1>3, <2>2 DEF SignInAnswered
  <2>3. CASE SecretAnswered(s)
    BY <1>2, <1>3, <2>3 DEF SecretAnswered
  <2>4. CASE SignUpAnswered(s)
    <3>1. 1 \in 0..4
      OBVIOUS
    <3>. QED
      BY <1>2, <1>3, <2>4, <3>1, KindNames DEF SignUpAnswered
  <2>5. CASE OnboardingAnswered(s)
    <3>1. page[By(s)].step < 4 => page[By(s)].step + 1 \in 0..4
      BY <1>1 DEF PageType
    <3>2. [page[By(s)] EXCEPT !.step = @ + 1] = [page[By(s)] EXCEPT !.step = page[By(s)].step + 1]
      OBVIOUS
    <3>. QED
      BY <1>2, <1>3, <2>5, <3>1, <3>2, KindNames DEF OnboardingAnswered
  <2>. QED
    BY <2>1, <2>2, <2>3, <2>4, <2>5
<1>5. screen'.shows = "error" => ShowsError(screen'.by, screen)
  BY <1>4, NoError
<1>. QED
  BY <1>1, <1>4, <1>5, PlainAnswer

-------------------------------------------------------------------------------
\* STEPS OF LIVE PAGES

\* One call of page n is over, which was no operation, and its socket is as live as before.
LEMMA CallOver ==
  ASSUME NEW n, NEW p, NEW p2, NEW cs, NEW cs2, NEW index, NEW d, NEW d2, NEW s \in Slots,
         PageGood(n, p, cs, index, d), p.view \in Live, ~ IsAct(cs[s], n), cs2[s].visit # n,
         \A q \in Slots : q # s => cs2[q] = cs[q],
         p2.view = p.view, p.view = "console" => p2.lock = p.lock,
         p2.socket = "none" <=> p.socket = "none", TornDown(p2),
         ShowsError(n, d2) => \/ ShowsError(n, d)
                              \/ p.socket # "none" /\ p.view = "status" /\ index = "over"
  PROVE  PageGood(n, p2, cs2, index, d2)
<1>1. \A q \in Slots : cs2[q].visit = n => cs2[q] = cs[q] /\ q # s
  OBVIOUS
<1>2. Absent(n, p2, cs2) /\ Plain(n, p2, d2)
  BY LiveNames DEF Absent, Plain
<1>3. Locked(n, p2, cs2)
  <2>1. \A q \in Slots : IsAct(cs2[q], n) <=> IsAct(cs[q], n)
    BY <1>1 DEF IsAct
  <2>. QED
    BY <2>1 DEF PageGood, Locked
<1>4. LoadsOnce(n, p2, cs2, index, d2)
  BY <1>1 DEF PageGood, LoadsOnce, IsCall
<1>5. KnowsSession(n, p2, cs2, index, d2)
  BY <1>1 DEF PageGood, KnowsSession, IsCall
<1>. QED
  BY <1>2, <1>3, <1>4, <1>5 DEF PageGood

\* A new call of page n that is no operation and no load.
LEMMA CallMade ==
  ASSUME NEW n, NEW p, NEW p2, NEW cs, NEW cs2, NEW index, NEW d, NEW d2, NEW s \in Slots,
         PageGood(n, p, cs, index, d), p.view \in Live, cs[s].visit # n,
         cs2[s].kind \in {"refresh", "leave"}, cs2[s].result = "none",
         cs2[s].kind = "refresh" => p.socket # "none",
         \A q \in Slots : q # s => cs2[q] = cs[q],
         p2.view = p.view, p.view = "console" => p2.lock = p.lock,
         p2.socket = p.socket, TornDown(p2), ShowsError(n, d2) => ShowsError(n, d)
  PROVE  PageGood(n, p2, cs2, index, d2)
<1>1. Absent(n, p2, cs2) /\ Plain(n, p2, d2)
  BY LiveNames DEF Absent, Plain
<1>2. \A q \in Slots : IsAct(cs2[q], n) <=> IsAct(cs[q], n)
  BY DEF IsAct
<1>3. Locked(n, p2, cs2)
  BY <1>2 DEF PageGood, Locked
<1>4. LoadsOnce(n, p2, cs2, index, d2)
  BY DEF PageGood, LoadsOnce, IsCall
<1>5. KnowsSession(n, p2, cs2, index, d2)
  BY DEF PageGood, KnowsSession, IsCall
<1>. QED
  BY <1>1, <1>3, <1>4, <1>5 DEF PageGood

\* The handler of page n has the answer of a call that is over with it.
LEMMA AnswerTouches ==
  ASSUME PInv, TInv, NEW s \in Slots, Arrives(s), Ends(s), UNCHANGED customer,
         UNCHANGED page \/ \E p \in PageType : PageTo(By(s), p),
         screen'.shows = "error" => screen'.by = By(s) \/ ShowsError(screen'.by, screen)
  PROVE  /\ By(s) \in Visits /\ By(s) = calls[s].visit /\ OnlyPage(By(s))
         /\ PageOK(By(s)) /\ page[By(s)] \in PageType /\ page \in [Visits -> PageType]
         /\ calls'[s].visit # By(s)
         /\ \A q \in Slots : q # s => calls'[q] = calls[q]
<1>1. By(s) \in Visits /\ By(s) = calls[s].visit /\ page[By(s)] \in PageType /\ CallsInv
      /\ page \in [Visits -> PageType]
  BY AnswerType
<1>2. Touches(By(s)) /\ calls'[s] = NoCall /\ \A q \in Slots : q # s => calls'[q] = calls[q]
  BY <1>1, EndsTouches
<1>3. calls'[s].visit # By(s)
  BY <1>1, <1>2, VisitsAssumption DEF NoCall
<1>4. \A m \in Visits \ {By(s)} : page'[m] = page[m]
  BY <1>1 DEF PageTo
<1>. QED
  BY <1>1, <1>2, <1>3, <1>4 DEF OnlyPage, TInv

LEMMA LiveLoaded ==
  ASSUME PInv, TInv, NEW s \in Slots, Loaded(s), page[By(s)].view \in Live
  PROVE  TInv'
<1>. DEFINE n == By(s)
            p == page[n]
<1>1. /\ Arrives(s) /\ Ends(s) /\ UNCHANGED customer /\ calls[s].kind = "load"
      /\ calls[s].visit = n /\ p \in PageType
  BY AnswerType DEF Loaded, Gets, Keep
<1>2. CASE Result(s) = "ok"
  <2>1. page' = [page EXCEPT ![n] = Connected(p)] /\ screen'.shows \in {"content", "form", "notice"}
    BY <1>2 DEF Loaded, PageTo, LoadSuccess, Draws
  <2>2. Connected(p) \in PageType /\ Connected(p).socket = "connecting"
        /\ Connected(p).view = p.view /\ Connected(p).lock = p.lock
        /\ Connected(p).torn = p.torn
    BY <1>1 DEF Connected, PageType, Sockets
  <2>3. /\ n \in Visits /\ OnlyPage(n) /\ PageGood(n, p, calls, customer.index, screen)
        /\ page \in [Visits -> PageType] /\ calls'[s].visit # n
        /\ \A q \in Slots : q # s => calls'[q] = calls[q]
    BY <1>1, <2>1, <2>2, AnswerTouches DEF PageOK, PageTo
  <2>4. page'[n] = Connected(p)
    BY <2>1, <2>3
  <2>5. p.socket = "none" /\ p.torn # "late"
    BY <1>1, <1>2, <2>3 DEF PageGood, LoadsOnce, IsCall, Result, TornDown
  <2>6. \A q \in Slots : ~ IsCall(calls'[q], n, "load")
    BY <1>1, <2>3, <2>5 DEF PageGood, LoadsOnce, IsCall
  <2>. DEFINE c == Connected(p)
              cs == calls'
              d == screen'
              index == customer.index
  <2>. HIDE DEF c
  <2>7. \A q \in Slots : IsAct(cs[q], n) <=> IsAct(calls[q], n)
    BY <1>1, <2>3 DEF IsAct
  <2>8. Absent(n, c, cs) /\ Plain(n, c, d) /\ TornDown(c)
    BY <2>2, <2>5, LiveNames DEF Absent, Plain, TornDown, c
  <2>9. Locked(n, c, cs)
    BY <2>2, <2>3, <2>7 DEF PageGood, Locked, c
  <2>10. LoadsOnce(n, c, cs, index, d)
    BY <2>2, <2>6 DEF LoadsOnce, c
  <2>11. KnowsSession(n, c, cs, index, d)
    <3>1. ~ ShowsError(n, d)
      BY <2>1 DEF ShowsError
    <3>2. p.view = "status" => index # "none"
      BY <1>1, <1>2, <2>3 DEF PageGood, KnowsSession, IsCall, Result
    <3>3. p.view = "status" => \A q \in Slots : ~ IsCall(cs[q], n, "refresh")
      BY <2>3, <2>5 DEF PageGood, KnowsSession, IsCall
    <3>. QED
      BY <2>2, <2>6, <3>1, <3>2, <3>3 DEF KnowsSession, c
  <2>12. PageGood(n, c, cs, index, d)
    BY <2>8, <2>9, <2>10, <2>11 DEF PageGood
  <2>. QED
    BY <1>1, <2>3, <2>4, <2>12, OnePageKeeps DEF PageOK, c
<1>3. CASE Result(s) # "ok"
  <2>1. page' = page /\ screen' = Draws(n, LoadFailure(p.view))
    BY <1>3 DEF Loaded, DrawsFailure
  <2>2. screen'.by = n /\ (screen'.shows = "error" => p.view = "status")
    BY <2>1 DEF Draws, LoadFailure
  <2>3. /\ n \in Visits /\ OnlyPage(n) /\ PageGood(n, p, calls, customer.index, screen)
        /\ calls'[s].visit # n
        /\ \A q \in Slots : q # s => calls'[q] = calls[q]
    BY <1>1, <2>1, <2>2, AnswerTouches DEF PageOK
  <2>. DEFINE cs == calls'
              d == screen'
              index == customer.index
  <2>4. \A q \in Slots : cs[q].visit = n => cs[q] = calls[q] /\ q # s
    BY <2>3
  <2>5. Absent(n, p, cs) /\ Plain(n, p, d) /\ TornDown(p)
    BY <2>3, LiveNames DEF PageGood, Absent, Plain
  <2>6. Locked(n, p, cs)
    <3>1. \A q \in Slots : IsAct(cs[q], n) <=> IsAct(calls[q], n)
      BY <1>1, <2>3, <2>4 DEF IsAct
    <3>. QED
      BY <2>3, <3>1 DEF PageGood, Locked
  <2>7. LoadsOnce(n, p, cs, index, d)
    BY <1>1, <2>3, <2>4 DEF PageGood, LoadsOnce, IsCall
  <2>8. KnowsSession(n, p, cs, index, d)
    <3>1. p.socket # "none" => index = "over"
      BY <1>1, <2>3 DEF PageGood, LoadsOnce, IsCall
    <3>. QED
      BY <2>2, <2>3, <2>4, <3>1 DEF PageGood, KnowsSession, IsCall, ShowsError
  <2>9. PageGood(n, p, cs, index, d)
    BY <2>5, <2>6, <2>7, <2>8 DEF PageGood
  <2>. QED
    BY <1>1, <2>1, <2>3, <2>9, OnePageKeeps DEF PageOK
<1>. QED
  BY <1>2, <1>3

LEMMA TriesAgainStays ==
  ASSUME PInv, TInv, TriesAgain
  PROVE  TInv'
<1>. DEFINE n == screen.by
            p == page[n]
            cs == calls'
            d == screen'
            index == customer.index
<1>1. n \in Visits /\ PageGood(n, p, calls, index, screen) /\ ShowsError(n, screen)
  BY DEF PInv, TypeOK, ScreenType, TInv, PageOK, TriesAgain, ShowsError
<1>2. p.view = "status" /\ (p.socket # "none" => index = "over")
  BY <1>1 DEF PageGood, KnowsSession
<1>3. Touches(n)
      /\ \E s \in Slots :
           /\ calls[s].visit = 0 /\ cs[s].visit = n /\ cs[s].kind = "load"
           /\ cs[s].result = "none" /\ \A q \in Slots : q # s => cs[q] = calls[q]
  <2>1. PICK needs \in BOOLEAN : Sends(n, "load", needs)
    BY DEF TriesAgain
  <2>2. "load" \in Kinds
    BY KindNames
  <2>. HIDE DEF n
  <2>. QED
    BY <1>1, <2>1, <2>2, SendsTouches
<1>4. PICK s \in Slots : /\ calls[s].visit = 0 /\ cs[s].visit = n /\ cs[s].kind = "load"
                         /\ cs[s].result = "none" /\ \A q \in Slots : q # s => cs[q] = calls[q]
  BY <1>3
<1>5. page' = page /\ UNCHANGED customer /\ d.shows = "spinner"
  BY DEF TriesAgain, Keep, Draws
<1>6. Absent(n, p, cs) /\ Plain(n, p, d) /\ TornDown(p) /\ Locked(n, p, cs)
  BY <1>1, <1>2, LiveNames DEF PageGood, Absent, Plain, Locked
<1>7. LoadsOnce(n, p, cs, index, d)
  BY <1>1, <1>2, <1>4, <1>5 DEF PageGood, LoadsOnce, IsCall, ShowsError
<1>8. KnowsSession(n, p, cs, index, d)
  BY <1>1, <1>2, <1>4, <1>5 DEF PageGood, KnowsSession, IsCall, ShowsError
<1>9. OnlyPage(n)
  BY <1>3, <1>5 DEF OnlyPage
<1>. QED
  BY <1>1, <1>5, <1>6, <1>7, <1>8, <1>9, OnePageKeeps DEF PageOK, PageGood

\* A socket that was made stays one.
LEMMA SocketStays ==
  ASSUME PInv, TInv, NEW n \in Visits, NEW state, SocketTo(n, state), UNCHANGED <<screen, calls>>,
         Keep, page[n].socket # "none", state # "none", TornDown([page[n] EXCEPT !.socket = state])
  PROVE  TInv'
<1>. DEFINE p == [page[n] EXCEPT !.socket = state]
<1>1. page[n] \in PageType /\ page' = [page EXCEPT ![n] = p]
  BY DEF PInv, TypeOK, SocketTo, PageTo
<1>2. p.view = page[n].view /\ p.lock = page[n].lock /\ p.socket # "none"
  BY <1>1 DEF PageType
<1>3. page'[n] = p /\ OnlyPage(n)
  BY <1>1 DEF PInv, TypeOK, OnlyPage, Touches, Keep, ShowsError
<1>4. PageGood(n, page[n], calls, customer.index, screen) /\ TornDown(p)
  BY DEF TInv, PageOK
<1>. HIDE DEF p
<1>5. PageGood(n, p, calls, customer.index, screen)
  BY <1>2, <1>4 DEF PageGood, Absent, Plain, Locked, LoadsOnce, KnowsSession
<1>. QED
  BY <1>3, <1>5, OnePageKeeps DEF PageOK, Keep

LEMMA SocketsStay ==
  ASSUME PInv, TInv, NEW n \in Visits, SocketStep(n)
  PROVE  TInv'
<1>1. page[n] \in PageType /\ PageGood(n, page[n], calls, customer.index, screen)
  BY DEF PInv, TypeOK, TInv, PageOK
<1>2. CASE Opens(n) \/ Drops(n)
  <2>1. page[n].torn # "late"
    BY <1>1, <1>2 DEF PageGood, TornDown, Opens, Drops
  <2>2. \A state : TornDown([page[n] EXCEPT !.socket = state])
    BY <1>1, <2>1 DEF TornDown, PageType
  <2>. QED
    BY <1>2, <2>2, SocketStays DEF Opens, Drops
<1>3. CASE TimerFires(n)
  <2>1. Connects(page[n]) # "none" /\ TornDown([page[n] EXCEPT !.socket = Connects(page[n])])
    BY <1>1, <1>3 DEF PageGood, TornDown, Connects, TimerFires, PageType
  <2>. QED
    BY <1>3, <2>1, SocketStays DEF TimerFires
<1>4. CASE Message(n)
  <2>1. page[n].view \in Live /\ page[n].socket # "none" /\ page' = page /\ screen' = screen
        /\ UNCHANGED customer /\ Sends(n, "refresh", page[n].view \in Protected)
    BY <1>1, <1>4 DEF PageGood, Plain, Message, Keep
  <2>2. PICK needs \in BOOLEAN : Sends(n, "refresh", needs)
    <3>1. (page[n].view \in Protected) \in BOOLEAN
      OBVIOUS
    <3>. QED
      BY <2>1, <3>1, Zenon
  <2>3. Touches(n)
        /\ \E s \in Slots :
                /\ calls[s].visit = 0 /\ calls'[s].visit = n /\ calls'[s].kind = "refresh"
                /\ calls'[s].result = "none" /\ \A q \in Slots : q # s => calls'[q] = calls[q]
    <3>1. "refresh" \in Kinds
      BY KindNames
    <3>. QED
      BY <2>2, <3>1, SendsTouches
  <2>4. PICK s \in Slots :
          /\ calls[s].visit = 0 /\ calls'[s].visit = n /\ calls'[s].kind = "refresh"
          /\ calls'[s].result = "none" /\ \A q \in Slots : q # s => calls'[q] = calls[q]
    BY <2>3
  <2>5. n # 0
    BY VisitsAssumption
  <2>6. PageGood(n, page[n], calls', customer.index, screen)
    <3>1. TornDown(page[n])
      BY <1>1 DEF PageGood
    <3>. QED
      BY <1>1, <2>1, <2>4, <2>5, <3>1, CallMade
  <2>7. OnlyPage(n)
    BY <2>1, <2>3 DEF OnlyPage, ShowsError
  <2>. QED
    BY <2>1, <2>6, <2>7, OnePageKeeps DEF PageOK
<1>. QED
  BY <1>2, <1>3, <1>4 DEF SocketStep

LEMMA BoardRefreshedStays ==
  ASSUME PInv, TInv, NEW s \in Slots, BoardRefreshed(s)
  PROVE  TInv'
<1>. DEFINE n == By(s)
<1>1. /\ Arrives(s) /\ Ends(s) /\ UNCHANGED <<page, customer>> /\ calls[s].kind = "refresh"
      /\ page[n].view \in Live
  BY LiveNames DEF BoardRefreshed, Gets, Keep
<1>2. screen' = screen \/ screen'.shows = "content"
  BY DEF BoardRefreshed, Draws
<1>3. /\ n \in Visits /\ OnlyPage(n) /\ PageGood(n, page[n], calls, customer.index, screen)
      /\ calls'[s].visit # n /\ \A q \in Slots : q # s => calls'[q] = calls[q]
  BY <1>1, <1>2, AnswerTouches DEF PageOK, ShowsError
<1>4. ShowsError(n, screen') => ShowsError(n, screen)
  BY <1>2 DEF ShowsError
<1>5. ~ IsAct(calls[s], n) /\ TornDown(page[n])
  BY <1>1, <1>3 DEF IsAct, PageGood
<1>6. PageGood(n, page[n], calls', customer.index, screen')
  BY <1>1, <1>3, <1>4, <1>5, CallOver
<1>. QED
  BY <1>1, <1>3, <1>6, OnePageKeeps DEF PageOK

LEMMA ClosedIsTornDown ==
  ASSUME NEW p \in PageType, TornDown(p)
  PROVE  /\ Closed(p).view = p.view /\ Closed(p).lock = p.lock
         /\ Closed(p).socket = "none" <=> p.socket = "none"
         /\ TornDown(Closed(p))
BY DEF Closed, TornDown, PageType, Sockets

LEMMA StatusRefreshedStays ==
  ASSUME PInv, TInv, NEW s \in Slots, StatusRefreshed(s)
  PROVE  TInv'
<1>. DEFINE n == By(s)
            p == page[n]
<1>1. /\ Arrives(s) /\ Ends(s) /\ UNCHANGED customer /\ calls[s].kind = "refresh"
      /\ p.view = "status" /\ p.view \in Live /\ p \in PageType /\ calls[s].visit = n
  BY LiveNames, AnswerType DEF StatusRefreshed, Gets, Keep
<1>2. PICK p2 \in {p, Closed(p)} :
        /\ PageTo(n, p2)
        /\ \/ screen' = screen \/ screen'.shows = "content"
           \/ calls[s].result = "gone" /\ screen'.by = n
  <2>1. UNCHANGED page => PageTo(n, p)
    BY <1>1, AnswerType DEF PageTo
  <2>. QED
    BY <2>1 DEF StatusRefreshed, Draws, Result
<1>3. /\ n \in Visits /\ OnlyPage(n) /\ PageGood(n, p, calls, customer.index, screen)
      /\ page \in [Visits -> PageType]
      /\ calls'[s].visit # n /\ \A q \in Slots : q # s => calls'[q] = calls[q]
  <2>1. p2 \in PageType
    BY <1>1, ClosedType
  <2>. QED
    BY <1>1, <1>2, <2>1, AnswerTouches DEF PageOK, ShowsError
<1>4. p.socket # "none" /\ (calls[s].result = "gone" => customer.index = "over")
  BY <1>1, <1>3 DEF PageGood, KnowsSession, IsCall
<1>5. /\ p2.view = p.view /\ p2.lock = p.lock /\ TornDown(p2)
      /\ p2.socket = "none" <=> p.socket = "none"
  BY <1>1, <1>2, <1>3, ClosedIsTornDown DEF PageGood
<1>6. ShowsError(n, screen') => ShowsError(n, screen) \/ customer.index = "over"
  BY <1>2, <1>4 DEF ShowsError
<1>7. ~ IsAct(calls[s], n)
  BY <1>1 DEF IsAct
<1>8. PageGood(n, p2, calls', customer.index, screen')
  BY <1>1, <1>3, <1>4, <1>5, <1>6, <1>7, CallOver
<1>9. page'[n] = p2
  BY <1>2, <1>3 DEF PageTo
<1>. QED
  BY <1>1, <1>3, <1>8, <1>9, OnePageKeeps DEF PageOK

LEMMA LeaveAnsweredStays ==
  ASSUME PInv, TInv, NEW s \in Slots, LeaveAnswered(s)
  PROVE  TInv'
<1>. DEFINE n == By(s)
            p == page[n]
<1>1. /\ Arrives(s) /\ Ends(s) /\ UNCHANGED customer /\ calls[s].kind = "leave"
      /\ p.view = "status" /\ p.view \in Live /\ p \in PageType /\ calls[s].visit = n
      /\ screen \in ScreenType
  BY LiveNames, AnswerType DEF LeaveAnswered, Gets, Keep
<1>2. PICK p2 \in {[p EXCEPT !.lock = FALSE], Closed(p)} : PageTo(n, p2)
  BY DEF LeaveAnswered
<1>3. \/ screen'.by = screen.by /\ screen'.shows = screen.shows
      \/ screen'.shows = "left"
  BY <1>1, EnablesType DEF LeaveAnswered, Draws
<1>4. /\ n \in Visits /\ OnlyPage(n) /\ PageGood(n, p, calls, customer.index, screen)
      /\ page \in [Visits -> PageType]
      /\ calls'[s].visit # n /\ \A q \in Slots : q # s => calls'[q] = calls[q]
  <2>1. p2 \in PageType
    BY <1>1, <1>2, ClosedType, UnlocksType
  <2>2. screen'.shows = "error" => ShowsError(screen'.by, screen)
    BY <1>3 DEF ShowsError
  <2>. QED
    BY <1>1, <1>2, <2>1, <2>2, AnswerTouches DEF PageOK
<1>5. /\ p2.view = p.view /\ TornDown(p2)
      /\ p2.socket = "none" <=> p.socket = "none"
  <2>1. TornDown(p)
    BY <1>4 DEF PageGood
  <2>2. CASE p2 = [p EXCEPT !.lock = FALSE]
    BY <1>1, <2>1, <2>2 DEF PageType, TornDown
  <2>. QED
    BY <1>1, <1>2, <2>1, <2>2, ClosedIsTornDown
<1>6. ShowsError(n, screen') => ShowsError(n, screen)
  BY <1>3 DEF ShowsError
<1>7. ~ IsAct(calls[s], n)
  BY <1>1 DEF IsAct
<1>8. PageGood(n, p2, calls', customer.index, screen')
  BY <1>1, <1>4, <1>5, <1>6, <1>7, CallOver
<1>9. page'[n] = p2
  BY <1>2, <1>4 DEF PageTo
<1>. QED
  BY <1>1, <1>4, <1>8, <1>9, OnePageKeeps DEF PageOK

LEMMA LeaveClickedStays ==
  ASSUME PInv, TInv, LeaveClicked
  PROVE  TInv'
<1>. DEFINE n == screen.by
            p == page[n]
            p2 == [p EXCEPT !.lock = TRUE]
<1>1. /\ n \in Visits /\ page \in [Visits -> PageType] /\ p \in PageType
      /\ PageGood(n, p, calls, customer.index, screen)
      /\ p.view = "status" /\ p.view \in Live
  BY LiveNames DEF PInv, TypeOK, ScreenType, TInv, PageOK, LeaveClicked, Clicks
<1>2. p2.view = p.view /\ p2.socket = p.socket /\ TornDown(p2)
  BY <1>1 DEF PageType, PageGood, TornDown
<1>3. Sends(n, "leave", FALSE) /\ UNCHANGED customer /\ page' = [page EXCEPT ![n] = p2]
  BY DEF LeaveClicked, Submits, PageTo, Keep
<1>4. screen'.by = screen.by /\ screen'.shows = screen.shows
  <2>1. PICK s \in Slots : screen' = [screen EXCEPT !.busy = s]
    BY DEF LeaveClicked, Submits, FreeSlots
  <2>. QED
    BY <2>1 DEF PInv, TypeOK, ScreenType
<1>5. Touches(n)
      /\ \E s \in Slots :
           /\ calls[s].visit = 0 /\ calls'[s].visit = n /\ calls'[s].kind = "leave"
           /\ calls'[s].result = "none" /\ \A q \in Slots : q # s => calls'[q] = calls[q]
  <2>1. PICK needs \in BOOLEAN : Sends(n, "leave", needs)
    BY <1>3
  <2>2. "leave" \in Kinds
    BY KindNames
  <2>. HIDE DEF n
  <2>. QED
    BY <1>1, <2>1, <2>2, SendsTouches
<1>6. PICK s \in Slots :
        /\ calls[s].visit = 0 /\ calls'[s].visit = n /\ calls'[s].kind = "leave"
        /\ calls'[s].result = "none" /\ \A q \in Slots : q # s => calls'[q] = calls[q]
  BY <1>5
<1>7. n # 0
  BY <1>1, VisitsAssumption
<1>8. ShowsError(n, screen') => ShowsError(n, screen)
  BY <1>4 DEF ShowsError
<1>. HIDE DEF p2
<1>9. PageGood(n, p2, calls', customer.index, screen')
  BY <1>1, <1>2, <1>6, <1>7, <1>8, CallMade
<1>10. page'[n] = p2 /\ OnlyPage(n)
  BY <1>1, <1>3, <1>4, <1>5 DEF OnlyPage, ShowsError
<1>. QED
  BY <1>1, <1>3, <1>9, <1>10, OnePageKeeps DEF PageOK

\* The console's lock goes with its operations; nothing else of the page changes.
LEMMA OperationKeeps ==
  ASSUME NEW n, NEW p, NEW p2, NEW cs, NEW cs2, NEW index, NEW d, NEW d2, NEW s \in Slots,
         PageGood(n, p, cs, index, d), p.view = "console",
         cs[s].visit = n => IsAct(cs[s], n), cs2[s].visit = n => IsAct(cs2[s], n),
         \A q \in Slots : q # s => cs2[q] = cs[q] /\ ~ IsAct(cs[q], n),
         p2.view = p.view, p2.socket = p.socket, p2.torn = p.torn, p2.stopped = p.stopped,
         p2.lock \in BOOLEAN, p2.lock <=> IsAct(cs2[s], n), ~ ShowsError(n, d2)
  PROVE  PageGood(n, p2, cs2, index, d2)
<1>1. \A q \in Slots : IsAct(cs2[q], n) <=> q = s /\ p2.lock
  BY DEF IsAct
<1>2. Locked(n, p2, cs2)
  BY <1>1 DEF Locked
<1>3. Absent(n, p2, cs2) /\ Plain(n, p2, d2) /\ TornDown(p2)
  BY LiveNames DEF PageGood, Absent, Plain, TornDown
<1>4. LoadsOnce(n, p2, cs2, index, d2)
  BY DEF PageGood, LoadsOnce, IsCall, IsAct
<1>5. KnowsSession(n, p2, cs2, index, d2)
  BY DEF KnowsSession
<1>. QED
  BY <1>2, <1>3, <1>4, <1>5 DEF PageGood

LEMMA ActClickedStays ==
  ASSUME PInv, TInv, ActClicked
  PROVE  TInv'
<1>. DEFINE n == screen.by
            p == page[n]
            p2 == [p EXCEPT !.lock = TRUE]
<1>1. /\ n \in Visits /\ page \in [Visits -> PageType] /\ p \in PageType
      /\ PageGood(n, p, calls, customer.index, screen)
      /\ p.view = "console" /\ ~ p.lock
  BY DEF PInv, TypeOK, ScreenType, TInv, PageOK, ActClicked, Clicks, MayAct
<1>2. /\ p2.view = p.view /\ p2.socket = p.socket /\ p2.torn = p.torn
      /\ p2.stopped = p.stopped /\ p2.lock = TRUE
  BY <1>1 DEF PageType
<1>3. /\ Sends(n, "act", TRUE) /\ UNCHANGED <<customer, screen>>
      /\ page' = [page EXCEPT ![n] = p2] /\ screen.shows = "content"
  BY DEF ActClicked, Clicks, PageTo, Keep
<1>4. Touches(n)
      /\ \E s \in Slots :
           /\ calls[s].visit = 0 /\ calls'[s].visit = n /\ calls'[s].kind = "act"
           /\ calls'[s].result = "none" /\ \A q \in Slots : q # s => calls'[q] = calls[q]
  <2>1. PICK needs \in BOOLEAN : Sends(n, "act", needs)
    BY <1>3
  <2>2. "act" \in Kinds
    BY KindNames
  <2>. HIDE DEF n
  <2>. QED
    BY <1>1, <2>1, <2>2, SendsTouches
<1>5. PICK s \in Slots :
        /\ calls[s].visit = 0 /\ calls'[s].visit = n /\ calls'[s].kind = "act"
        /\ \A q \in Slots : q # s => calls'[q] = calls[q]
  BY <1>4
<1>6. \A q \in Slots : ~ IsAct(calls[q], n)
  BY <1>1 DEF PageGood, Locked
<1>7. IsAct(calls'[s], n) /\ calls[s].visit # n
  BY <1>1, <1>5, VisitsAssumption DEF IsAct
<1>8. ~ ShowsError(n, screen')
  BY <1>3 DEF ShowsError
<1>. HIDE DEF p2
<1>9. PageGood(n, p2, calls', customer.index, screen')
  <2>1. /\ calls[s].visit = n => IsAct(calls[s], n)
        /\ \A q \in Slots : q # s => calls'[q] = calls[q] /\ ~ IsAct(calls[q], n)
        /\ p2.lock \in BOOLEAN /\ (p2.lock <=> IsAct(calls'[s], n))
    BY <1>2, <1>5, <1>6, <1>7
  <2>. QED
    BY <1>1, <1>2, <1>7, <1>8, <2>1, OperationKeeps
<1>10. page'[n] = p2 /\ OnlyPage(n)
  BY <1>1, <1>3, <1>4, <1>8 DEF OnlyPage, ShowsError
<1>. QED
  BY <1>1, <1>3, <1>9, <1>10, OnePageKeeps DEF PageOK

LEMMA OperationsStay ==
  ASSUME PInv, TInv, NEW s \in Slots, ActAnswered(s) \/ Reread(s)
  PROVE  TInv'
<1>. DEFINE n == By(s)
            p == page[n]
<1>1. /\ Arrives(s) /\ UNCHANGED customer /\ p.view = "console" /\ n \in Visits
      /\ IsAct(calls[s], n) /\ calls[s].visit = n /\ calls[s].phase = "answered"
      /\ p \in PageType /\ page \in [Visits -> PageType] /\ CallsInv
  BY AnswerType DEF ActAnswered, Reread, Gets, Keep, IsAct
<1>2. PageGood(n, p, calls, customer.index, screen) /\ ~ ShowsError(n, screen)
  BY <1>1 DEF TInv, PageOK, PageGood, KnowsSession
<1>3. p.lock /\ \A q \in Slots : q # s => ~ IsAct(calls[q], n)
  BY <1>1, <1>2 DEF PageGood, Locked
<1>4. screen' = screen \/ screen'.shows = "content"
  BY DEF ActAnswered, Reread, Draws
<1>5. ~ ShowsError(n, screen') /\ (screen'.shows = "error" => ShowsError(screen'.by, screen))
  BY <1>2, <1>4 DEF ShowsError
<1>6. CASE Ends(s) /\ PageTo(n, [p EXCEPT !.lock = FALSE])
  <2>. DEFINE p2 == [p EXCEPT !.lock = FALSE]
  <2>1. /\ p2.view = p.view /\ p2.socket = p.socket /\ p2.torn = p.torn
        /\ p2.stopped = p.stopped /\ p2.lock = FALSE /\ p2 \in PageType
    BY <1>1 DEF PageType
  <2>2. page' = [page EXCEPT ![n] = p2]
    BY <1>6 DEF PageTo
  <2>. HIDE DEF p2
  <2>3. /\ OnlyPage(n) /\ calls'[s].visit # n
        /\ \A q \in Slots : q # s => calls'[q] = calls[q]
    BY <1>1, <1>5, <1>6, <2>1, <2>2, AnswerTouches DEF PageTo
  <2>4. PageGood(n, p2, calls', customer.index, screen')
    <3>1. ~ IsAct(calls'[s], n)
      BY <2>3 DEF IsAct
    <3>2. /\ \A q \in Slots : q # s => calls'[q] = calls[q] /\ ~ IsAct(calls[q], n)
          /\ p2.lock \in BOOLEAN /\ (p2.lock <=> IsAct(calls'[s], n))
      BY <1>3, <2>1, <2>3, <3>1
    <3>. QED
      BY <1>1, <1>2, <1>5, <2>1, <2>3, <3>2, OperationKeeps
  <2>. QED
    BY <1>1, <2>2, <2>3, <2>4, OnePageKeeps DEF PageOK
<1>7. CASE Continues(s, "reread") /\ UNCHANGED page
  <2>1. "reread" \in Kinds
    BY KindNames
  <2>2. /\ Touches(n) /\ calls'[s].visit = n /\ calls'[s].kind = "reread"
        /\ \A q \in Slots : q # s => calls'[q] = calls[q]
    BY <1>1, <1>7, <2>1, ContinuesTouches
  <2>3. IsAct(calls'[s], n) /\ p.lock \in BOOLEAN
    BY <1>1, <2>2 DEF IsAct, PageType
  <2>4. PageGood(n, p, calls', customer.index, screen')
    <3>1. /\ \A q \in Slots : q # s => calls'[q] = calls[q] /\ ~ IsAct(calls[q], n)
          /\ p.lock \in BOOLEAN /\ (p.lock <=> IsAct(calls'[s], n))
      BY <1>3, <2>2, <2>3
    <3>. QED
      BY <1>1, <1>2, <1>5, <2>3, <3>1, OperationKeeps
  <2>5. OnlyPage(n)
    BY <1>1, <1>5, <1>7, <2>2 DEF OnlyPage
  <2>. QED
    BY <1>1, <1>7, <2>4, <2>5, OnePageKeeps DEF PageOK
<1>. QED
  BY <1>6, <1>7 DEF ActAnswered, Reread

-------------------------------------------------------------------------------
\* STEPS OF THE ROUTER

\* The page that is made is the only one whose call is new; a page that goes on keeps its
\* calls, unless its handler is the one that navigates.
LEMMA NavigatesStays ==
  ASSUME PInv, TInv, NEW target \in Views, NEW who \in Sessions, NEW now, NEW before,
         now \in [Slots -> GoodCalls],
         \A q \in Slots : \/ now[q] = calls[q]
                          \/ now[q] = NoCall /\ page[calls[q].visit].view \notin Live,
         Navigates(target, who, now, before), UNCHANGED customer
  PROVE  TInv'
<1>. DEFINE view == RouteFor(target, who)
            index == customer.index
<1>1. PICK n \in Visits :
        /\ n # current /\ (page[n].view = "none" \/ Inert(n, now))
        /\ page' = [m \in Visits |->
                      IF m = n THEN NewPage(view)
                      ELSE IF m = current THEN Left(page[m])
                      ELSE IF Inert(m, now) THEN NoPage ELSE page[m]]
        /\ screen' = Draws(n, FirstDrawing(view))
        /\ IF view \in Loading
             THEN \E s \in Slots : now[s].phase = "free" /\ calls' = [now EXCEPT ![s] = FirstFetch(n, view, who)]
             ELSE calls' = now
  BY DEF Navigates
<1>2. screen'.by = n /\ screen'.shows # "error"
  BY <1>1 DEF Draws, FirstDrawing
<1>3. \A m : ~ ShowsError(m, screen')
  BY <1>2 DEF ShowsError
<1>4. \A q \in Slots : now[q].visit # n
  BY <1>1, VisitsAssumption DEF Inert, TInv, PageOK, PageGood, Absent, NoCall
<1>5. PICK f \in Slots :
        /\ \A q \in Slots : q # f => calls'[q] = now[q]
        /\ \/ calls'[f] = now[f]
           \/ /\ now[f].visit = 0 /\ view \in Loading
              /\ calls'[f].visit = n /\ calls'[f].kind = "load" /\ calls'[f].result = "none"
  <2>1. CASE view \in Loading
    <3>1. PICK f \in Slots :
            now[f].phase = "free" /\ calls' = [now EXCEPT ![f] = FirstFetch(n, view, who)]
      BY <1>1, <2>1
    <3>2. now[f].visit = 0
      BY <3>1 DEF GoodCalls, CallOK
    <3>3. FirstFetch(n, view, who).visit = n /\ FirstFetch(n, view, who).kind = "load"
          /\ FirstFetch(n, view, who).result = "none"
      <4>1. ASSUME NEW needs \in BOOLEAN
            PROVE  /\ Request(n, "load", needs, who) \in Fresh
                   /\ Request(n, "load", needs, who).kind = "load"
                   /\ Request(n, "load", needs, who).visit = n
        BY KindNames, RequestIsFresh
      <4>2. (view \in Protected) \in BOOLEAN
        OBVIOUS
      <4>. QED
        BY <4>1, <4>2 DEF FirstFetch, Fresh
    <3>. QED
      BY <2>1, <3>1, <3>2, <3>3
  <2>2. CASE view \notin Loading
    BY <1>1, <2>2, SlotsAssumption
  <2>. QED
    BY <2>1, <2>2
<1>6. PageOK(n)'
  <2>1. \A q \in Slots : calls'[q].visit = n =>
          q = f /\ calls'[q].kind = "load" /\ calls'[q].result = "none" /\ view \in Loading
    BY <1>4, <1>5
  <2>2. page'[n] = NewPage(view)
    BY <1>1
  <2>3. PageGood(n, NewPage(view), calls', index, screen')
    BY <1>3, <2>1, NewPageGood
  <2>. QED
    BY <2>2, <2>3 DEF PageOK
<1>7. ASSUME NEW m \in Visits, m # n
      PROVE  PageOK(m)'
  <2>1. PageGood(m, page[m], calls, index, screen) /\ page[m] \in PageType
    BY DEF TInv, PageOK, PInv, TypeOK
  <2>2. \A q \in Slots : calls'[q].visit = m => calls'[q] = now[q]
    BY <1>5, <1>7
  <2>3. \A q \in Slots : calls'[q].visit = m => calls'[q] = calls[q]
    BY <2>2, VisitsAssumption DEF NoCall
  <2>4. CASE page'[m] = NoPage /\ Inert(m, now)
    <3>1. \A q \in Slots : calls'[q].visit # m
      BY <2>2, <2>4 DEF Inert
    <3>2. PageGood(m, NoPage, calls', index, screen')
      BY <1>3, <3>1, NoPageGood
    <3>. QED
      BY <2>4, <3>2 DEF PageOK
  <2>5. CASE page'[m] \in {page[m], Left(page[m])} /\ page[m].view \notin Live
    <3>1. page'[m] = page[m]
      BY <2>5 DEF Left
    <3>2. page[m].socket = "none" /\ page[m].torn # "late" /\ Absent(m, page[m], calls')
      BY <2>1, <2>3, <2>5 DEF PageGood, Plain, Absent
    <3>3. PageGood(m, page[m], calls', index, screen')
      BY <1>3, <2>5, <3>2, PlainPage
    <3>. QED
      BY <3>1, <3>3 DEF PageOK
  <2>6. CASE page'[m] \in {page[m], Left(page[m])} /\ page[m].view \in Live
    <3>1. \A q \in Slots : calls'[q] = calls[q] \/ (calls[q].visit # m /\ calls'[q].visit # m)
      <4>1. ASSUME NEW q \in Slots, calls[q].visit = m
            PROVE  calls'[q] = calls[q]
        <5>1. now[q] = calls[q]
          BY <2>6, <4>1
        <5>2. now[q].visit # 0
          BY <4>1, <5>1, VisitsAssumption
        <5>. QED
          BY <1>5, <5>1, <5>2
      <4>. QED
        BY <2>3, <4>1
    <3>2. PageGood(m, page[m], calls', index, screen')
      BY <1>3, <2>1, <3>1, OtherPage
    <3>3. PageGood(m, Left(page[m]), calls', index, screen')
      BY <1>3, <2>1, <3>2, LeftPage
    <3>. QED
      BY <2>6, <3>2, <3>3 DEF PageOK
  <2>. QED
    BY <1>1, <1>7, <2>4, <2>5, <2>6
<1>8. IndexInv'
  BY DEF TInv, IndexInv
<1>. QED
  BY <1>6, <1>7, <1>8 DEF TInv

\* A document that was just loaded is one page and its first fetch.
LEMMA DocumentGood ==
  ASSUME NEW view, NEW who \in Sessions, NEW ps, NEW cs, NEW index, NEW d, d.shows # "error",
         ps = [n \in Visits |-> IF n = 1 THEN NewPage(view) ELSE NoPage],
         cs = [s \in Slots |->
                 IF s = 1 /\ view \in Loading THEN FirstFetch(1, view, who) ELSE NoCall]
  PROVE  \A n \in Visits : PageGood(n, ps[n], cs, index, d)
<1>1. 1 \in Visits /\ 1 \in Slots /\ 0 \notin Visits
  BY VisitsAssumption, SlotsAssumption
<1>2. FirstFetch(1, view, who).visit = 1 /\ FirstFetch(1, view, who).kind = "load"
      /\ FirstFetch(1, view, who).result = "none"
  <2>1. ASSUME NEW needs \in BOOLEAN
        PROVE  /\ Request(1, "load", needs, who) \in Fresh
               /\ Request(1, "load", needs, who).kind = "load"
               /\ Request(1, "load", needs, who).visit = 1
    BY <1>1, KindNames, RequestIsFresh
  <2>2. (view \in Protected) \in BOOLEAN
    OBVIOUS
  <2>. QED
    BY <2>1, <2>2 DEF FirstFetch, Fresh
<1>3. \A n : ~ ShowsError(n, d)
  BY DEF ShowsError
<1>4. \A q \in Slots, n \in Visits : cs[q].visit = n =>
        n = 1 /\ q = 1 /\ cs[q].kind = "load" /\ cs[q].result = "none" /\ view \in Loading
  BY <1>1, <1>2 DEF NoCall
<1>5. PageGood(1, NewPage(view), cs, index, d)
  BY <1>1, <1>3, <1>4, NewPageGood
<1>6. ASSUME NEW n \in Visits, n # 1
      PROVE  PageGood(n, NoPage, cs, index, d)
  BY <1>3, <1>4, <1>6, NoPageGood
<1>. QED
  BY <1>5, <1>6

LEMMA ReloadsStays ==
  ASSUME PInv, TInv, NEW target, Reloads(target), UNCHANGED customer
  PROVE  TInv'
<1>. DEFINE view == RouteFor(target, session)
<1>1. /\ session \in Sessions /\ screen'.shows # "error"
      /\ page' = [n \in Visits |-> IF n = 1 THEN NewPage(view) ELSE NoPage]
      /\ calls' = [s \in Slots |->
                     IF s = 1 /\ view \in Loading THEN FirstFetch(1, view, session) ELSE NoCall]
  BY DEF Reloads, Draws, FirstDrawing, PInv, TypeOK
<1>2. \A n \in Visits : PageGood(n, page'[n], calls', customer'.index, screen')
  <2>. HIDE DEF view
  <2>. QED
    BY <1>1, DocumentGood
<1>3. IndexInv'
  BY DEF TInv, IndexInv
<1>. QED
  BY <1>2, <1>3 DEF TInv, PageOK

LEMMA InitStays ==
  ASSUME Init
  PROVE  TInv
<1>1. PICK target \in Views :
        /\ page = [n \in Visits |-> IF n = 1 THEN NewPage(RouteFor(target, session)) ELSE NoPage]
        /\ screen = Draws(1, FirstDrawing(RouteFor(target, session)))
        /\ calls = [s \in Slots |->
                      IF s = 1 /\ RouteFor(target, session) \in Loading
                        THEN FirstFetch(1, RouteFor(target, session), session) ELSE NoCall]
  BY DEF Init
<1>2. session \in Sessions /\ screen.shows # "error"
  BY <1>1, SessionsType DEF Init, Draws, FirstDrawing
<1>3. \A n \in Visits : PageGood(n, page[n], calls, customer.index, screen)
  <2>. DEFINE view == RouteFor(target, session)
  <2>1. /\ page = [n \in Visits |-> IF n = 1 THEN NewPage(view) ELSE NoPage]
        /\ calls = [s \in Slots |->
                      IF s = 1 /\ view \in Loading THEN FirstFetch(1, view, session) ELSE NoCall]
    BY <1>1
  <2>. HIDE DEF view
  <2>. QED
    BY <1>2, <2>1, DocumentGood
<1>4. IndexInv
  BY DEF Init, IndexInv
<1>. QED
  BY <1>3, <1>4 DEF TInv, PageOK

-------------------------------------------------------------------------------
\* STEPS OF THE SERVICES AND OF THE WORLD

\* A call is answered, or is under way again.  The customer's own session is read and is
\* gone by the index.
LEMMA ResultGood ==
  ASSUME NEW n, NEW p, NEW cs, NEW cs2, NEW index \in CustomerStates, NEW d,
         NEW s \in Slots,
         PageGood(n, p, cs, index, d), \A q \in Slots : q # s => cs2[q] = cs[q],
         cs2[s].visit = cs[s].visit, cs2[s].kind = cs[s].kind,
         \/ cs2[s].result = cs[s].result
         \/ cs[s].visit = n /\ p.view = "status" /\ cs[s].kind \in {"load", "refresh"} =>
              /\ cs2[s].result = "ok" => index = "waiting"
              /\ cs2[s].result = "gone" => index # "waiting"
  PROVE  PageGood(n, p, cs2, index, d)
<1>1. \A q \in Slots : cs2[q].visit = cs[q].visit /\ cs2[q].kind = cs[q].kind
  OBVIOUS
<1>2. Absent(n, p, cs2) /\ Plain(n, p, d) /\ TornDown(p)
  BY <1>1 DEF PageGood, Absent
<1>3. Locked(n, p, cs2)
  BY <1>1 DEF PageGood, Locked, IsAct
<1>4. LoadsOnce(n, p, cs2, index, d)
  BY <1>1 DEF PageGood, LoadsOnce, IsCall
<1>5. KnowsSession(n, p, cs2, index, d)
  BY <1>1 DEF PageGood, KnowsSession, IsCall, CustomerStates
<1>. QED
  BY <1>2, <1>3, <1>4, <1>5 DEF PageGood

LEMMA AnsweredCall ==
  ASSUME CallsInv, NEW s \in Slots, NEW outcome, NEW times, Answered(s, outcome, times)
  PROVE  /\ calls'[s].visit = calls[s].visit /\ calls'[s].kind = calls[s].kind
         /\ calls'[s].result = outcome
         /\ \A q \in Slots : q # s => calls'[q] = calls[q]
<1>1. calls[s] \in CallType
  BY DEF CallsInv, GoodCalls
<1>. DEFINE c == [calls[s] EXCEPT !.phase = "answered", !.result = outcome,
                                  !.done = calls[s].done + times]
<1>2. c.result = outcome /\ c.kind = calls[s].kind /\ c.visit = calls[s].visit
  BY <1>1 DEF CallType
<1>3. calls' = [calls EXCEPT ![s] = c]
  BY DEF Answered
<1>. HIDE DEF c
<1>. QED
  BY <1>2, <1>3 DEF CallsInv

LEMMA ServicesStay ==
  ASSUME PInv, TInv, NEW s \in Slots, Services(s)
  PROVE  TInv'
<1>1. /\ CallsInv /\ UNCHANGED tab /\ calls[s] \in CallType
      /\ customer \in [state : CustomerStates, index : CustomerStates]
  BY DEF Services, PInv, TypeOK, CallsInv, GoodCalls
<1>2. IndexInv' /\ customer'.index = customer.index
  BY <1>1 DEF TInv, IndexInv, Services, ServiceStep, Refuse, Serve, Fail, BeginRefresh, Refresh
<1>. DEFINE Own == OfCustomer(calls[s], page[By(s)].view)
            Honest ==
              /\ \A q \in Slots : q # s => calls'[q] = calls[q]
              /\ calls'[s].visit = calls[s].visit /\ calls'[s].kind = calls[s].kind
              /\ \/ calls'[s].result = calls[s].result
                 \/ Own => /\ calls'[s].result = "ok" => customer.index = "waiting"
                           /\ calls'[s].result = "gone" => customer.index # "waiting"
<1>3. Honest
  <2>1. CASE Refuse(s) \/ Fail(s)
    BY <1>1, <2>1, AnsweredCall DEF Refuse, Fail
  <2>2. CASE Serve(s, page[By(s)].view)
    <3>1. CASE Answered(s, "gone", 0) /\ customer.index # "waiting"
      BY <1>1, <3>1, AnsweredCall
    <3>2. ASSUME NEW outcome \in Possible(calls[s].kind), NEW times, Answered(s, outcome, times),
                 Own => customer.index = "waiting"
          PROVE  Honest
      <4>1. outcome # "gone"
        BY DEF Possible
      <4>. QED
        BY <1>1, <3>2, <4>1, AnsweredCall
    <3>. QED
      BY <2>2, <3>1, <3>2 DEF Serve
  <2>3. CASE BeginRefresh(s)
    <3>. DEFINE c == [calls[s] EXCEPT !.phase = "refreshing"]
    <3>1. c.visit = calls[s].visit /\ c.kind = calls[s].kind /\ c.result = calls[s].result
      BY <1>1 DEF CallType
    <3>2. calls' = [calls EXCEPT ![s] = c]
      BY <1>1, <2>3 DEF BeginRefresh, CallsInv
    <3>. HIDE DEF c
    <3>. QED
      BY <1>1, <3>1, <3>2 DEF CallsInv
  <2>4. CASE Refresh(s)
    <3>. DEFINE c == [calls[s] EXCEPT !.phase = "sent", !.result = "none", !.token = TRUE,
                                      !.retry = FALSE]
                d == [calls[s] EXCEPT !.phase = "answered", !.retry = FALSE]
    <3>1. /\ c.visit = calls[s].visit /\ c.kind = calls[s].kind /\ c.result = "none"
          /\ d.visit = calls[s].visit /\ d.kind = calls[s].kind /\ d.result = calls[s].result
      BY <1>1 DEF CallType
    <3>2. calls' = [calls EXCEPT ![s] = c] \/ calls' = [calls EXCEPT ![s] = d]
      BY <1>1, <2>4 DEF Refresh, CallsInv
    <3>. HIDE DEF c, d
    <3>. QED
      BY <1>1, <3>1, <3>2 DEF CallsInv
  <2>. QED
    BY <2>1, <2>2, <2>3, <2>4 DEF Services, ServiceStep
<1>4. ASSUME NEW n \in Visits
      PROVE  PageGood(n, page[n], calls', customer.index, screen)
  <2>1. PageGood(n, page[n], calls, customer.index, screen)
    BY DEF TInv, PageOK
  <2>2. calls[s].visit = n /\ page[n].view = "status" /\ calls[s].kind \in {"load", "refresh"} => Own
    BY DEF OfCustomer, By
  <2>3. customer.index \in CustomerStates
    BY <1>1
  <2>. HIDE DEF Own
  <2>. QED
    BY <1>3, <2>1, <2>2, <2>3, ResultGood
<1>. QED
  BY <1>1, <1>2, <1>4 DEF TInv, PageOK, tab

LEMMA WorldStays ==
  ASSUME PInv, TInv, WorldStep, UNCHANGED tab
  PROVE  TInv'
<1>1. /\ UNCHANGED calls /\ IndexInv'
      /\ customer.index = "over" => customer'.index = "over"
      /\ customer.index # "none" => customer'.index # "none"
  BY DEF WorldStep, Lapse, Served, IndexFollows, PInv, TypeOK, CustomerStates, TInv, IndexInv
<1>2. ASSUME NEW n \in Visits
      PROVE  PageGood(n, page[n], calls, customer'.index, screen)
  <2>1. PageGood(n, page[n], calls, customer.index, screen)
    BY DEF TInv, PageOK
  <2>. QED
    BY <1>1, <2>1 DEF PageGood, LoadsOnce, KnowsSession
<1>. QED
  BY <1>1, <1>2 DEF TInv, PageOK, tab

-------------------------------------------------------------------------------
\* LOCKS AND SOCKETS: THE THEOREMS

LEMMA RouterStays ==
  ASSUME PInv, TInv, \/ \E view \in Views : FollowsLink(view)
                     \/ SignsOut \/ TriesDocument
  PROVE  TInv'
<1>1. calls \in [Slots -> GoodCalls] /\ session \in Sessions /\ NoSession \in Sessions
      /\ "landing" \in Views
  BY SessionsType DEF PInv, CallsInv, TypeOK, Views, Loading
<1>2. CASE \E view \in Views : FollowsLink(view)
  BY <1>1, <1>2, NavigatesStays DEF FollowsLink
<1>3. CASE SignsOut
  BY <1>1, <1>3, NavigatesStays DEF SignsOut
<1>4. CASE TriesDocument
  BY <1>4, ReloadsStays DEF TriesDocument
<1>. QED
  BY <1>2, <1>3, <1>4

LEMMA FormAnswersMove ==
  ASSUME PInv, TInv, NEW s \in Slots,
         JoinAnswered(s) \/ SignInAnswered(s) \/ SecretAnswered(s) \/ SignUpAnswered(s)
           \/ OnboardingAnswered(s),
         MovesOn(s)
  PROVE  TInv'
<1>. DEFINE rest == [calls EXCEPT ![s] = NoCall]
<1>1. UNCHANGED customer /\ page[By(s)].view \notin Live /\ By(s) = calls[s].visit
  BY FormAnswerType
<1>2. /\ rest \in [Slots -> GoodCalls]
      /\ \A q \in Slots : \/ rest[q] = calls[q]
                          \/ rest[q] = NoCall /\ page[calls[q].visit].view \notin Live
  BY <1>1, NoCallIsGood DEF PInv, CallsInv
<1>3. \E target \in Views, who \in Sessions : \E before : Navigates(target, who, rest, before)
  BY DEF MovesOn
<1>. HIDE DEF rest
<1>. QED
  BY <1>1, <1>2, <1>3, NavigatesStays

LEMMA LocksNext ==
  ASSUME PInv, TInv, Next
  PROVE  TInv'
<1>1. CASE UserStep
  BY <1>1, RouterStays, TriesAgainStays, LeaveClickedStays, ActClickedStays, FormClicksKeep,
     TurnsToKeeps DEF UserStep
<1>2. ASSUME NEW s \in Slots, Handles(s)
      PROVE  TInv'
  <2>1. CASE Loaded(s)
    BY <2>1, PlainLoaded, LiveLoaded
  <2>2. CASE OverviewLoaded(s)
    BY <2>2, OverviewStays, ReloadsStays DEF OverviewLoaded
  <2>3. CASE BoardRefreshed(s) \/ StatusRefreshed(s) \/ LeaveAnswered(s)
    BY <2>3, BoardRefreshedStays, StatusRefreshedStays, LeaveAnsweredStays
  <2>4. CASE ActAnswered(s) \/ Reread(s)
    BY <2>4, OperationsStay
  <2>5. CASE JoinAnswered(s) \/ SignInAnswered(s) \/ SecretAnswered(s) \/ SignUpAnswered(s)
               \/ OnboardingAnswered(s)
    BY <2>5, FormAnswersStay, FormAnswersMove
  <2>. QED
    BY <1>2, <2>1, <2>2, <2>3, <2>4, <2>5 DEF Handles
<1>. QED
  BY <1>1, <1>2, ServicesStay, SocketsStay, WorldStays DEF Next

LEMMA LocksInvariant == Spec => []TInv
<1>1. PInv /\ TInv /\ [Next]_vars => TInv'
  <2>1. PInv /\ TInv /\ UNCHANGED vars => TInv'
    BY DEF TInv, IndexInv, PageOK, vars
  <2>. QED
    BY <2>1, LocksNext
<1>. QED
  BY <1>1, InitStays, Invariant, PTL DEF Spec

\* console.js: whatever is clicked, refused or lost, the lock is held exactly while an
\* operation, or the read after it, is under way, and there is one of them at a time.
THEOREM LockHeld == Spec => []LockIsAnOperation
<1>1. TInv => LockIsAnOperation
  <2>1. ASSUME TInv, NEW n \in Visits, page[n].view = "console"
        PROVE  /\ Cardinality(ActsOf(n)) <= 1
               /\ page[n].lock <=> ActsOf(n) # {}
    <3>1. /\ \A s, q \in ActsOf(n) : s = q
          /\ page[n].lock <=> ActsOf(n) # {}
      BY <2>1 DEF TInv, PageOK, PageGood, Locked, IsAct, ActsOf
    <3>2. ActsOf(n) = {} \/ \E s : ActsOf(n) = {s}
      BY <3>1
    <3>3. Cardinality(ActsOf(n)) \in {0, 1}
      BY <3>2, FS_EmptySet, FS_Singleton
    <3>4. Cardinality(ActsOf(n)) <= 1
      BY <3>3
    <3>. QED
      BY <3>1, <3>4
  <2>. QED
    BY <2>1 DEF LockIsAnOperation
<1>. QED
  BY <1>1, LocksInvariant, PTL

\* ws.js and the teardowns: however the timers of a reconnect and the answers still under
\* way fall, a page that was left after it had connected is connected never again.
THEOREM LeftStaysSilent == Spec => []LeftPagesAreSilent
<1>1. TInv => LeftPagesAreSilent
  BY DEF TInv, PageOK, PageGood, TornDown, LeftPagesAreSilent
<1>. QED
  BY <1>1, LocksInvariant, PTL
===============================================================================
