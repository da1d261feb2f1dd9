----------------------------- MODULE LiveUpdates ------------------------------
(***************************************************************************)
(* Live updates: the registry of WebSocket connections                     *)
(* (services/connections.js, functions/ws.js), the broadcaster that fans   *)
(* events out to them (services/broadcast.js, functions/broadcaster.js),   *)
(* and the pages that hold a socket and refetch on every message           *)
(* (frontend/assets/js/ws.js and views/console.js, display.js, status.js). *)
(*                                                                         *)
(* What a page knows is abstracted to the events that were committed when  *)
(* it last asked the server.  The index the broadcaster reads lags behind  *)
(* the table; posts, registrations, publications and broadcasts may fail;  *)
(* sockets drop and are opened again.                                      *)
(***************************************************************************)
EXTENDS Integers, Sequences

CONSTANTS
  Pages,         \* the pages that are open
  Customers,     \* the tokens of the customers in the queue
  Queue,         \* the scope of the boards of the queue
  ScopeOf,       \* what each page subscribes to: the queue, or a customer's token
  None,          \* no connection, no scope, no customer
  Broadcasters,  \* concurrent invocations of the broadcaster
  EventTypes,    \* model bound: the types of events that are committed
  MaxEvents,     \* model bound: committed events
  MaxSockets     \* model bound: sockets that are opened

Scopes == {Queue} \cup Customers

ASSUME ScopesAssumption == Queue \notin Customers /\ ScopeOf \in [Pages -> Scopes]
ASSUME NoneAssumption == None \notin Scopes /\ {"absent", "connect", "disconnect"} \cap (Scopes \cup {None}) = {}
ASSUME BoundsAssumption == MaxEvents \in Nat /\ MaxSockets \in Nat

\* CUSTOMER_ONLY, and of the eleven QUEUE_WIDE types one that names a customer and one
\* that names none.
CustomerOnly == {"TURN_APPROACHING"}
QueueWide == {"NEXT_CALLED", "QUEUE_PAUSED"}
TokensOf(type) == IF type = "QUEUE_PAUSED" THEN {None} ELSE Customers

ASSUME TypesAssumption == EventTypes \subseteq CustomerOnly \cup QueueWide

\* Connection ids are never given out twice; 0 stands for no connection.
Connections == 1..MaxSockets

VARIABLES
  events,    \* the committed events, in order: their type and the customer they name
  pending,   \* the events EventBridge still has to hand to a broadcaster
  lost,      \* the events that were not published, or not posted to everyone
  item,      \* the CONN# items: "absent", registered without a scope (None), or the scope
  index,     \* GSI3: the scope under which each connection is found, or None
  link,      \* the gateway's view of a connection: "unused", "opening", "open" or "gone"
  requests,  \* the connects, messages and disconnects on their way to the WebSocket Lambda
  cast,      \* what each broadcaster does: its event and the connections left to post to
  page       \* what each page does, its socket, the events it has asked after, whether its
             \* customer is leaving (leftLocally) and the events it missed meanwhile

vars == <<events, pending, lost, item, index, link, requests, cast, page>>

IdleCast == [pc |-> "idle", event |-> 0, todo |-> {}]

Init ==
  /\ events = <<>>
  /\ pending = {}
  /\ lost = {}
  /\ item = [c \in Connections |-> "absent"]
  /\ index = [c \in Connections |-> None]
  /\ link = [c \in Connections |-> "unused"]
  /\ requests = {}
  /\ cast = [b \in Broadcasters |-> IdleCast]
  /\ page = [p \in Pages |-> [pc |-> "loading", socket |-> 0, asked |-> 0,
                            leaving |-> FALSE, missed |-> {}]]

-------------------------------------------------------------------------------
\* THE QUEUE.  A mutation commits and publishes; the publication may fail.

Commit(type, token) ==
  /\ Len(events) < MaxEvents
  /\ events' = Append(events, [type |-> type, token |-> token])
  /\ \/ pending' = pending \cup {Len(events')} /\ UNCHANGED lost
     \/ lost' = lost \cup {Len(events')} /\ UNCHANGED pending
  /\ UNCHANGED <<item, index, link, requests, cast, page>>

-------------------------------------------------------------------------------
\* THE PAGES

\* The page asks the server for the state, and renders it.
Ask(p) == page' = [page EXCEPT ![p].asked = Len(events), ![p].missed = {}]

\* A message: the page refetches, unless its customer is leaving.
Hears(p, news) ==
  \/ ~ page[p].leaving /\ Ask(p)
  \/ page[p].leaving /\ page' = [page EXCEPT ![p].missed = @ \cup news]

\* load: the state is fetched, then the QueueSocket is made.  A page whose fetch failed
\* shows an error and never takes this step; one that is left before it still takes it.
Load(p) ==
  /\ page[p].pc = "loading"
  /\ page' = [page EXCEPT ![p].pc = "offline", ![p].asked = Len(events)]
  /\ UNCHANGED <<events, pending, lost, item, index, link, requests, cast>>

\* connect, at first and after each backoff.
Connect(p, c) ==
  /\ page[p].pc = "offline"
  /\ link[c] = "unused" /\ \A d \in 1..(c - 1) : link[d] # "unused"
  /\ link' = [link EXCEPT ![c] = "opening"]
  /\ page' = [page EXCEPT ![p].pc = "linked", ![p].socket = c]
  /\ requests' = requests \cup {<<c, "connect">>}
  /\ UNCHANGED <<events, pending, lost, item, index, cast>>

\* The socket is closed; the gateway runs $disconnect later.
Close(p, pc) ==
  LET c == page[p].socket IN
  /\ page[p].pc = "linked"
  /\ page' = [page EXCEPT ![p].pc = pc, ![p].socket = 0]
  /\ link' = [link EXCEPT ![c] = "gone"]
  /\ requests' = requests \cup {<<c, "disconnect">>}

\* By a failure, or by close() as the page is left: such a page is one that never connects
\* again.
Drop(p) == Close(p, "offline") /\ UNCHANGED <<events, pending, lost, item, index, cast>>

\* The button of the status page: from here to the answer messages are ignored.
Leave(p) ==
  /\ ScopeOf[p] \in Customers
  /\ page[p].pc \in {"offline", "linked"}
  /\ ~ page[p].leaving
  /\ page' = [page EXCEPT ![p].leaving = TRUE]
  /\ UNCHANGED <<events, pending, lost, item, index, link, requests, cast>>

\* An error: still in the queue, with what was drawn before.
LeaveFails(p) ==
  /\ page[p].leaving /\ page[p].pc # "left"
  /\ page' = [page EXCEPT ![p].leaving = FALSE]
  /\ UNCHANGED <<events, pending, lost, item, index, link, requests, cast>>

\* The confirmation replaces the page, and the socket is closed for good.
LeaveDone(p) ==
  /\ page[p].leaving
  /\ \/ Close(p, "left")
     \/ /\ page[p].pc = "offline"
        /\ page' = [page EXCEPT ![p].pc = "left"]
        /\ UNCHANGED <<link, requests>>
  /\ UNCHANGED <<events, pending, lost, item, index, cast>>

-------------------------------------------------------------------------------
\* THE REGISTRY

OwnersOf(c) == { p \in Pages : page[p].socket = c }

\* A variant that takes the queue of the page for its scope.
SubscribesToBoard(p) == Queue
\* The subscribe message of the open handler.
Subscription(p) == ScopeOf[p]

\* connect puts the item, or swallows the error, also after the client went away; the
\* socket opens either way and its open handler subscribes.
Register(c) ==
  /\ <<c, "connect">> \in requests
  /\ item' = [item EXCEPT ![c] = None] \/ UNCHANGED item
  /\ \/ /\ link[c] = "opening"
        /\ link' = [link EXCEPT ![c] = "open"]
        /\ \E p \in OwnersOf(c) :
             requests' = (requests \ {<<c, "connect">>}) \cup {<<c, Subscription(p)>>}
     \/ link[c] = "gone" /\ requests' = requests \ {<<c, "connect">>} /\ UNCHANGED link
  /\ UNCHANGED <<events, pending, lost, index, cast, page>>

\* A variant: an update without its condition makes the item.
MaySubscribeAlways(c) == TRUE
\* subscribeConnection is conditional on attribute_exists.
MaySubscribe(c) == item[c] # "absent"

\* A failure is answered with ERROR, which the page takes for news.
Subscribe(c, scope) ==
  /\ <<c, scope>> \in requests
  /\ requests' = requests \ {<<c, scope>>}
  /\ \/ MaySubscribe(c) /\ item' = [item EXCEPT ![c] = scope] /\ UNCHANGED page
     \/ UNCHANGED item /\ \E p \in OwnersOf(c) : Hears(p, {})
     \/ UNCHANGED item /\ OwnersOf(c) = {} /\ UNCHANGED page
  /\ UNCHANGED <<events, pending, lost, index, link, cast>>

\* disconnect deletes the item; a delete that fails is one that never runs.
Disconnect(c) ==
  /\ <<c, "disconnect">> \in requests
  /\ requests' = requests \ {<<c, "disconnect">>}
  /\ item' = [item EXCEPT ![c] = "absent"]
  /\ UNCHANGED <<events, pending, lost, index, link, cast, page>>

IndexedAs(c) == IF item[c] \in Scopes THEN item[c] ELSE None

Reindex(c) ==
  /\ index[c] # IndexedAs(c)
  /\ index' = [index EXCEPT ![c] = IndexedAs(c)]
  /\ UNCHANGED <<events, pending, lost, item, link, requests, cast, page>>

-------------------------------------------------------------------------------
\* THE BROADCASTER.  pc is the next await: "get" the items, "post" to the connections.

\* A variant that tells the boards what is meant for one customer.
AudienceIsQueue(e) == Queue
\* handleQueueEvent.
Audience(e) == IF e.type \in CustomerOnly THEN e.token ELSE Queue

\* The invocation ends; the event is not handed out again.
CastDone(b) ==
  /\ cast' = [cast EXCEPT ![b] = IdleCast]
  /\ pending' = pending \ {cast[b].event}

\* subscribersForScope; an event may be handed to two invocations.
Query(b, n) ==
  LET found == { c \in Connections : index[c] = Audience(events[n]) } IN
  /\ cast[b].pc = "idle"
  /\ n \in pending
  /\ IF found = {} THEN pending' = pending \ {n} /\ UNCHANGED cast
     ELSE cast' = [cast EXCEPT ![b] = [pc |-> "get", event |-> n, todo |-> found]] /\ UNCHANGED pending
  /\ UNCHANGED <<events, lost, item, index, link, requests, page>>

\* A variant that needs every item the index promised.
EndpointKnownIfAll(b) == \A c \in cast[b].todo : item[c] # "absent"
\* The endpoint to post to is taken from any of the items.
EndpointKnown(b) == \E c \in cast[b].todo : item[c] # "absent"

\* batchGet; without an endpoint nothing is posted.
Get(b) ==
  /\ cast[b].pc = "get"
  /\ IF EndpointKnown(b) THEN cast' = [cast EXCEPT ![b].pc = "post"] /\ UNCHANGED pending
     ELSE CastDone(b)
  /\ UNCHANGED <<events, lost, item, index, link, requests, page>>

\* A variant that only counts the stale connection.
ForgetNot(c) == UNCHANGED item
\* GoneException: the item is deleted.
Forget(c) == item' = [item EXCEPT ![c] = "absent"]

\* The posts run in parallel, so in any order; a failure that is not Gone is only logged.
Post(b, c) ==
  LET left == cast[b].todo \ {c} IN
  /\ cast[b].pc = "post"
  /\ c \in cast[b].todo
  /\ \/ /\ link[c] = "open"
        /\ \E p \in OwnersOf(c) : Hears(p, {cast[b].event})
        /\ UNCHANGED <<item, lost>>
     \/ link[c] = "gone" /\ Forget(c) /\ UNCHANGED <<page, lost>>
     \/ link[c] = "open" /\ lost' = lost \cup {cast[b].event} /\ UNCHANGED <<item, page>>
  /\ IF left = {} THEN CastDone(b)
     ELSE cast' = [cast EXCEPT ![b].todo = left] /\ UNCHANGED pending
  /\ UNCHANGED <<events, index, link, requests>>

\* An await throws, and so do the retries.
GiveUp(b) ==
  /\ cast[b].pc # "idle"
  /\ CastDone(b)
  /\ lost' = lost \cup {cast[b].event}
  /\ UNCHANGED <<events, item, index, link, requests, page>>

-------------------------------------------------------------------------------
CastStep(b) ==
  \/ \E n \in pending : Query(b, n)
  \/ Get(b)
  \/ \E c \in Connections : Post(b, c)

Next ==
  \/ \E type \in EventTypes : \E t \in TokensOf(type) : Commit(type, t)
  \/ \E p \in Pages : Load(p) \/ Drop(p) \/ Leave(p) \/ LeaveFails(p) \/ LeaveDone(p)
  \/ \E p \in Pages, c \in Connections : Connect(p, c)
  \/ \E c \in Connections : Register(c) \/ Disconnect(c) \/ Reindex(c)
  \/ \E c \in Connections, scope \in Scopes : Subscribe(c, scope)
  \/ \E b \in Broadcasters : CastStep(b) \/ GiveUp(b)

Spec == Init /\ [][Next]_vars

\* Accepted events are handed to a broadcaster, which goes on, the index catches up, and a
\* request to leave is answered or fails.  Nobody has to change the queue, open a page or
\* drop a socket, and the gateway runs $disconnect only best effort.
Fairness ==
  /\ \A b \in Broadcasters : WF_vars(CastStep(b))
  /\ \A c \in Connections : WF_vars(Reindex(c))
  /\ \A p \in Pages : WF_vars(LeaveFails(p) \/ LeaveDone(p))

FairSpec == Spec /\ Fairness

-------------------------------------------------------------------------------
\* PROPERTIES

\* The types of the variables.
Events == [type : EventTypes, token : Customers \cup {None}]

PagesUpTo(n) ==
  [Pages -> [pc : {"loading", "offline", "linked", "left"}, socket : 0..MaxSockets,
             asked : 0..n, leaving : BOOLEAN, missed : SUBSET (1..n)]]

TypeOK ==
  /\ events \in Seq(Events)
  /\ Len(events) <= MaxEvents
  /\ \A n \in 1..Len(events) : events[n].token \in TokensOf(events[n].type)
  /\ pending \cup lost \subseteq 1..Len(events)
  /\ item \in [Connections -> Scopes \cup {None, "absent"}]
  /\ index \in [Connections -> Scopes \cup {None}]
  /\ link \in [Connections -> {"unused", "opening", "open", "gone"}]
  /\ requests \subseteq Connections \X (Scopes \cup {"connect", "disconnect"})
  /\ cast \in [Broadcasters -> [pc : {"idle", "get", "post"}, event : 0..Len(events),
                                todo : SUBSET Connections]]
  /\ page \in PagesUpTo(Len(events))

\* A socket belongs to one page, and a page has one exactly while it is linked.
SocketsInv ==
  \A p \in Pages :
    /\ page[p].pc = "linked" <=> page[p].socket # 0
    /\ page[p].socket # 0 =>
         /\ link[page[p].socket] \in {"opening", "open"}
         /\ OwnersOf(page[p].socket) = {p}

\* An id that was not given out is known to nobody.
UnusedInv ==
  \A c \in Connections : link[c] = "unused" =>
    /\ item[c] = "absent" /\ index[c] = None
    /\ \A r \in requests : r[1] # c
    /\ \A b \in Broadcasters : c \notin cast[b].todo

\* Whatever is stored, on its way or about to be posted for the socket of a page is for the
\* scope of that page.
ScopesInv ==
  \A p \in Pages : LET c == page[p].socket IN c # 0 =>
    /\ item[c] \in {"absent", None, ScopeOf[p]}
    /\ index[c] \in {None, ScopeOf[p]}
    /\ \A r \in requests : r[1] = c => r[2] \in {"connect", ScopeOf[p]}

\* A broadcaster at work has an event, and posts it to its audience.
CastInv ==
  \A b \in Broadcasters : cast[b].pc # "idle" =>
    /\ cast[b].event # 0
    /\ \A p \in Pages : page[p].socket \in cast[b].todo =>
         Audience(events[cast[b].event]) = ScopeOf[p]

\* The registry, the index, the messages under way and the fan-outs agree with the pages.
IInv == TypeOK /\ SocketsInv /\ UnusedInv /\ ScopesInv /\ CastInv

\* A connection that was forgotten, by $disconnect or by a post that found it gone, stays
\* forgotten once its $connect was handled: a subscribe message that is handled late does not bring its item back, which
\* no later $disconnect would delete (connections.js:77).
ForgottenStaysForgotten ==
  [][\A c \in Connections :
       link[c] = "gone" /\ item[c] = "absent" /\ <<c, "connect">> \notin requests =>
         item'[c] = "absent"]_vars

\* What is meant for one customer is posted to that customer's pages only, whatever the
\* index and the sockets did since the event was committed (broadcast.js:6).
MessagesStayPrivate ==
  \A b \in Broadcasters, p \in Pages :
    cast[b].pc # "idle" /\ page[p].socket \in cast[b].todo =>
      LET e == events[cast[b].event] IN
      e.type \in CustomerOnly => ScopeOf[p] = e.token

\* Page p has a subscription that the broadcaster can find for the whole fan-out of event n.
Listens(p, n) ==
  LET c == page[p].socket IN
  /\ page[p].pc = "linked"
  /\ link[c] = "open"
  /\ item[c] = ScopeOf[p] /\ index[c] = ScopeOf[p]
  /\ n \in pending
  /\ \A b \in Broadcasters : cast[b].event # n

\* In the end page p has asked for a state that includes event n, unless its socket closed,
\* the event was lost on the way or its customer was leaving when the message came.
Settled(p, n) ==
  page[p].asked >= n \/ page[p].pc # "linked" \/ n \in lost \/ n \in page[p].missed

\* Every accepted event makes each page that listens to its scope refetch, although other
\* subscribers fail, drop or are gone already (broadcast.js:54, connections.js:110).
ListenersHear ==
  \A p \in Pages : \A n \in 1..MaxEvents :
    (Listens(p, n) /\ Audience(events[n]) = ScopeOf[p]) ~> Settled(p, n)

\* A fan-out removes each connection it finds gone (connections.js:106): an item left
\* behind by a $disconnect that failed or never ran does not outlive the next event of its
\* scope, unless that event is lost.
StaleAreForgotten ==
  \A c \in Connections : \A n \in 1..MaxEvents :
    ( /\ n \in pending
      /\ \A b \in Broadcasters : cast[b].event # n
      /\ link[c] = "gone"
      /\ item[c] = Audience(events[n]) /\ index[c] = item[c] )
    ~> (item[c] = "absent" \/ n \in lost)

\* "Customer-targeted events (token present) additionally/only go to SUB#C:{token}
\* subscribers" (broadcast.js:7): the page of the customer an event names hears of it.
TargetedEventsReachTheCustomer ==
  \A p \in Pages : \A n \in 1..MaxEvents :
    (Listens(p, n) /\ events[n].token = ScopeOf[p]) ~> Settled(p, n)
===============================================================================
