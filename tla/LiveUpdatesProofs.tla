-------------------------- MODULE LiveUpdatesProofs ---------------------------
(***************************************************************************)
(* Proofs about LiveUpdates for any number of pages, customers, sockets,   *)
(* broadcasters and events: what is meant for one customer is posted to     *)
(* that customer's pages only, and a forgotten connection stays forgotten. *)
(***************************************************************************)
EXTENDS LiveUpdates, TLAPS

\* Every event has an audience.
LEMMA AudienceIsScope ==
  ASSUME TypeOK, NEW n \in 1..Len(events)
  PROVE  Audience(events[n]) \in Scopes
<1>1. events[n] \in Events /\ events[n].token \in TokensOf(events[n].type)
  BY DEF TypeOK, PagesUpTo
<1>2. events[n].type \in CustomerOnly => events[n].token \in Customers
  BY <1>1 DEF TokensOf, CustomerOnly
<1>. QED  BY <1>2 DEF Audience, Scopes

\* A page that is linked has a connection, and no other page has it.
LEMMA SocketOfLinked ==
  ASSUME TypeOK, SocketsInv, NEW p \in Pages, page[p].pc = "linked"
  PROVE  /\ page[p].socket \in Connections
         /\ link[page[p].socket] \in {"opening", "open"}
         /\ \A q \in Pages : page[q].socket = page[p].socket => q = p
<1>1. page[p].socket # 0 /\ page[p].socket \in 0..MaxSockets
  BY DEF TypeOK, PagesUpTo, SocketsInv
<1>2. page[p].socket \in Connections
  BY <1>1, BoundsAssumption DEF Connections
<1>3. OwnersOf(page[p].socket) = {p} /\ link[page[p].socket] \in {"opening", "open"}
  BY <1>1 DEF SocketsInv
<1>. QED  BY <1>2, <1>3 DEF OwnersOf

LEMMA InitIInv == Init => IInv
<1>. SUFFICES ASSUME Init PROVE IInv
  OBVIOUS
<1>1. TypeOK
  BY BoundsAssumption DEF Init, TypeOK, PagesUpTo, IdleCast, Scopes
<1>2. SocketsInv
  BY DEF Init, SocketsInv
<1>3. UnusedInv
  BY DEF Init, UnusedInv, IdleCast
<1>4. ScopesInv
  BY DEF Init, ScopesInv
<1>5. CastInv
  BY DEF Init, CastInv, IdleCast
<1>. QED  BY <1>1, <1>2, <1>3, <1>4, <1>5 DEF IInv

-------------------------------------------------------------------------------
\* One lemma per group of actions.

LEMMA CommitKeeps ==
  ASSUME IInv, NEW type \in EventTypes, NEW token \in TokensOf(type), Commit(type, token)
  PROVE  IInv'
<1>. DEFINE e == [type |-> type, token |-> token]
<1>. USE DEF IInv
<1>1. e \in Events
  BY DEF Events, TokensOf
<1>2. /\ events' \in Seq(Events)
      /\ Len(events') = Len(events) + 1
      /\ \A n \in 1..Len(events) : events'[n] = events[n]
      /\ events'[Len(events) + 1] = e
  BY <1>1 DEF Commit, TypeOK, PagesUpTo
<1>3. Len(events) \in Nat /\ Len(events') <= MaxEvents
  BY <1>2, BoundsAssumption DEF Commit, TypeOK, PagesUpTo
<1>4. TypeOK'
  <2>1. \A n \in 1..Len(events') : events'[n].token \in TokensOf(events'[n].type)
    <3>. SUFFICES ASSUME NEW n \in 1..Len(events')
                  PROVE  events'[n].token \in TokensOf(events'[n].type)
      OBVIOUS
    <3>1. CASE n = Len(events) + 1
      BY <3>1, <1>2
    <3>2. CASE n \in 1..Len(events)
      BY <3>2, <1>2 DEF TypeOK, PagesUpTo
    <3>. QED  BY <3>1, <3>2, <1>2, <1>3
  <2>2. pending' \cup lost' \subseteq 1..Len(events')
    BY <1>2, <1>3 DEF Commit, TypeOK, PagesUpTo
  <2>3. cast' \in [Broadcasters -> [pc : {"idle", "get", "post"}, event : 0..Len(events'),
                                    todo : SUBSET Connections]]
    <3>1. \A b \in Broadcasters : cast[b] \in
            [pc : {"idle", "get", "post"}, event : 0..Len(events'), todo : SUBSET Connections]
      BY <1>2, <1>3 DEF TypeOK, PagesUpTo
    <3>. QED  BY <3>1 DEF TypeOK, PagesUpTo, Commit
  <2>4. page' \in PagesUpTo(Len(events'))
    <3>1. 0..Len(events) \subseteq 0..Len(events') /\ 1..Len(events) \subseteq 1..Len(events')
      BY <1>2, <1>3
    <3>. QED  BY <3>1 DEF TypeOK, PagesUpTo, Commit
  <2>. QED  BY <2>1, <2>2, <2>3, <2>4, <1>2, <1>3 DEF TypeOK, PagesUpTo, Commit
<1>5. SocketsInv'
  BY DEF SocketsInv, Commit, OwnersOf
<1>6. UnusedInv'
  BY DEF UnusedInv, Commit
<1>7. ScopesInv'
  BY DEF ScopesInv, Commit
<1>8. CastInv'
  <2>. SUFFICES ASSUME NEW b \in Broadcasters, cast[b].pc # "idle"
                PROVE  /\ cast[b].event # 0
                       /\ \A p \in Pages : page[p].socket \in cast[b].todo =>
                            Audience(events'[cast[b].event]) = ScopeOf[p]
    BY DEF CastInv, Commit
  <2>1. cast[b].event # 0 /\ cast[b].event \in 0..Len(events)
    BY DEF CastInv, TypeOK, PagesUpTo
  <2>2. events'[cast[b].event] = events[cast[b].event]
    BY <2>1, <1>2, <1>3
  <2>. QED  BY <2>1, <2>2 DEF CastInv
<1>. QED  BY <1>4, <1>5, <1>6, <1>7, <1>8

\* A page that hears news changes nothing the invariant speaks of but its type.
LEMMA HearsKeeps ==
  ASSUME IInv, NEW p \in Pages, NEW news \in SUBSET (1..Len(events)), Hears(p, news)
  PROVE  /\ page' \in PagesUpTo(Len(events))
         /\ \A q \in Pages : page'[q].pc = page[q].pc /\ page'[q].socket = page[q].socket
<1>1. Len(events) \in 0..Len(events) /\ page \in PagesUpTo(Len(events))
  BY DEF IInv, TypeOK
<1>2. CASE Ask(p)
  BY <1>1, <1>2 DEF PagesUpTo, Ask
<1>3. CASE page' = [page EXCEPT ![p].missed = @ \cup news]
  BY <1>1, <1>3 DEF PagesUpTo
<1>. QED  BY <1>2, <1>3 DEF Hears

\* What a page does without its socket: it loads, its customer starts to leave, is refused
\* or has left.
OnThePage(p) ==
  /\ UNCHANGED <<events, pending, lost, item, index, link, requests, cast>>
  /\ page' \in PagesUpTo(Len(events))
  /\ \A q \in Pages : page'[q].socket = page[q].socket
  /\ \A q \in Pages : page'[q].pc = "linked" <=> page[q].pc = "linked"

LEMMA OnThePageKeeps ==
  ASSUME IInv, NEW p \in Pages, OnThePage(p)
  PROVE  IInv'
<1>0. /\ UNCHANGED <<events, pending, lost, item, index, link, requests, cast>>
      /\ \A q \in Pages : page'[q].socket = page[q].socket
      /\ \A q \in Pages : page'[q].pc = "linked" <=> page[q].pc = "linked"
  BY DEF OnThePage
<1>1. TypeOK'
  BY <1>0 DEF IInv, TypeOK, OnThePage
<1>2. SocketsInv'
  <2>1. \A c : { q \in Pages : page'[q].socket = c } = { q \in Pages : page[q].socket = c }
    BY <1>0
  <2>. QED  BY <2>1, <1>0 DEF IInv, SocketsInv, OwnersOf
<1>3. UnusedInv'
  BY <1>0 DEF IInv, UnusedInv
<1>4. ScopesInv'
  BY <1>0 DEF IInv, ScopesInv
<1>5. CastInv'
  BY <1>0 DEF IInv, CastInv, Audience
<1>. QED  BY <1>1, <1>2, <1>3, <1>4, <1>5 DEF IInv

LEMMA PageKeeps ==
  ASSUME IInv, NEW p \in Pages,
         \/ Load(p) \/ Leave(p) \/ LeaveFails(p)
         \/ LeaveDone(p) /\ page[p].pc = "offline"
  PROVE  IInv'
<1>1. page \in PagesUpTo(Len(events)) /\ Len(events) \in 0..Len(events)
  BY DEF IInv, TypeOK
<1>2. CASE Load(p)
  BY <1>1, <1>2, OnThePageKeeps DEF OnThePage, Load, PagesUpTo
<1>3. CASE Leave(p)
  BY <1>1, <1>3, OnThePageKeeps DEF OnThePage, Leave, PagesUpTo
<1>4. CASE LeaveFails(p)
  BY <1>1, <1>4, OnThePageKeeps DEF OnThePage, LeaveFails, PagesUpTo
<1>5. CASE LeaveDone(p) /\ page[p].pc = "offline"
  BY <1>1, <1>5, OnThePageKeeps DEF OnThePage, LeaveDone, Close, PagesUpTo
<1>. QED  BY <1>2, <1>3, <1>4, <1>5

LEMMA ConnectKeeps ==
  ASSUME IInv, NEW p \in Pages, NEW c \in Connections, Connect(p, c)
  PROVE  IInv'
<1>. USE DEF IInv
<1>1. page[p].socket = 0 /\ c # 0 /\ c \in 0..MaxSockets
  BY BoundsAssumption DEF Connect, SocketsInv, Connections
<1>2. page'[p].socket = c /\ page'[p].pc = "linked"
  BY DEF Connect, TypeOK, PagesUpTo
<1>3. \A q \in Pages : q # p => page'[q] = page[q]
  BY DEF Connect, TypeOK, PagesUpTo
<1>4. \A q \in Pages : page[q].socket # c
  BY <1>1 DEF Connect, SocketsInv
<1>5. item[c] = "absent" /\ index[c] = None /\ (\A r \in requests : r[1] # c)
      /\ \A b \in Broadcasters : c \notin cast[b].todo
  BY DEF Connect, UnusedInv
<1>6. link'[c] = "opening" /\ \A d \in Connections : d # c => link'[d] = link[d]
  BY DEF Connect, TypeOK, PagesUpTo
<1>7. TypeOK'
  BY <1>1 DEF Connect, TypeOK, PagesUpTo
<1>8. SocketsInv'
  <2>. SUFFICES ASSUME NEW q \in Pages
                PROVE  /\ page'[q].pc = "linked" <=> page'[q].socket # 0
                       /\ page'[q].socket # 0 =>
                            /\ link'[page'[q].socket] \in {"opening", "open"}
                            /\ { o \in Pages : page'[o].socket = page'[q].socket } = {q}
    BY DEF SocketsInv, OwnersOf
  <2>1. CASE q = p
    <3>1. { o \in Pages : page'[o].socket = c } = {p}
      BY <1>2, <1>3, <1>4
    <3>. QED  BY <2>1, <3>1, <1>1, <1>2, <1>6
  <2>2. CASE q # p
    <3>1. page[q].pc = "linked" <=> page[q].socket # 0
      BY DEF SocketsInv
    <3>2. ASSUME page[q].socket # 0
          PROVE  link'[page[q].socket] \in {"opening", "open"} /\ { o \in Pages : page'[o].socket = page'[q].socket } = {q}
      <4>1. link[page[q].socket] \in {"opening", "open"} /\ OwnersOf(page[q].socket) = {q}
        BY <3>2 DEF SocketsInv
      <4>2. page[q].socket \in Connections
        BY <3>2, BoundsAssumption DEF TypeOK, PagesUpTo, Connections
      <4>3. page[q].socket # c /\ page'[q] = page[q]
        BY <1>3, <1>4, <2>2
      <4>4. link'[page[q].socket] = link[page[q].socket]
        BY <4>2, <4>3, <1>6
      <4>5. { o \in Pages : page'[o].socket = page[q].socket } = { o \in Pages : page[o].socket = page[q].socket }
        BY <4>3, <1>2, <1>3, <1>4, <3>2, <1>1
      <4>. QED  BY <4>1, <4>3, <4>4, <4>5 DEF OwnersOf
    <3>. QED  BY <3>1, <3>2, <2>2, <1>3
  <2>. QED  BY <2>1, <2>2
<1>9. UnusedInv'
  BY <1>6 DEF Connect, UnusedInv
<1>10. ScopesInv'
  <2>. SUFFICES ASSUME NEW q \in Pages, page'[q].socket # 0
                PROVE  /\ item[page'[q].socket] \in {"absent", None, ScopeOf[q]}
                       /\ index[page'[q].socket] \in {None, ScopeOf[q]}
                       /\ \A r \in requests' : r[1] = page'[q].socket => r[2] \in {"connect", ScopeOf[q]}
    BY DEF ScopesInv, Connect
  <2>1. CASE q = p
    <3>1. \A r \in requests' : r[1] = c => r[2] = "connect"
      BY <1>5 DEF Connect
    <3>. QED  BY <2>1, <3>1, <1>2, <1>5
  <2>2. CASE q # p
    <3>1. page'[q] = page[q] /\ page[q].socket # c
      BY <2>2, <1>3, <1>4
    <3>2. \A r \in requests' : r[1] = page[q].socket => r \in requests
      BY <3>1 DEF Connect
    <3>. QED  BY <3>1, <3>2 DEF ScopesInv
  <2>. QED  BY <2>1, <2>2
<1>11. CastInv'
  <2>. SUFFICES ASSUME NEW b \in Broadcasters, cast[b].pc # "idle",
                       NEW q \in Pages, page'[q].socket \in cast[b].todo
                PROVE  Audience(events[cast[b].event]) = ScopeOf[q]
    BY DEF CastInv, Connect, Audience
  <2>1. q # p
    BY <1>2, <1>5
  <2>. QED  BY <2>1, <1>3 DEF CastInv
<1>. QED  BY <1>7, <1>8, <1>9, <1>10, <1>11

\* Whether the socket drops or is closed for good.
LEMMA CloseKeeps ==
  ASSUME IInv, NEW p \in Pages, NEW pc \in {"offline", "left"}, Close(p, pc),
         UNCHANGED <<events, pending, lost, item, index, cast>>
  PROVE  IInv'
<1>. USE DEF IInv
<1>. DEFINE c == page[p].socket
<1>1. c \in Connections /\ link[c] \in {"opening", "open"} /\ \A q \in Pages : page[q].socket = c => q = p
  BY SocketOfLinked DEF Close
<1>2. page'[p].socket = 0 /\ page'[p].pc = pc
  BY DEF Close, TypeOK, PagesUpTo
<1>3. \A q \in Pages : q # p => page'[q] = page[q]
  BY DEF Close, TypeOK, PagesUpTo
<1>4. link'[c] = "gone" /\ \A d \in Connections : d # c => link'[d] = link[d]
  BY <1>1 DEF Close, TypeOK, PagesUpTo
<1>5. 0 \notin Connections
  BY BoundsAssumption DEF Connections
<1>6. TypeOK'
  <2>1. requests' \subseteq Connections \X (Scopes \cup {"connect", "disconnect"})
    BY <1>1 DEF Close, TypeOK, PagesUpTo
  <2>2. page' \in PagesUpTo(Len(events))
    <3>1. 0 \in 0..MaxSockets /\ page \in PagesUpTo(Len(events))
      BY BoundsAssumption DEF TypeOK
    <3>2. page' = [page EXCEPT ![p].pc = pc, ![p].socket = 0]
      BY DEF Close
    <3>. QED  BY <3>1, <3>2 DEF PagesUpTo
  <2>3. link' \in [Connections -> {"unused", "opening", "open", "gone"}]
    BY DEF Close, TypeOK, PagesUpTo
  <2>. QED  BY <2>1, <2>2, <2>3 DEF Close, TypeOK, PagesUpTo
<1>7. SocketsInv'
  <2>. SUFFICES ASSUME NEW q \in Pages, q # p
                PROVE  /\ page[q].pc = "linked" <=> page[q].socket # 0
                       /\ page[q].socket # 0 =>
                            /\ link'[page[q].socket] \in {"opening", "open"}
                            /\ { o \in Pages : page'[o].socket = page[q].socket } = {q}
    BY <1>2, <1>3 DEF SocketsInv, OwnersOf
  <2>1. page[q].socket # 0 => link[page[q].socket] \in {"opening", "open"} /\ OwnersOf(page[q].socket) = {q}
    BY DEF SocketsInv
  <2>2. page[q].socket # c /\ (page[q].socket # 0 => page[q].socket \in Connections)
    BY <1>1, BoundsAssumption DEF TypeOK, PagesUpTo, Connections
  <2>3. page[q].socket # 0 => { o \in Pages : page'[o].socket = page[q].socket } = {q}
    BY <2>1, <1>2, <1>3 DEF OwnersOf
  <2>. QED  BY <2>1, <2>2, <2>3, <1>4 DEF SocketsInv
<1>8. UnusedInv'
  BY <1>1, <1>4 DEF Close, UnusedInv
<1>9. ScopesInv'
  <2>. SUFFICES ASSUME NEW q \in Pages, page'[q].socket # 0
                PROVE  /\ item[page'[q].socket] \in {"absent", None, ScopeOf[q]}
                       /\ index[page'[q].socket] \in {None, ScopeOf[q]}
                       /\ \A r \in requests' : r[1] = page'[q].socket => r[2] \in {"connect", ScopeOf[q]}
    BY DEF ScopesInv, Drop
  <2>1. q # p /\ page'[q] = page[q] /\ page[q].socket # c
    BY <1>1, <1>2, <1>3
  <2>2. \A r \in requests' : r[1] = page[q].socket => r \in requests
    BY <2>1 DEF Close
  <2>. QED  BY <2>1, <2>2 DEF ScopesInv
<1>10. CastInv'
  <2>1. \A b \in Broadcasters : 0 \notin cast[b].todo
    BY <1>5 DEF TypeOK, PagesUpTo
  <2>. QED  BY <2>1, <1>2, <1>3 DEF Close, CastInv
<1>. QED  BY <1>6, <1>7, <1>8, <1>9, <1>10

-------------------------------------------------------------------------------
\* The registry and the broadcaster leave the pages their sockets.

SameSockets ==
  /\ \A q \in Pages : page'[q].pc = page[q].pc /\ page'[q].socket = page[q].socket
  /\ \A c \in Connections : link'[c] = link[c] \/ (link[c] = "opening" /\ link'[c] = "open")

LEMMA SameSocketsKeeps ==
  ASSUME IInv, SameSockets
  PROVE  SocketsInv'
<1>. SUFFICES ASSUME NEW q \in Pages
              PROVE  /\ page[q].pc = "linked" <=> page[q].socket # 0
                     /\ page[q].socket # 0 =>
                          /\ link'[page[q].socket] \in {"opening", "open"}
                          /\ { o \in Pages : page'[o].socket = page[q].socket } = {q}
  BY DEF SameSockets, SocketsInv, OwnersOf
<1>1. page[q].pc = "linked" <=> page[q].socket # 0
  BY DEF IInv, SocketsInv
<1>2. ASSUME page[q].socket # 0
      PROVE  /\ link'[page[q].socket] \in {"opening", "open"}
             /\ { o \in Pages : page'[o].socket = page[q].socket } = {q}
  <2>1. page[q].socket \in Connections
    BY <1>2, BoundsAssumption DEF IInv, TypeOK, PagesUpTo, Connections
  <2>2. link[page[q].socket] \in {"opening", "open"}
        /\ { o \in Pages : page[o].socket = page[q].socket } = {q}
    BY <1>2 DEF IInv, SocketsInv, OwnersOf
  <2>3. { o \in Pages : page'[o].socket = page[q].socket } = { o \in Pages : page[o].socket = page[q].socket }
    BY DEF SameSockets
  <2>. QED  BY <2>1, <2>2, <2>3 DEF SameSockets
<1>. QED  BY <1>1, <1>2

LEMMA RegisterKeeps ==
  ASSUME IInv, NEW c \in Connections, Register(c)
  PROVE  IInv'
<1>. USE DEF IInv
<1>1. link[c] # "unused"
  BY DEF Register, UnusedInv
<1>2. link' \in [Connections -> {"unused", "opening", "open", "gone"}]
      /\ \A d \in Connections : link'[d] = link[d] \/ (link[d] = "opening" /\ link'[d] = "open")
  BY DEF Register, TypeOK, PagesUpTo
<1>3. item' \in [Connections -> Scopes \cup {None, "absent"}]
      /\ (item'[c] = None \/ item'[c] = item[c])
      /\ \A d \in Connections : d # c => item'[d] = item[d]
  BY DEF Register, TypeOK, PagesUpTo
<1>4. \A r \in requests' : \/ r \in requests
                           \/ \E p \in OwnersOf(c) : r = <<c, ScopeOf[p]>>
  BY DEF Register, Subscription
<1>5. TypeOK'
  <2>1. requests' \subseteq Connections \X (Scopes \cup {"connect", "disconnect"})
    BY <1>4, ScopesAssumption DEF TypeOK, PagesUpTo, OwnersOf
  <2>. QED  BY <2>1, <1>2, <1>3 DEF Register, TypeOK, PagesUpTo
<1>6. SocketsInv'
  BY <1>2, SameSocketsKeeps DEF SameSockets, Register
<1>7. UnusedInv'
  BY <1>1, <1>2, <1>3, <1>4 DEF Register, UnusedInv
<1>8. ScopesInv'
  <2>. SUFFICES ASSUME NEW q \in Pages, page[q].socket # 0
                PROVE  /\ item'[page[q].socket] \in {"absent", None, ScopeOf[q]}
                       /\ index[page[q].socket] \in {None, ScopeOf[q]}
                       /\ \A r \in requests' : r[1] = page[q].socket => r[2] \in {"connect", ScopeOf[q]}
    BY DEF Register, ScopesInv
  <2>1. item'[page[q].socket] \in {"absent", None, ScopeOf[q]}
    <3>1. page[q].socket \in Connections
      BY BoundsAssumption DEF TypeOK, PagesUpTo, Connections
    <3>. QED  BY <3>1, <1>3 DEF ScopesInv
  <2>2. ASSUME NEW r \in requests', r[1] = page[q].socket
        PROVE  r[2] \in {"connect", ScopeOf[q]}
    <3>1. CASE r \in requests
      BY <3>1, <2>2 DEF ScopesInv
    <3>2. CASE r \notin requests
      <4>1. PICK p \in OwnersOf(c) : r = <<c, ScopeOf[p]>>
        BY <3>2, <2>2, <1>4
      <4>2. page[q].socket = c /\ page[p].socket = c /\ OwnersOf(c) = {q}
        BY <4>1, <2>2 DEF OwnersOf, SocketsInv
      <4>. QED  BY <4>1, <4>2
    <3>. QED  BY <3>1, <3>2
  <2>. QED  BY <2>1, <2>2 DEF ScopesInv
<1>9. CastInv'
  BY DEF Register, CastInv, Audience
<1>. QED  BY <1>5, <1>6, <1>7, <1>8, <1>9

LEMMA SubscribeKeeps ==
  ASSUME IInv, NEW c \in Connections, NEW scope \in Scopes, Subscribe(c, scope)
  PROVE  IInv'
<1>. USE DEF IInv
<1>1. link[c] # "unused"
  BY DEF Subscribe, UnusedInv
<1>2. /\ page' \in PagesUpTo(Len(events))
      /\ \A q \in Pages : page'[q].pc = page[q].pc /\ page'[q].socket = page[q].socket
  <2>1. CASE UNCHANGED page
    BY <2>1 DEF TypeOK, PagesUpTo
  <2>2. CASE \E p \in OwnersOf(c) : Hears(p, {})
    BY <2>2, HearsKeeps DEF OwnersOf
  <2>. QED  BY <2>1, <2>2 DEF Subscribe
<1>3. item' \in [Connections -> Scopes \cup {None, "absent"}]
      /\ (item'[c] = scope \/ item'[c] = item[c])
      /\ \A d \in Connections : d # c => item'[d] = item[d]
  <2>1. CASE item' = [item EXCEPT ![c] = scope]
    BY <2>1 DEF TypeOK, PagesUpTo
  <2>2. CASE UNCHANGED item
    BY <2>2 DEF TypeOK, PagesUpTo
  <2>. QED  BY <2>1, <2>2 DEF Subscribe
<1>4. requests' \subseteq requests
  BY DEF Subscribe
<1>5. TypeOK'
  BY <1>2, <1>3, <1>4 DEF Subscribe, TypeOK, PagesUpTo
<1>6. SocketsInv'
  BY <1>2, SameSocketsKeeps DEF SameSockets, Subscribe
<1>7. UnusedInv'
  BY <1>1, <1>3, <1>4 DEF Subscribe, UnusedInv
<1>8. ScopesInv'
  <2>. SUFFICES ASSUME NEW q \in Pages, page[q].socket # 0
                PROVE  /\ item'[page[q].socket] \in {"absent", None, ScopeOf[q]}
                       /\ index[page[q].socket] \in {None, ScopeOf[q]}
                       /\ \A r \in requests' : r[1] = page[q].socket => r[2] \in {"connect", ScopeOf[q]}
    BY <1>2 DEF Subscribe, ScopesInv
  <2>1. page[q].socket \in Connections
    BY BoundsAssumption DEF TypeOK, PagesUpTo, Connections
  <2>2. page[q].socket = c => scope = ScopeOf[q]
    <3>1. <<c, scope>> \in requests /\ scope # "connect"
      BY NoneAssumption DEF Subscribe
    <3>2. page[q].socket = c => \A r \in requests : r[1] = c => r[2] \in {"connect", ScopeOf[q]}
      BY DEF ScopesInv
    <3>. QED  BY <3>1, <3>2
  <2>. QED  BY <2>1, <2>2, <1>3, <1>4 DEF ScopesInv
<1>9. CastInv'
  BY <1>2 DEF Subscribe, CastInv, Audience
<1>. QED  BY <1>5, <1>6, <1>7, <1>8, <1>9

LEMMA DisconnectKeeps ==
  ASSUME IInv, NEW c \in Connections, Disconnect(c)
  PROVE  IInv'
<1>. USE DEF IInv
<1>1. TypeOK'
  BY DEF Disconnect, TypeOK, PagesUpTo
<1>2. SocketsInv'
  BY SameSocketsKeeps DEF SameSockets, Disconnect
<1>3. UnusedInv'
  BY DEF Disconnect, UnusedInv, TypeOK, PagesUpTo
<1>4. \A d \in Connections : item'[d] \in {"absent", item[d]}
  BY DEF Disconnect, TypeOK, PagesUpTo
<1>5. \A q \in Pages : page[q].socket # 0 => page[q].socket \in Connections
  BY BoundsAssumption DEF TypeOK, PagesUpTo, Connections
<1>6. ScopesInv'
  <2>. SUFFICES ASSUME NEW q \in Pages, page[q].socket # 0
                PROVE  /\ item'[page[q].socket] \in {"absent", None, ScopeOf[q]}
                       /\ index[page[q].socket] \in {None, ScopeOf[q]}
                       /\ \A r \in requests' : r[1] = page[q].socket => r[2] \in {"connect", ScopeOf[q]}
    BY DEF Disconnect, ScopesInv
  <2>1. requests' \subseteq requests
    BY DEF Disconnect
  <2>2. item'[page[q].socket] \in {"absent", item[page[q].socket]}
    BY <1>4, <1>5
  <2>. QED  BY <2>1, <2>2 DEF ScopesInv
<1>7. CastInv'
  BY DEF Disconnect, CastInv, Audience
<1>. QED  BY <1>1, <1>2, <1>3, <1>6, <1>7

LEMMA ReindexKeeps ==
  ASSUME IInv, NEW c \in Connections, Reindex(c)
  PROVE  IInv'
<1>. USE DEF IInv
<1>1. \A d \in Connections : index'[d] = index[d] \/ (d = c /\ index'[d] = IndexedAs(c))
  BY DEF Reindex, TypeOK, PagesUpTo
<1>2. IndexedAs(c) = None \/ (IndexedAs(c) = item[c] /\ item[c] \in Scopes)
  BY DEF IndexedAs
<1>3. TypeOK'
  BY <1>2 DEF Reindex, TypeOK, PagesUpTo
<1>4. SocketsInv'
  BY SameSocketsKeeps DEF SameSockets, Reindex
<1>5. UnusedInv'
  BY <1>1, <1>2, NoneAssumption DEF Reindex, UnusedInv
<1>6. \A q \in Pages : page[q].socket # 0 => page[q].socket \in Connections
  BY BoundsAssumption DEF TypeOK, PagesUpTo, Connections
<1>7. ScopesInv'
  <2>. SUFFICES ASSUME NEW q \in Pages, page[q].socket # 0
                PROVE  index'[page[q].socket] \in {None, ScopeOf[q]}
    BY DEF Reindex, ScopesInv
  <2>1. item[page[q].socket] \in {"absent", None, ScopeOf[q]} /\ index[page[q].socket] \in {None, ScopeOf[q]}
    BY DEF ScopesInv
  <2>. QED  BY <2>1, <1>1, <1>2, <1>6, NoneAssumption
<1>8. CastInv'
  BY DEF Reindex, CastInv, Audience
<1>. QED  BY <1>3, <1>4, <1>5, <1>7, <1>8

-------------------------------------------------------------------------------
\* The broadcaster only changes its own record, the events left, the items it forgets and
\* what the pages have asked after.

LEMMA CastKeeps ==
  ASSUME IInv, NEW b \in Broadcasters, NEW r,
         r \in [pc : {"idle", "get", "post"}, event : 0..Len(events), todo : SUBSET Connections],
         cast' = [cast EXCEPT ![b] = r],
         \A c \in r.todo : link[c] # "unused",
         r.pc # "idle" =>
           /\ r.event # 0
           /\ \A p \in Pages : page[p].socket \in r.todo => Audience(events[r.event]) = ScopeOf[p],
         pending' \subseteq pending,
         lost' \subseteq lost \cup ({cast[b].event} \ {0}),
         item' \in [Connections -> Scopes \cup {None, "absent"}],
         \A c \in Connections : item'[c] \in {"absent", item[c]},
         page' \in PagesUpTo(Len(events)),
         \A q \in Pages : page'[q].pc = page[q].pc /\ page'[q].socket = page[q].socket,
         UNCHANGED <<events, index, link, requests>>
  PROVE  IInv'
<1>. USE DEF IInv
<1>1. cast'[b] = r /\ \A d \in Broadcasters : d # b => cast'[d] = cast[d]
  BY DEF TypeOK, PagesUpTo
<1>2. TypeOK'
  <2>1. cast[b].event \in 0..Len(events)
    BY DEF TypeOK, PagesUpTo
  <2>2. pending' \cup lost' \subseteq 1..Len(events)
    BY <2>1 DEF TypeOK, PagesUpTo
  <2>3. cast' \in [Broadcasters -> [pc : {"idle", "get", "post"}, event : 0..Len(events),
                                    todo : SUBSET Connections]]
    BY DEF TypeOK, PagesUpTo
  <2>. QED  BY <2>2, <2>3 DEF TypeOK, PagesUpTo
<1>3. SocketsInv'
  BY SameSocketsKeeps DEF SameSockets
<1>4. UnusedInv'
  <2>. SUFFICES ASSUME NEW c \in Connections, link[c] = "unused"
                PROVE  /\ item'[c] = "absent" /\ index[c] = None
                       /\ \A q \in requests : q[1] # c
                       /\ \A d \in Broadcasters : c \notin cast'[d].todo
    BY DEF UnusedInv
  <2>1. \A d \in Broadcasters : c \notin cast'[d].todo
    BY <1>1 DEF UnusedInv
  <2>. QED  BY <2>1 DEF UnusedInv
<1>5. ScopesInv'
  <2>. SUFFICES ASSUME NEW q \in Pages, page[q].socket # 0
                PROVE  /\ item'[page[q].socket] \in {"absent", None, ScopeOf[q]}
                       /\ index[page[q].socket] \in {None, ScopeOf[q]}
                       /\ \A x \in requests : x[1] = page[q].socket => x[2] \in {"connect", ScopeOf[q]}
    BY DEF ScopesInv
  <2>1. page[q].socket \in Connections
    BY BoundsAssumption DEF TypeOK, PagesUpTo, Connections
  <2>. QED  BY <2>1 DEF ScopesInv
<1>6. CastInv'
  <2>. SUFFICES ASSUME NEW d \in Broadcasters, cast'[d].pc # "idle"
                PROVE  /\ cast'[d].event # 0
                       /\ \A p \in Pages : page[p].socket \in cast'[d].todo =>
                            Audience(events[cast'[d].event]) = ScopeOf[p]
    BY DEF CastInv, Audience
  <2>1. CASE d = b
    BY <2>1, <1>1
  <2>2. CASE d # b
    BY <2>2, <1>1 DEF CastInv
  <2>. QED  BY <2>1, <2>2
<1>. QED  BY <1>2, <1>3, <1>4, <1>5, <1>6

\* The record of a broadcaster with less to do is as good as before.
LEMMA LessToDo ==
  ASSUME IInv, NEW b \in Broadcasters, cast[b].pc # "idle",
         NEW r, r \in [pc : {"get", "post"}, event : {cast[b].event}, todo : SUBSET cast[b].todo]
  PROVE  /\ r \in [pc : {"idle", "get", "post"}, event : 0..Len(events), todo : SUBSET Connections]
         /\ \A c \in r.todo : link[c] # "unused"
         /\ r.event # 0
         /\ \A p \in Pages : page[p].socket \in r.todo => Audience(events[r.event]) = ScopeOf[p]
<1>1. cast[b] \in [pc : {"idle", "get", "post"}, event : 0..Len(events), todo : SUBSET Connections]
  BY DEF IInv, TypeOK, PagesUpTo
<1>2. \A c \in cast[b].todo : link[c] # "unused"
  BY <1>1 DEF IInv, UnusedInv
<1>. QED  BY <1>1, <1>2 DEF IInv, CastInv

\* So is the idle record.
LEMMA IdleIsProper ==
  ASSUME IInv
  PROVE  /\ IdleCast \in [pc : {"idle", "get", "post"}, event : 0..Len(events), todo : SUBSET Connections]
         /\ IdleCast.todo = {} /\ IdleCast.pc = "idle"
BY DEF IdleCast, IInv, TypeOK, PagesUpTo

LEMMA QueryKeeps ==
  ASSUME IInv, NEW b \in Broadcasters, NEW n \in pending, Query(b, n)
  PROVE  IInv'
<1>. DEFINE found == { c \in Connections : index[c] = Audience(events[n]) }
            r == [pc |-> "get", event |-> n, todo |-> found]
<1>1. n \in 1..Len(events) /\ Audience(events[n]) \in Scopes
  BY AudienceIsScope DEF IInv, TypeOK, PagesUpTo
<1>2. CASE found = {}
  <2>1. pending' = pending \ {n} /\ UNCHANGED <<events, lost, item, index, link, requests, page, cast>>
    BY <1>2 DEF Query
  <2>2. TypeOK' /\ UnusedInv' /\ ScopesInv'
    BY <2>1 DEF IInv, TypeOK, PagesUpTo, UnusedInv, ScopesInv
  <2>3. SocketsInv' /\ CastInv'
    BY <2>1 DEF IInv, SocketsInv, CastInv, OwnersOf, Audience
  <2>. QED  BY <2>2, <2>3 DEF IInv
<1>3. CASE found # {}
  <2>1. cast' = [cast EXCEPT ![b] = r] /\ UNCHANGED <<events, pending, lost, item, index, link, requests, page>>
    BY <1>3 DEF Query
  <2>2. r \in [pc : {"idle", "get", "post"}, event : 0..Len(events), todo : SUBSET Connections]
    BY <1>1
  <2>3. \A c \in found : link[c] # "unused"
    BY <1>1, NoneAssumption DEF IInv, UnusedInv
  <2>4. ASSUME NEW p \in Pages, page[p].socket \in found
        PROVE  Audience(events[n]) = ScopeOf[p]
    <3>1. page[p].socket # 0
      BY <2>4, BoundsAssumption DEF Connections
    <3>2. index[page[p].socket] \in {None, ScopeOf[p]}
      BY <3>1 DEF IInv, ScopesInv
    <3>. QED  BY <3>2, <2>4, <1>1, NoneAssumption
  <2>5. \A c \in Connections : item'[c] \in {"absent", item[c]}
    BY <2>1
  <2>6. lost' \subseteq lost \cup ({cast[b].event} \ {0})
    BY <2>1 DEF IInv, TypeOK, PagesUpTo
  <2>. HIDE DEF found
  <2>7. /\ item' \in [Connections -> Scopes \cup {None, "absent"}]
        /\ page' \in PagesUpTo(Len(events))
    BY <2>1 DEF IInv, TypeOK, PagesUpTo
  <2>8. n # 0 /\ r.todo = found /\ r.event = n
    BY <1>1
  <2>9. r.pc # "idle" =>
          /\ r.event # 0
          /\ \A p \in Pages : page[p].socket \in r.todo => Audience(events[r.event]) = ScopeOf[p]
    BY <2>4, <2>8
  <2>. HIDE DEF r
  <2>. QED  BY <2>1, <2>2, <2>3, <2>5, <2>6, <2>7, <2>8, <2>9, CastKeeps
<1>. QED  BY <1>2, <1>3

\* A broadcaster at work goes on with less to do, or is done.
LEMMA ProgressKeeps ==
  ASSUME IInv, NEW b \in Broadcasters, cast[b].pc # "idle",
         \/ CastDone(b)
         \/ /\ \E pc \in {"get", "post"}, todo \in SUBSET cast[b].todo :
                 cast' = [cast EXCEPT ![b] = [pc |-> pc, event |-> cast[b].event, todo |-> todo]]
            /\ UNCHANGED pending,
         lost' \subseteq lost \cup {cast[b].event},
         item' \in [Connections -> Scopes \cup {None, "absent"}],
         \A c \in Connections : item'[c] \in {"absent", item[c]},
         page' \in PagesUpTo(Len(events)),
         \A q \in Pages : page'[q].pc = page[q].pc /\ page'[q].socket = page[q].socket,
         UNCHANGED <<events, index, link, requests>>
  PROVE  IInv'
<1>1. lost' \subseteq lost \cup ({cast[b].event} \ {0})
  BY DEF IInv, CastInv
<1>2. CASE CastDone(b)
  <2>1. cast' = [cast EXCEPT ![b] = IdleCast] /\ pending' \subseteq pending
    BY <1>2 DEF CastDone
  <2>2. \A c \in IdleCast.todo : link[c] # "unused"
    BY IdleIsProper
  <2>3. /\ IdleCast \in [pc : {"idle", "get", "post"}, event : 0..Len(events), todo : SUBSET Connections]
        /\ IdleCast.pc = "idle"
    BY IdleIsProper
  <2>. QED  BY <1>1, <2>1, <2>2, <2>3, CastKeeps
<1>3. CASE ~ CastDone(b)
  <2>1. PICK pc \in {"get", "post"}, todo \in SUBSET cast[b].todo :
          cast' = [cast EXCEPT ![b] = [pc |-> pc, event |-> cast[b].event, todo |-> todo]]
    BY <1>3
  <2>. DEFINE r == [pc |-> pc, event |-> cast[b].event, todo |-> todo]
  <2>2. r \in [pc : {"get", "post"}, event : {cast[b].event}, todo : SUBSET cast[b].todo]
    OBVIOUS
  <2>3. cast' = [cast EXCEPT ![b] = r] /\ pending' \subseteq pending
    BY <1>3, <2>1
  <2>. HIDE DEF r
  <2>4. /\ r \in [pc : {"idle", "get", "post"}, event : 0..Len(events), todo : SUBSET Connections]
        /\ \A c \in r.todo : link[c] # "unused"
        /\ r.event # 0
        /\ \A p \in Pages : page[p].socket \in r.todo => Audience(events[r.event]) = ScopeOf[p]
    BY <2>2, LessToDo
  <2>. QED  BY <1>1, <2>3, <2>4, CastKeeps
<1>. QED  BY <1>2, <1>3

LEMMA GetKeeps ==
  ASSUME IInv, NEW b \in Broadcasters, Get(b)
  PROVE  IInv'
<1>1. \/ CastDone(b)
      \/ /\ \E pc \in {"get", "post"}, todo \in SUBSET cast[b].todo :
              cast' = [cast EXCEPT ![b] = [pc |-> pc, event |-> cast[b].event, todo |-> todo]]
         /\ UNCHANGED pending
  <2>1. cast[b] \in [pc : {"idle", "get", "post"}, event : 0..Len(events), todo : SUBSET Connections]
    BY DEF IInv, TypeOK, PagesUpTo
  <2>2. [cast[b] EXCEPT !.pc = "post"] = [pc |-> "post", event |-> cast[b].event, todo |-> cast[b].todo]
    BY <2>1
  <2>3. [cast EXCEPT ![b].pc = "post"]
        = [cast EXCEPT ![b] = [pc |-> "post", event |-> cast[b].event, todo |-> cast[b].todo]]
    BY <2>2, Zenon
  <2>. QED  BY <2>3 DEF Get
<1>2. cast[b].pc # "idle" /\ UNCHANGED <<events, lost, item, index, link, requests, page>>
  BY DEF Get
<1>3. /\ item' \in [Connections -> Scopes \cup {None, "absent"}]
      /\ page' \in PagesUpTo(Len(events))
  BY <1>2 DEF IInv, TypeOK, PagesUpTo
<1>. QED  BY <1>1, <1>2, <1>3, ProgressKeeps

LEMMA PostKeeps ==
  ASSUME IInv, NEW b \in Broadcasters, NEW c \in Connections, Post(b, c)
  PROVE  IInv'
<1>1. cast[b].pc = "post"
  BY DEF Post
<1>2. \/ CastDone(b)
      \/ /\ \E pc \in {"get", "post"}, todo \in SUBSET cast[b].todo :
              cast' = [cast EXCEPT ![b] = [pc |-> pc, event |-> cast[b].event, todo |-> todo]]
         /\ UNCHANGED pending
  <2>. DEFINE left == cast[b].todo \ {c}
  <2>1. cast[b] \in [pc : {"idle", "get", "post"}, event : 0..Len(events), todo : SUBSET Connections]
    BY DEF IInv, TypeOK, PagesUpTo
  <2>. HIDE DEF left
  <2>2. [cast[b] EXCEPT !.todo = left] = [pc |-> "post", event |-> cast[b].event, todo |-> left]
    BY <1>1, <2>1
  <2>3. [cast EXCEPT ![b].todo = left]
        = [cast EXCEPT ![b] = [pc |-> "post", event |-> cast[b].event, todo |-> left]]
    BY <2>2, Zenon
  <2>. QED  BY <2>3 DEF Post, left
<1>3. /\ item' \in [Connections -> Scopes \cup {None, "absent"}]
      /\ \A d \in Connections : item'[d] \in {"absent", item[d]}
  <2>1. CASE UNCHANGED item
    BY <2>1 DEF IInv, TypeOK, PagesUpTo
  <2>2. CASE Forget(c)
    BY <2>2 DEF Forget, IInv, TypeOK, PagesUpTo
  <2>. QED  BY <2>1, <2>2 DEF Post
<1>4. /\ page' \in PagesUpTo(Len(events))
      /\ \A q \in Pages : page'[q].pc = page[q].pc /\ page'[q].socket = page[q].socket
  <2>1. CASE UNCHANGED page
    BY <2>1 DEF IInv, TypeOK, PagesUpTo
  <2>2. CASE \E p \in OwnersOf(c) : Hears(p, {cast[b].event})
    <3>1. cast[b].event \in 1..Len(events)
      BY <1>1 DEF IInv, TypeOK, CastInv
    <3>. QED  BY <2>2, <3>1, HearsKeeps DEF OwnersOf
  <2>. QED  BY <2>1, <2>2 DEF Post
<1>5. /\ cast[b].pc # "idle" /\ UNCHANGED <<events, index, link, requests>>
      /\ lost' \subseteq lost \cup {cast[b].event}
  BY DEF Post
<1>. QED  BY <1>2, <1>3, <1>4, <1>5, ProgressKeeps

LEMMA GiveUpKeeps ==
  ASSUME IInv, NEW b \in Broadcasters, GiveUp(b)
  PROVE  IInv'
<1>1. /\ CastDone(b) /\ cast[b].pc # "idle" /\ UNCHANGED <<events, index, link, requests, item, page>>
      /\ lost' \subseteq lost \cup {cast[b].event}
  BY DEF GiveUp
<1>2. /\ item' \in [Connections -> Scopes \cup {None, "absent"}]
      /\ page' \in PagesUpTo(Len(events))
  BY <1>1 DEF IInv, TypeOK, PagesUpTo
<1>. QED  BY <1>1, <1>2, ProgressKeeps

-------------------------------------------------------------------------------
LEMMA NextIInv == IInv /\ [Next]_vars => IInv'
<1>. SUFFICES ASSUME IInv, [Next]_vars PROVE IInv'
  OBVIOUS
<1>1. ASSUME NEW type \in EventTypes, NEW t \in TokensOf(type), Commit(type, t) PROVE IInv'
  BY <1>1, CommitKeeps
<1>2. ASSUME NEW p \in Pages, Load(p) \/ Leave(p) \/ LeaveFails(p) PROVE IInv'
  BY <1>2, PageKeeps
<1>3. ASSUME NEW p \in Pages, Drop(p) \/ LeaveDone(p) PROVE IInv'
  BY <1>3, CloseKeeps, PageKeeps DEF Drop, LeaveDone
<1>4. ASSUME NEW p \in Pages, NEW c \in Connections, Connect(p, c) PROVE IInv'
  BY <1>4, ConnectKeeps
<1>5. ASSUME NEW c \in Connections, Register(c) PROVE IInv'
  BY <1>5, RegisterKeeps
<1>6. ASSUME NEW c \in Connections, Disconnect(c) PROVE IInv'
  BY <1>6, DisconnectKeeps
<1>7. ASSUME NEW c \in Connections, Reindex(c) PROVE IInv'
  BY <1>7, ReindexKeeps
<1>8. ASSUME NEW c \in Connections, NEW scope \in Scopes, Subscribe(c, scope) PROVE IInv'
  BY <1>8, SubscribeKeeps
<1>9. ASSUME NEW b \in Broadcasters, CastStep(b) PROVE IInv'
  BY <1>9, QueryKeeps, GetKeeps, PostKeeps DEF CastStep
<1>10. ASSUME NEW b \in Broadcasters, GiveUp(b) PROVE IInv'
  BY <1>10, GiveUpKeeps
<1>11. CASE UNCHANGED vars
  <2>1. TypeOK' /\ UnusedInv' /\ ScopesInv'
    BY <1>11 DEF vars, IInv, TypeOK, PagesUpTo, UnusedInv, ScopesInv
  <2>2. SocketsInv' /\ CastInv'
    BY <1>11 DEF vars, IInv, SocketsInv, CastInv, OwnersOf, Audience
  <2>. QED  BY <2>1, <2>2 DEF IInv
<1>. QED  BY <1>1, <1>2, <1>3, <1>4, <1>5, <1>6, <1>7, <1>8, <1>9, <1>10, <1>11 DEF Next

\* What is stored, on its way or about to be posted for the socket of a page is for the
\* scope of that page, in every state of every run.
THEOREM Invariant == Spec => []IInv
BY InitIInv, NextIInv, PTL DEF Spec

\* An event for one customer is posted to that customer's pages only, for any number of
\* pages, customers, sockets and events and however sockets, index and fan-outs interleave.
THEOREM Private == Spec => []MessagesStayPrivate
<1>1. IInv => MessagesStayPrivate
  <2>. SUFFICES ASSUME IInv, NEW b \in Broadcasters, NEW p \in Pages,
                       cast[b].pc # "idle", page[p].socket \in cast[b].todo,
                       events[cast[b].event].type \in CustomerOnly
                PROVE  ScopeOf[p] = events[cast[b].event].token
    BY DEF MessagesStayPrivate
  <2>. QED  BY DEF IInv, CastInv, Audience
<1>. QED  BY <1>1, Invariant, PTL

\* A connection that was forgotten is never stored again, for any number of connections.
THEOREM Forgotten == Spec => ForgottenStaysForgotten
<1>1. IInv /\ [Next]_vars =>
        [\A c \in Connections :
           link[c] = "gone" /\ item[c] = "absent" /\ <<c, "connect">> \notin requests =>
             item'[c] = "absent"]_vars
  <2>. SUFFICES ASSUME IInv, Next, NEW c \in Connections,
                       link[c] = "gone", item[c] = "absent", <<c, "connect">> \notin requests
                PROVE  item'[c] = "absent"
    BY DEF vars
  <2>1. ASSUME NEW d \in Connections, Register(d) PROVE item'[c] = "absent"
    BY <2>1 DEF Register, IInv, TypeOK, PagesUpTo
  <2>2. ASSUME NEW d \in Connections, NEW scope \in Scopes, Subscribe(d, scope)
        PROVE  item'[c] = "absent"
    BY <2>2 DEF Subscribe, MaySubscribe, IInv, TypeOK, PagesUpTo
  <2>3. ASSUME NEW d \in Connections, Disconnect(d) PROVE item'[c] = "absent"
    BY <2>3 DEF Disconnect, IInv, TypeOK, PagesUpTo
  <2>4. ASSUME NEW b \in Broadcasters, NEW d \in Connections, Post(b, d) PROVE item'[c] = "absent"
    BY <2>4 DEF Post, Forget, IInv, TypeOK, PagesUpTo
  <2>5. ASSUME UNCHANGED item PROVE item'[c] = "absent"
    BY <2>5
  <2>. QED  BY <2>1, <2>2, <2>3, <2>4, <2>5
            DEF Next, CastStep, Commit, Load, Drop, Close, Leave, LeaveFails, LeaveDone, Connect,
                Reindex, Query, Get, GiveUp
<1>. QED  BY <1>1, Invariant, PTL DEF Spec, ForgottenStaysForgotten
===============================================================================
