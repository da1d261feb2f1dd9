------------------------- MODULE NotificationsProofs --------------------------
(***************************************************************************)
(* Proof that no notification is sent twice, whatever EventBridge and SQS   *)
(* deliver again and wherever a worker stops: for any number of events,    *)
(* customers and workers, any batch size and any pattern of store errors.   *)
(*                                                                         *)
(* A step of a worker w replaces its record by one of three kinds: it       *)
(* claims a notice nobody had claimed, it goes on sending the notice it     *)
(* has, or it is not sending.  Each kind preserves the invariant.          *)
(*                                                                         *)
(* Then that no message is dropped before its notices were claimed, and    *)
(* that the pipeline implements NotificationPromise.                       *)
(***************************************************************************)
EXTENDS Notifications, TLAPS

\* What a record of an invocation may be.
Proper(r) == r \in WorkerType /\ Engaged(r)

\* The three kinds of worker steps; r is the new record.
Rests(w, r) ==
  /\ ~ Sending(r)
  /\ log \subseteq log'
  /\ UNCHANGED sent
Claims(w, r) ==
  /\ r.pc \in {"contact", "email"}
  /\ Notice(r) \notin log
  /\ log' = log \cup {Notice(r)}
  /\ UNCHANGED sent
Proceeds(w, r) ==
  /\ worker[w].pc = "contact"
  /\ r.pc = "email"
  /\ Notice(r) = Notice(worker[w])
  /\ UNCHANGED <<log, refused, sent>>
Sends(w, r) ==
  /\ worker[w].pc \in Channels
  /\ worker[w].pc = "email" => r.pc = "sms" /\ Notice(r) = Notice(worker[w])
  /\ worker[w].pc = "sms" => ~ Sending(r)
  /\ \/ UNCHANGED sent
     \/ sent' = [sent EXCEPT ![<<Notice(worker[w]), worker[w].pc>>] = @ + 1]
  /\ UNCHANGED log
Kind(w, r) == Rests(w, r) \/ Claims(w, r) \/ Proceeds(w, r) \/ Sends(w, r)

\* A step of worker w that puts r in its place.
Replaces(w, r) ==
  /\ worker' = [worker EXCEPT ![w] = r]
  /\ Proper(r)
  /\ log' \subseteq Notices /\ refused' \subseteq Notices
  /\ Kind(w, r)

-------------------------------------------------------------------------------
\* Records.

\* The first message of a batch is one, and its event is one.
LEMMA Messages1 ==
  ASSUME NEW b \in Seq(Messages), b # <<>>
  PROVE  /\ Head(b) \in Messages /\ EventOf(Head(b)) \in Events
         /\ Tail(b) \in Seq(Messages)
<1>1. Head(b) \in Messages /\ Tail(b) \in Seq(Messages)
  OBVIOUS
<1>. QED  BY <1>1 DEF Messages, EventOf

\* Taking up a batch makes a proper record that is not sending.
LEMMA BeginProper ==
  ASSUME NEW b \in Seq(Messages), NEW h \in SUBSET Messages
  PROVE  Proper(Begin(b, h)) /\ ~ Sending(Begin(b, h))
<1>. DEFINE pc == IF b = <<>> THEN "finish"
                  ELSE IF EventOf(Head(b)) \in Closures THEN "list" ELSE "claim"
            r == [pc |-> pc, batch |-> b, handled |-> h, todo |-> {}, contact |-> {}]
<1>1. Begin(b, h) = r
  BY DEF Begin
<1>2. r \in WorkerType
  BY DEF WorkerType, Pcs
<1>3. b # <<>> /\ EventOf(Head(b)) \notin Closures => EventOf(Head(b)) \in Targeted
  BY Messages1 DEF Events
<1>4. Engaged(r)
  BY <1>3 DEF Engaged, Record, Channels
<1>5. ~ Sending(r)
  BY DEF Sending, Channels
<1>. QED  BY <1>1, <1>2, <1>4, <1>5 DEF Proper

\* An idle record is proper and not sending.
LEMMA IdleProper == Proper(IdleWorker) /\ ~ Sending(IdleWorker)
<1>1. IdleWorker \in WorkerType
  BY DEF IdleWorker, WorkerType, Pcs
<1>2. Engaged(IdleWorker)
  BY DEF IdleWorker, Engaged, Channels
<1>. QED  BY <1>1, <1>2 DEF Proper, Sending, Channels, IdleWorker

\* The notice of a record that is about to claim or send is one.
LEMMA NoticeIsOne ==
  ASSUME NEW r, Proper(r), r.pc \in {"claim", "contact", "claimCustomer", "email", "sms"}
  PROVE  Notice(r) \in Notices
<1>1. r.batch \in Seq(Messages) /\ r.batch # <<>> /\ r.todo \subseteq Tickets
  BY DEF Proper, WorkerType, Engaged
<1>2. EventOf(Record(r)) \in Events
  BY <1>1, Messages1 DEF Record
<1>3. \/ EventOf(Record(r)) \in Targeted /\ r.todo = {}
      \/ EventOf(Record(r)) \in Closures /\ r.todo # {}
  <2>1. CASE r.pc \in {"claim", "contact"}
    BY <2>1 DEF Proper, Engaged
  <2>2. CASE r.pc = "claimCustomer"
    BY <2>2 DEF Proper, Engaged
  <2>3. CASE r.pc \in Channels
    <3>1. EventOf(Record(r)) \in Closures <=> r.todo # {}
      BY <2>3 DEF Proper, Engaged
    <3>. QED  BY <3>1, <1>2 DEF Events
  <2>. QED  BY <2>1, <2>2, <2>3 DEF Channels
<1>4. r.todo # {} => Customer(r) \in Tickets
  BY <1>1 DEF Customer
<1>. QED  BY <1>3, <1>4 DEF Notice, Notices, Customer

\* After processNotification returned or threw, the next record is taken up.
LEMMA HandledRests ==
  ASSUME TypeOK, NEW w \in Workers, worker[w].batch # <<>>, Handled(w) \/ Failed(w)
  PROVE  \E r : worker' = [worker EXCEPT ![w] = r] /\ Proper(r) /\ ~ Sending(r)
<1>1. worker[w].batch \in Seq(Messages) /\ worker[w].handled \subseteq Messages
  BY DEF TypeOK, WorkerType
<1>2. Tail(worker[w].batch) \in Seq(Messages) /\ Record(worker[w]) \in Messages
  BY <1>1, Messages1 DEF Record
<1>3. CASE Handled(w)
  <2>. DEFINE r == Begin(Tail(worker[w].batch), worker[w].handled \cup {Record(worker[w])})
  <2>1. worker' = [worker EXCEPT ![w] = r]
    BY <1>3 DEF Handled, WorkerTo
  <2>2. Proper(r) /\ ~ Sending(r)
    BY <1>1, <1>2, BeginProper
  <2>. QED  BY <2>1, <2>2
<1>4. CASE Failed(w)
  <2>. DEFINE r == Begin(Tail(worker[w].batch), worker[w].handled)
  <2>1. worker' = [worker EXCEPT ![w] = r]
    BY <1>4 DEF Failed, WorkerTo
  <2>2. Proper(r) /\ ~ Sending(r)
    BY <1>1, <1>2, BeginProper
  <2>. QED  BY <2>1, <2>2
<1>. QED  BY <1>3, <1>4

\* So it is when the loop over the customers goes on, for a closure.
LEMMA NextRests ==
  ASSUME TypeOK, NEW w \in Workers, worker[w].batch # <<>>, NEW todo \in SUBSET Tickets,
         todo # {} => EventOf(Record(worker[w])) \in Closures, NextCustomer(w, todo)
  PROVE  \E r : worker' = [worker EXCEPT ![w] = r] /\ Proper(r) /\ ~ Sending(r)
<1>1. CASE todo = {}
  BY <1>1, HandledRests DEF NextCustomer
<1>2. CASE todo # {}
  <2>. DEFINE r == [worker[w] EXCEPT !.pc = "claimCustomer", !.todo = todo, !.contact = {}]
  <2>1. worker' = [worker EXCEPT ![w] = r]
    BY <1>2 DEF NextCustomer, ClaimNext, WorkerTo
  <2>2. worker[w] \in WorkerType
    BY DEF TypeOK
  <2>3. r \in WorkerType
    BY <2>2 DEF WorkerType, Pcs
  <2>4. r.pc = "claimCustomer" /\ r.todo = todo /\ r.batch = worker[w].batch
    BY <2>2 DEF WorkerType
  <2>5. Engaged(r) /\ ~ Sending(r)
    BY <1>2, <2>4 DEF Engaged, Record, Sending, Channels
  <2>. QED  BY <2>1, <2>3, <2>5 DEF Proper
<1>. QED  BY <1>1, <1>2

-------------------------------------------------------------------------------
\* Every worker step is of one of the kinds, and the items keep their types.

\* What the steps of the others, and the worker's own, do to the types of the items.
ItemTypes ==
  /\ event \in [Events -> {"uncommitted", "published", "lost", "undeliverable"}]
  /\ message \in [Messages -> [state : {"absent", "visible", "inflight", "deleted", "dead"},
                               receives : Nat]]
  /\ place \in [Tickets -> {"coming", "waiting", "gone"}]

LEMMA ReceiveStep ==
  ASSUME IInv, NEW w \in Workers, Receive(w)
  PROVE  ItemTypes' /\ \E r : Replaces(w, r)
<1>1. PICK b \in Batches :
        /\ message' = [m \in Messages |->
                         IF InBatch(b, m)
                           THEN [state |-> "inflight", receives |-> message[m].receives + 1]
                           ELSE message[m]]
        /\ WorkerTo(w, Begin(b, {}))
  BY DEF Receive
<1>2. b \in Seq(Messages)
  <2>1. PICK k \in 1..BatchSize : b \in [1..k -> Visible]
    BY DEF Batches
  <2>2. b \in [1..k -> Messages]
    BY <2>1 DEF Visible
  <2>3. k \in Nat
    BY LimitsAssumption
  <2>. QED  BY <2>2, <2>3
<1>3. Proper(Begin(b, {})) /\ ~ Sending(Begin(b, {}))
  BY <1>2, BeginProper
<1>4. ItemTypes'
  <2>1. message' \in [Messages -> [state : {"absent", "visible", "inflight", "deleted", "dead"},
                                   receives : Nat]]
    BY <1>1 DEF IInv, TypeOK
  <2>. QED  BY <2>1 DEF ItemTypes, IInv, TypeOK, Receive
<1>5. Replaces(w, Begin(b, {}))
  BY <1>1, <1>3 DEF Replaces, Kind, Rests, WorkerTo, Receive, IInv, TypeOK
<1>. QED  BY <1>4, <1>5

\* A step that ends sending or never began, and leaves the items alone.
LEMMA RestStep ==
  ASSUME IInv, NEW w \in Workers, UNCHANGED <<event, message, place, sent>>,
         log \subseteq log', log' \subseteq Notices, refused' \subseteq Notices,
         \E r : worker' = [worker EXCEPT ![w] = r] /\ Proper(r) /\ ~ Sending(r)
  PROVE  ItemTypes' /\ \E r : Replaces(w, r)
<1>1. ItemTypes'
  BY DEF ItemTypes, IInv, TypeOK
<1>2. PICK r : worker' = [worker EXCEPT ![w] = r] /\ Proper(r) /\ ~ Sending(r)
  OBVIOUS
<1>3. Replaces(w, r)
  BY <1>2 DEF Replaces, Kind, Rests
<1>. QED  BY <1>1, <1>3

\* A record that goes on to the first send keeps its notice.
LEMMA SameNotice ==
  ASSUME TypeOK, NEW w \in Workers, NEW contact \in SUBSET Channels,
         NEW r, r = [worker[w] EXCEPT !.pc = "email", !.contact = contact]
  PROVE  /\ Notice(r) = Notice(worker[w])
         /\ r.pc = "email" /\ r.batch = worker[w].batch /\ r.todo = worker[w].todo
         /\ r \in WorkerType
<1>1. worker[w] \in WorkerType
  BY DEF TypeOK
<1>2. /\ r.pc = "email" /\ r.batch = worker[w].batch /\ r.todo = worker[w].todo
      /\ r \in WorkerType
  BY <1>1 DEF WorkerType, Pcs
<1>. QED  BY <1>2 DEF Notice, Customer, Record

\* What a put, done, failed or refused, leaves in the two sets of notices.
Puts(w) ==
  /\ log' \in {log, log \cup {Notice(worker[w])}}
  /\ refused' \in {refused, refused \cup {Notice(worker[w])}}

LEMMA ClaimStep ==
  ASSUME IInv, NEW w \in Workers, Claim(w)
  PROVE  ItemTypes' /\ \E r : Replaces(w, r)
<1>. USE DEF IInv
<1>1. worker[w].pc = "claim" /\ worker[w].batch # <<>> /\ Proper(worker[w])
      /\ UNCHANGED <<event, message, place, sent>>
  BY DEF Claim, TypeOK, Proper, Engaged
<1>2. Notice(worker[w]) \in Notices
  BY <1>1, NoticeIsOne
<1>3. CASE Unclaimed(Notice(worker[w])) /\ Written(w)
           /\ WorkerTo(w, [worker[w] EXCEPT !.pc = "contact"])
  <2>. DEFINE r == [worker[w] EXCEPT !.pc = "contact"]
  <2>1. worker[w] \in WorkerType
    BY DEF TypeOK
  <2>2. /\ r \in WorkerType /\ r.pc = "contact" /\ r.batch = worker[w].batch
        /\ r.todo = worker[w].todo
    BY <2>1 DEF WorkerType, Pcs
  <2>3. Notice(r) = Notice(worker[w])
    BY <2>2 DEF Notice, Customer, Record
  <2>4. Engaged(r)
    BY <2>2, <1>1 DEF Engaged, Proper, Record, Channels
  <2>5. Claims(w, r)
    BY <2>2, <2>3, <1>1, <1>3 DEF Claims, Unclaimed, Written
  <2>6. log' \subseteq Notices /\ refused' \subseteq Notices
    BY <1>2, <1>3 DEF TypeOK, Written
  <2>7. Replaces(w, r)
    BY <1>3, <2>2, <2>4, <2>5, <2>6 DEF Replaces, Kind, Proper, WorkerTo
  <2>. QED  BY <2>7, <1>1 DEF ItemTypes, TypeOK
<1>4. CASE /\ Handled(w) \/ Failed(w)
           /\ Puts(w)
  <2>1. log \subseteq log' /\ log' \subseteq Notices /\ refused' \subseteq Notices
    BY <1>2, <1>4 DEF TypeOK, Puts
  <2>. QED  BY <1>1, <1>4, <2>1, HandledRests, RestStep
<1>. QED  BY <1>3, <1>4 DEF Claim, ClaimThrows, Refused, Written, Puts

LEMMA ContactStep ==
  ASSUME IInv, NEW w \in Workers, Contact(w)
  PROVE  ItemTypes' /\ \E r : Replaces(w, r)
<1>. USE DEF IInv
<1>1. worker[w].pc = "contact" /\ worker[w].batch # <<>> /\ Proper(worker[w])
      /\ UNCHANGED <<event, message, place, log, refused, sent>>
  BY DEF Contact, TypeOK, Proper, Engaged
<1>2. EventOf(Record(worker[w])) \in Targeted
  BY <1>1 DEF Proper, Engaged
<1>3. PICK contact \in {ContactsOf[TicketOf[EventOf(Record(worker[w]))]]}
                         \cup (IF "contact" \in Failing THEN {{}} ELSE {}) :
        IF contact = {} THEN Handled(w)
        ELSE WorkerTo(w, [worker[w] EXCEPT !.pc = "email", !.contact = contact])
  BY DEF Contact
<1>4. contact \in SUBSET Channels
  BY <1>2, <1>3, ContactsAssumption
<1>5. CASE contact = {}
  BY <1>1, <1>3, <1>5, HandledRests, RestStep DEF TypeOK
<1>6. CASE contact # {}
  <2>. DEFINE r == [worker[w] EXCEPT !.pc = "email", !.contact = contact]
  <2>1. /\ Notice(r) = Notice(worker[w]) /\ r.pc = "email" /\ r.batch = worker[w].batch
        /\ r.todo = worker[w].todo /\ r \in WorkerType
    BY <1>4, SameNotice
  <2>2. Engaged(r)
    BY <2>1, <1>1, EventsAssumption DEF Engaged, Proper, Record, Channels
  <2>3. Proceeds(w, r)
    BY <2>1, <1>1 DEF Proceeds
  <2>4. Replaces(w, r)
    BY <1>1, <1>3, <1>6, <2>1, <2>2, <2>3 DEF Replaces, Kind, Proper, WorkerTo, TypeOK
  <2>. QED  BY <2>4, <1>1 DEF ItemTypes, TypeOK
<1>. QED  BY <1>5, <1>6

LEMMA ListStep ==
  ASSUME IInv, NEW w \in Workers, List(w)
  PROVE  ItemTypes' /\ \E r : Replaces(w, r)
<1>. USE DEF IInv
<1>. DEFINE todo == { t \in Tickets : place[t] = "waiting" }
<1>1. worker[w].pc = "list" /\ worker[w].batch # <<>> /\ UNCHANGED <<event, message, place, log, refused, sent>>
      /\ EventOf(Record(worker[w])) \in Closures
  BY DEF List, TypeOK, Engaged
<1>2. todo \in SUBSET Tickets
  OBVIOUS
<1>3. NextCustomer(w, todo) \/ Failed(w)
  BY DEF List
<1>4. \E r : worker' = [worker EXCEPT ![w] = r] /\ Proper(r) /\ ~ Sending(r)
  <2>. HIDE DEF todo
  <2>. QED  BY <1>1, <1>2, <1>3, NextRests, HandledRests
<1>. QED  BY <1>1, <1>4, RestStep DEF TypeOK

LEMMA ClaimCustomerStep ==
  ASSUME IInv, NEW w \in Workers, ClaimCustomer(w)
  PROVE  ItemTypes' /\ \E r : Replaces(w, r)
<1>. USE DEF IInv
<1>. DEFINE rest == worker[w].todo \ {Customer(worker[w])}
            contact == ContactsOf[Customer(worker[w])]
<1>1. worker[w].pc = "claimCustomer" /\ worker[w].batch # <<>> /\ Proper(worker[w])
      /\ EventOf(Record(worker[w])) \in Closures /\ worker[w].todo # {}
      /\ UNCHANGED <<event, message, place, sent>>
  BY DEF ClaimCustomer, TypeOK, Proper, Engaged
<1>2. Notice(worker[w]) \in Notices
  BY <1>1, NoticeIsOne
<1>3. worker[w].todo \subseteq Tickets /\ rest \in SUBSET Tickets
  BY DEF TypeOK, WorkerType
<1>4. Customer(worker[w]) \in Tickets /\ contact \in SUBSET Channels
  BY <1>1, <1>3, ContactsAssumption DEF Customer
<1>5. CASE /\ Unclaimed(Notice(worker[w])) /\ Written(w)
           /\ contact # {}
           /\ WorkerTo(w, [worker[w] EXCEPT !.pc = "email", !.contact = contact])
  <2>. DEFINE r == [worker[w] EXCEPT !.pc = "email", !.contact = contact]
  <2>1. /\ Notice(r) = Notice(worker[w]) /\ r.pc = "email" /\ r.batch = worker[w].batch
        /\ r.todo = worker[w].todo /\ r \in WorkerType
    <3>. HIDE DEF contact
    <3>. QED  BY <1>4, SameNotice
  <2>2. Engaged(r)
    BY <2>1, <1>1 DEF Engaged, Record, Channels
  <2>3. Claims(w, r)
    BY <2>1, <1>1, <1>5 DEF Claims, Unclaimed, Written
  <2>4. log' \subseteq Notices /\ refused' \subseteq Notices
    BY <1>2, <1>5 DEF TypeOK, Written
  <2>5. Replaces(w, r)
    BY <1>5, <2>1, <2>2, <2>3, <2>4 DEF Replaces, Kind, Proper, WorkerTo
  <2>. QED  BY <2>5, <1>1 DEF ItemTypes, TypeOK
<1>6. CASE /\ NextCustomer(w, rest)
           /\ Puts(w)
  <2>1. log \subseteq log' /\ log' \subseteq Notices /\ refused' \subseteq Notices
    BY <1>2, <1>6 DEF TypeOK, Puts
  <2>2. \E r : worker' = [worker EXCEPT ![w] = r] /\ Proper(r) /\ ~ Sending(r)
    <3>. HIDE DEF rest
    <3>. QED  BY <1>1, <1>3, <1>6, NextRests
  <2>. QED  BY <1>1, <2>1, <2>2, RestStep
<1>. QED  BY <1>5, <1>6 DEF ClaimCustomer, Refused, Written, Puts

LEMMA SendStep ==
  ASSUME IInv, NEW w \in Workers, NEW channel \in Channels, Send(w, channel)
  PROVE  ItemTypes' /\ \E r : Replaces(w, r)
<1>. USE DEF IInv
<1>1. worker[w].pc = channel /\ worker[w].batch # <<>> /\ Proper(worker[w])
      /\ UNCHANGED <<event, message, place, log, refused>>
  BY DEF Send, TypeOK, Proper, Engaged, Channels
<1>2. \/ UNCHANGED sent
      \/ sent' = [sent EXCEPT ![<<Notice(worker[w]), worker[w].pc>>] = @ + 1]
  BY <1>1 DEF Send
<1>3. ItemTypes'
  BY <1>1 DEF ItemTypes, TypeOK
<1>4. CASE channel = "email"
  <2>. DEFINE r == [worker[w] EXCEPT !.pc = "sms"]
  <2>0. worker' = [worker EXCEPT ![w] = r]
    BY <1>4 DEF Send, WorkerTo
  <2>1. worker[w] \in WorkerType
    BY DEF TypeOK
  <2>2. /\ r \in WorkerType /\ r.pc = "sms" /\ r.batch = worker[w].batch
        /\ r.todo = worker[w].todo
    BY <2>1 DEF WorkerType, Pcs
  <2>3. Notice(r) = Notice(worker[w])
    BY <2>2 DEF Notice, Customer, Record
  <2>4. Engaged(r)
    BY <2>2, <1>1, <1>4 DEF Engaged, Proper, Record, Channels
  <2>5. Sends(w, r)
    BY <1>1, <1>2, <1>4, <2>2, <2>3 DEF Sends, Channels
  <2>. QED  BY <1>1, <1>3, <2>0, <2>2, <2>4, <2>5 DEF Replaces, Kind, Proper, TypeOK
<1>5. CASE channel = "sms"
  <2>. DEFINE rest == worker[w].todo \ {Customer(worker[w])}
  <2>1. rest \in SUBSET Tickets /\ NextCustomer(w, rest)
    BY <1>5 DEF Send, TypeOK, WorkerType
  <2>2. rest # {} => EventOf(Record(worker[w])) \in Closures
    BY <1>1, <1>5 DEF Proper, Engaged, Channels
  <2>3. PICK r : worker' = [worker EXCEPT ![w] = r] /\ Proper(r) /\ ~ Sending(r)
    <3>. HIDE DEF rest
    <3>. QED  BY <1>1, <2>1, <2>2, NextRests
  <2>4. Sends(w, r)
    BY <1>1, <1>2, <1>5, <2>3 DEF Sends, Channels
  <2>. QED  BY <1>1, <1>3, <2>3, <2>4 DEF Replaces, Kind, TypeOK
<1>. QED  BY <1>4, <1>5 DEF Channels

\* Finish and Crash leave an idle invocation behind.
LEMMA EndStep ==
  ASSUME IInv, NEW w \in Workers, Finish(w) \/ Crash(w)
  PROVE  ItemTypes' /\ \E r : Replaces(w, r)
<1>1. Replaces(w, IdleWorker)
  BY IdleProper DEF Replaces, Kind, Rests, Finish, Crash, WorkerTo, IInv, TypeOK
<1>2. message' \in [Messages -> [state : {"absent", "visible", "inflight", "deleted", "dead"},
                                 receives : Nat]]
  BY DEF Finish, Crash, IInv, TypeOK
<1>3. ItemTypes'
  BY <1>2 DEF ItemTypes, Finish, Crash, IInv, TypeOK
<1>. QED  BY <1>1, <1>3

-------------------------------------------------------------------------------
\* Every kind of step preserves the invariant.

LEMMA ReplacesKeeps ==
  ASSUME IInv, NEW w \in Workers, NEW r, Replaces(w, r), ItemTypes'
  PROVE  IInv'
<1>. USE DEF IInv
<1>1. /\ worker'[w] = r
      /\ \A x \in Workers : x # w => worker'[x] = worker[x]
      /\ worker' \in [Workers -> WorkerType]
      /\ \A x \in Workers : Engaged(worker'[x])
  BY DEF Replaces, Proper, TypeOK
<1>2. worker[w].pc \in Channels => Notice(worker[w]) \in Notices
  BY NoticeIsOne DEF Proper, TypeOK, Channels
<1>3. sent' \in [Notices \X Channels -> Nat]
  <2>1. CASE UNCHANGED sent
    BY <2>1 DEF TypeOK
  <2>2. CASE /\ worker[w].pc \in Channels
             /\ sent' = [sent EXCEPT ![<<Notice(worker[w]), worker[w].pc>>] = @ + 1]
    BY <1>2, <2>2 DEF TypeOK
  <2>. QED  BY <2>1, <2>2 DEF Replaces, Kind, Rests, Claims, Proceeds, Sends
<1>4. TypeOK'
  BY <1>1, <1>3 DEF Replaces, ItemTypes, TypeOK
<1>5. CASE Rests(w, r)
  <2>1. SendersInv'
    BY <1>1, <1>5 DEF SendersInv, Rests
  <2>2. SentInv'
    BY <1>1, <1>5 DEF SentInv, SentAtMostOnce, Rests, Sending, Channels
  <2>. QED  BY <1>4, <2>1, <2>2
<1>6. CASE Claims(w, r)
  <2>1. SendersInv'
    BY <1>1, <1>6 DEF SendersInv, Claims
  <2>2. Notice(r) \in Notices
    BY NoticeIsOne, <1>6 DEF Replaces, Claims
  <2>3. SentInv'
    BY <1>1, <1>6, <2>2 DEF SentInv, SentAtMostOnce, Claims, Sending, Channels
  <2>. QED  BY <1>4, <2>1, <2>3
<1>7. CASE Proceeds(w, r)
  <2>1. SendersInv'
    BY <1>1, <1>7 DEF SendersInv, Proceeds, Sending, Channels
  <2>2. SentInv'
    BY <1>1, <1>7 DEF SentInv, SentAtMostOnce, Proceeds, Sending, Channels
  <2>. QED  BY <1>4, <2>1, <2>2
<1>8. CASE Sends(w, r)
  <2>. DEFINE n == Notice(worker[w])
              key == <<n, worker[w].pc>>
  <2>1. SendersInv'
    BY <1>1, <1>8 DEF SendersInv, Sends, Sending, Channels
  <2>2. n \in log /\ n \in Notices /\ worker[w].pc \in Channels /\ sent[key] = 0
    BY <1>2, <1>8 DEF Sends, SendersInv, SentInv, Sending, Channels
  <2>3. /\ sent'[key] <= 1
        /\ \A k \in Notices \X Channels : k # key => sent'[k] = sent[k]
    BY <1>8, <2>2 DEF Sends, TypeOK
  <2>4. SentAtMostOnce'
    BY <2>2, <2>3 DEF SentInv, SentAtMostOnce
  <2>5. \A m \in Notices, channel \in Channels : m \notin log' => sent'[<<m, channel>>] = 0
    BY <1>8, <2>2, <2>3 DEF SentInv, Sends
  <2>6. \A x \in Workers : x # w /\ Sending(worker[x]) =>
          Notice(worker[x]) # n /\ Notice(worker[x]) \in Notices
    <3>1. \A x \in Workers : Sending(worker[x]) => Notice(worker[x]) \in Notices
      BY DEF SendersInv, TypeOK
    <3>. QED  BY <3>1, <2>2 DEF SendersInv, Sending
  <2>7. ASSUME NEW x \in Workers, x # w
        PROVE  /\ worker'[x].pc \in {"contact", "email"} => sent'[<<Notice(worker'[x]), "email">>] = 0
               /\ Sending(worker'[x]) => sent'[<<Notice(worker'[x]), "sms">>] = 0
    <3>1. worker'[x] = worker[x]
      BY <1>1, <2>7
    <3>2. Sending(worker[x]) =>
            \A channel \in Channels : /\ <<Notice(worker[x]), channel>> \in Notices \X Channels
                                     /\ <<Notice(worker[x]), channel>> # key
      BY <2>6, <2>7
    <3>3. Sending(worker[x]) =>
            \A channel \in Channels :
              sent'[<<Notice(worker[x]), channel>>] = sent[<<Notice(worker[x]), channel>>]
      BY <2>3, <3>2
    <3>. QED  BY <3>1, <3>3 DEF SentInv, Sending, Channels
  <2>8. /\ r.pc \in {"contact", "email"} => sent'[<<Notice(r), "email">>] = 0
        /\ Sending(r) => sent'[<<Notice(r), "sms">>] = 0
    <3>1. CASE worker[w].pc = "email"
      <4>1. r.pc = "sms" /\ Notice(r) = n
        BY <1>8, <3>1 DEF Sends
      <4>2. sent[<<n, "sms">>] = 0
        BY <3>1 DEF SentInv, Sending, Channels
      <4>3. <<n, "sms">> # key /\ <<n, "sms">> \in Notices \X Channels
        BY <3>1, <2>2 DEF Channels
      <4>. QED  BY <4>1, <4>2, <4>3, <2>3
    <3>2. CASE worker[w].pc = "sms"
      BY <1>8, <3>2 DEF Sends, Sending, Channels
    <3>. QED  BY <3>1, <3>2, <2>2 DEF Channels
  <2>9. SentInv'
    BY <1>1, <2>4, <2>5, <2>7, <2>8 DEF SentInv
  <2>. QED  BY <1>4, <2>1, <2>9
<1>. QED  BY <1>5, <1>6, <1>7, <1>8 DEF Replaces, Kind

\* The steps of the others change only the first three variables.
LEMMA OtherStep ==
  ASSUME IInv, UNCHANGED <<log, refused, sent, worker>>, ItemTypes'
  PROVE  IInv'
<1>1. TypeOK'
  BY DEF ItemTypes, IInv, TypeOK
<1>2. SendersInv' /\ SentInv'
  BY DEF IInv, SendersInv, SentInv, SentAtMostOnce
<1>. QED  BY <1>1, <1>2 DEF IInv

LEMMA InitInv == Init => IInv
<1>. SUFFICES ASSUME Init PROVE IInv
  OBVIOUS
<1>1. TypeOK
  BY IdleProper DEF Init, TypeOK, Proper
<1>2. SendersInv
  BY IdleProper DEF Init, SendersInv
<1>3. SentInv
  BY DEF Init, SentInv, SentAtMostOnce, Sending, Channels, IdleWorker
<1>. QED  BY <1>1, <1>2, <1>3 DEF IInv

LEMMA NextInv == IInv /\ [Next]_vars => IInv'
<1>. SUFFICES ASSUME IInv, [Next]_vars PROVE IInv'
  OBVIOUS
<1>1. ASSUME NEW e \in Events, Publish(e) \/ RouteFails(e) PROVE IInv'
  <2>1. event' \in [Events -> {"uncommitted", "published", "lost", "undeliverable"}]
    BY <1>1 DEF Publish, RouteFails, IInv, TypeOK
  <2>2. ItemTypes'
    BY <1>1, <2>1 DEF ItemTypes, Publish, RouteFails, IInv, TypeOK
  <2>. QED  BY <1>1, <2>2, OtherStep DEF Publish, RouteFails
<1>2. ASSUME NEW m \in Messages, Route(m) \/ Reappear(m) PROVE IInv'
  <2>1. message' \in [Messages -> [state : {"absent", "visible", "inflight", "deleted", "dead"},
                                   receives : Nat]]
    BY <1>2 DEF Route, Reappear, IInv, TypeOK
  <2>2. ItemTypes'
    BY <1>2, <2>1 DEF ItemTypes, Route, Reappear, IInv, TypeOK
  <2>. QED  BY <1>2, <2>2, OtherStep DEF Route, Reappear
<1>3. ASSUME NEW t \in Tickets, Move(t) PROVE IInv'
  <2>1. place' \in [Tickets -> {"coming", "waiting", "gone"}]
    BY <1>3 DEF Move, IInv, TypeOK
  <2>2. ItemTypes'
    BY <1>3, <2>1 DEF ItemTypes, Move, IInv, TypeOK
  <2>. QED  BY <1>3, <2>2, OtherStep DEF Move
<1>4. ASSUME NEW w \in Workers, Receive(w) \/ WorkerStep(w) \/ Crash(w) PROVE IInv'
  <2>1. ItemTypes' /\ \E r : Replaces(w, r)
    BY <1>4, ReceiveStep, ClaimStep, ContactStep, ListStep, ClaimCustomerStep, SendStep, EndStep
       DEF WorkerStep
  <2>. QED  BY <2>1, ReplacesKeeps
<1>5. CASE UNCHANGED vars
  <2>1. ItemTypes'
    BY <1>5 DEF ItemTypes, vars, IInv, TypeOK
  <2>. QED  BY <1>5, <2>1, OtherStep DEF vars
<1>. QED  BY <1>1, <1>2, <1>3, <1>4, <1>5 DEF Next

-------------------------------------------------------------------------------
\* The inductive invariant of the pipeline: whoever sends a notice has claimed it alone,
\* for any number of events, messages, customers and workers (notify.js).
THEOREM Invariant == Spec => []IInv
<1>. QED  BY InitInv, NextInv, PTL DEF Spec

\* No provider is given a notification twice, whatever is delivered again, however the
\* workers interleave and wherever they stop: the guarantee at the head of notify.js.
THEOREM NeverSentTwice == Spec => []SentAtMostOnce
<1>1. IInv => SentAtMostOnce
  BY DEF IInv, SentInv
<1>. QED  BY <1>1, Invariant, PTL
-------------------------------------------------------------------------------
\* WHAT A HANDLED MESSAGE HAS SEEN TO

\* Those a closure has to reach of whom it has no notice yet, claimed or refused, are still
\* to come.
LeftOf(m, todo) ==
  EventOf(m) \in Closures =>
    \A t \in Tickets \ Late :
      place[t] = "waiting" => <<EventOf(m), t>> \in Accounted \/ t \in todo
Done(m) ==
  /\ EventOf(m) \in Targeted => <<EventOf(m), NoTicket>> \in Accounted
  /\ LeftOf(m, {})

Settled(r) ==
  /\ \A m \in r.handled : Done(m)
  /\ r.pc \in {"claimCustomer"} \cup Channels => LeftOf(Record(r), r.todo)
HandledInv ==
  /\ \A t \in Tickets \ Late : place[t] # "coming"
  /\ \A m \in Messages : message[m].state = "deleted" => Done(m)
  /\ \A w \in Workers : Settled(worker[w])

\* What is done stays done: no notice is taken back, and who waits waited before.
OnlyForward ==
  /\ Accounted \subseteq Accounted'
  /\ \A t \in Tickets \ Late : place'[t] = "waiting" => place[t] = "waiting"

LEMMA LeftStays ==
  ASSUME OnlyForward, NEW m, NEW todo, LeftOf(m, todo)
  PROVE  LeftOf(m, todo)'
BY DEF OnlyForward, LeftOf

LEMMA DoneStays ==
  ASSUME OnlyForward, NEW m, Done(m)
  PROVE  Done(m)'
<1>1. LeftOf(m, {})'
  BY LeftStays DEF Done
<1>. QED  BY <1>1 DEF Done, OnlyForward

\* A record that goes on with nothing new in its hands stays settled.
LEMMA SettledStays ==
  ASSUME OnlyForward, NEW r, Settled(r)
  PROVE  Settled(r)'
<1>1. \A m \in r.handled : Done(m)'
  BY DoneStays DEF Settled
<1>2. r.pc \in {"claimCustomer"} \cup Channels => LeftOf(Record(r), r.todo)'
  <2>. DEFINE m == Record(r)  todo == r.todo
  <2>1. LeftOf(m, todo) => LeftOf(m, todo)'
    <3>. HIDE DEF m, todo
    <3>. QED  BY LeftStays
  <2>. QED  BY <2>1 DEF Settled
<1>. QED  BY <1>1, <1>2 DEF Settled

\* Taking up the next record.
LEMMA BeginSettled ==
  ASSUME NEW b, NEW h, \A m \in h : Done(m)
  PROVE  Settled(Begin(b, h))
BY DEF Begin, Settled, Channels

\* The loop over the customers goes on, or the message m in hand is done.
LEMMA NextSettled ==
  ASSUME TypeOK, OnlyForward, NEW w \in Workers, Settled(worker[w]),
         NEW m, m = Record(worker[w]), NEW todo,
         EventOf(m) \in Targeted => <<EventOf(m), NoTicket>> \in Accounted',
         LeftOf(m, todo)', NextCustomer(w, todo)
  PROVE  \E r : worker' = [worker EXCEPT ![w] = r] /\ Settled(r)'
<1>1. worker[w] \in WorkerType /\ \A n \in worker[w].handled : Done(n)'
  BY DoneStays DEF TypeOK, Settled
<1>2. CASE todo = {}
  <2>1. Done(m)'
    BY <1>2 DEF Done
  <2>. DEFINE b == Tail(worker[w].batch)
              h == worker[w].handled \cup {m}
  <2>2. worker' = [worker EXCEPT ![w] = Begin(b, h)]
    BY <1>2 DEF NextCustomer, Handled, WorkerTo
  <2>3. \A n \in h : Done(n)'
    BY <1>1, <2>1
  <2>4. \E b1, h1 : worker' = [worker EXCEPT ![w] = Begin(b1, h1)] /\ \A n \in h1 : Done(n)'
    BY <2>2, <2>3
  <2>5. \A b1, h1 : (\A n \in h1 : Done(n)') => Settled(Begin(b1, h1))'
    BY DEF Begin, Settled, Channels
  <2>. QED  BY <2>4, <2>5
<1>3. CASE todo # {}
  <2>. DEFINE r == [worker[w] EXCEPT !.pc = "claimCustomer", !.todo = todo, !.contact = {}]
  <2>1. worker' = [worker EXCEPT ![w] = r]
    BY <1>3 DEF NextCustomer, ClaimNext, WorkerTo
  <2>2. r.handled = worker[w].handled /\ r.batch = worker[w].batch /\ r.todo = todo
    BY <1>1 DEF WorkerType
  <2>3. Record(r) = m
    BY <2>2 DEF Record
  <2>4. \E q : /\ worker' = [worker EXCEPT ![w] = q] /\ q.handled = worker[w].handled
               /\ q.todo = todo /\ Record(q) = m
    BY <2>1, <2>2, <2>3
  <2>5. \A q : q.handled = worker[w].handled /\ q.todo = todo /\ Record(q) = m => Settled(q)'
    BY <1>1 DEF Settled
  <2>. QED  BY <2>4, <2>5
<1>. QED  BY <1>2, <1>3

\* A record that failed is reported, and the ones before stay handled.
LEMMA FailedSettled ==
  ASSUME OnlyForward, NEW w \in Workers, Settled(worker[w]), Failed(w)
  PROVE  \E r : worker' = [worker EXCEPT ![w] = r] /\ Settled(r)'
<1>1. \A n \in worker[w].handled : Done(n)'
  BY DoneStays DEF Settled
<1>2. \E b1, h1 : worker' = [worker EXCEPT ![w] = Begin(b1, h1)] /\ \A n \in h1 : Done(n)'
  BY <1>1 DEF Failed, WorkerTo
<1>3. \A b1, h1 : (\A n \in h1 : Done(n)') => Settled(Begin(b1, h1))'
  BY DEF Begin, Settled, Channels
<1>. QED  BY <1>2, <1>3

\* Sending to one customer leaves the others where they were.
LEMMA EmailSettled ==
  ASSUME TypeOK, OnlyForward, NEW w \in Workers, Settled(worker[w]),
         NEW q, worker' = [worker EXCEPT ![w] = q],
         q.handled = worker[w].handled, q.batch = worker[w].batch, q.todo = worker[w].todo,
         worker[w].pc \in {"claimCustomer"} \cup Channels
  PROVE  \E r : worker' = [worker EXCEPT ![w] = r] /\ Settled(r)'
<1>1. \A n \in q.handled : Done(n)'
  BY DoneStays DEF Settled
<1>2. LeftOf(Record(worker[w]), worker[w].todo)
  BY DEF Settled
<1>3. Record(q) = Record(worker[w])
  BY DEF Record
<1>4. LeftOf(Record(q), q.todo)'
  <2>. DEFINE m == Record(q)  todo == q.todo
  <2>1. LeftOf(m, todo)
    BY <1>2, <1>3
  <2>2. LeftOf(m, todo) => LeftOf(m, todo)'
    <3>. HIDE DEF m, todo
    <3>. QED  BY LeftStays
  <2>. QED  BY <2>1, <2>2
<1>. QED  BY <1>1, <1>4 DEF Settled

\* Whoever has been claimed is no longer to come.
LEMMA ClaimedIsReached ==
  ASSUME OnlyForward, NEW m, NEW todo, LeftOf(m, todo), NEW t,
         <<EventOf(m), t>> \in Accounted'
  PROVE  LeftOf(m, todo \ {t})'
BY DEF OnlyForward, LeftOf

\* Every step of a worker but Receive and Finish, which change messages.
LEMMA WorkerSettles ==
  ASSUME IInv, HandledInv, NEW w \in Workers,
         \/ Claim(w) \/ Contact(w) \/ List(w) \/ ClaimCustomer(w)
         \/ \E channel \in Channels : Send(w, channel)
  PROVE  OnlyForward /\ \E r : worker' = [worker EXCEPT ![w] = r] /\ Settled(r)'
<1>. DEFINE r == worker[w]
            m == Record(r)
            rest == r.todo \ {Customer(r)}
<1>1. /\ TypeOK /\ SendersInv /\ Settled(r) /\ Engaged(r) /\ r \in WorkerType
      /\ \A q : q = [r EXCEPT !.pc = "contact"]
           => q.pc = "contact" /\ q.handled = r.handled
  BY DEF IInv, HandledInv, TypeOK, WorkerType
<1>2. OnlyForward
  BY DEF OnlyForward, Accounted, Claim, Contact, List, ClaimCustomer, Send, ClaimThrows, Refused,
         Written
<1>3. ASSUME NEW todo, EventOf(m) \in Targeted => <<EventOf(m), NoTicket>> \in Accounted',
             EventOf(m) \in Closures =>
               \A t \in Tickets \ Late :
                 place'[t] = "waiting" => <<EventOf(m), t>> \in Accounted' \/ t \in todo,
             NextCustomer(w, todo)
      PROVE  \E q : worker' = [worker EXCEPT ![w] = q] /\ Settled(q)'
  <2>1. \E n : n = m /\ LeftOf(n, todo)'
    BY <1>3 DEF LeftOf
  <2>2. PICK n : n = m /\ LeftOf(n, todo)'
    BY <2>1
  <2>. HIDE DEF m
  <2>3. n = Record(worker[w])
    BY <2>2 DEF m
  <2>4. EventOf(n) \in Targeted => <<EventOf(n), NoTicket>> \in Accounted'
    BY <1>3, <2>2
  <2>. QED  BY <1>1, <1>2, <1>3, <2>2, <2>3, <2>4, NextSettled
<1>4. ASSUME EventOf(m) \in Targeted, <<EventOf(m), NoTicket>> \in Accounted', Handled(w)
      PROVE  \E q : worker' = [worker EXCEPT ![w] = q] /\ Settled(q)'
  <2>1. NextCustomer(w, {})
    BY <1>4 DEF NextCustomer
  <2>. QED  BY <1>3, <1>4, <2>1, EventsAssumption
<1>5. CASE Claim(w)
  <2>1. r.pc = "claim" /\ EventOf(m) \in Targeted /\ Notice(r) = <<EventOf(m), NoTicket>>
    BY <1>1, <1>5 DEF Claim, Engaged, Notice, Customer
  <2>2. CASE WorkerTo(w, [r EXCEPT !.pc = "contact"])
    <3>1. \E q : /\ worker' = [worker EXCEPT ![w] = q]
                 /\ q.pc = "contact" /\ q.handled = r.handled
      BY <1>1, <2>2 DEF WorkerTo
    <3>2. \A n \in r.handled : Done(n)'
      BY <1>1, <1>2, DoneStays DEF Settled
    <3>3. \A q : q.pc = "contact" /\ q.handled = r.handled => Settled(q)'
      BY <3>2 DEF Settled, Channels
    <3>. QED  BY <1>2, <3>1, <3>3
  <2>3. CASE Handled(w) /\ Notice(r) \in Accounted'
    BY <1>2, <1>4, <2>1, <2>3
  <2>4. CASE Failed(w)
    BY <1>1, <1>2, <2>4, FailedSettled
  <2>. QED  BY <1>5, <2>2, <2>3, <2>4 DEF Claim, Unclaimed, Refused, Accounted
<1>6. CASE Contact(w)
  <2>1. /\ r.pc = "contact" /\ EventOf(m) \in Targeted /\ Notice(r) = <<EventOf(m), NoTicket>>
        /\ Notice(r) \in Accounted'
    BY <1>1, <1>6 DEF Contact, Engaged, Notice, Customer, SendersInv, Sending, Accounted
  <2>2. PICK contact : IF contact = {} THEN Handled(w)
                       ELSE WorkerTo(w, [r EXCEPT !.pc = "email", !.contact = contact])
    BY <1>6 DEF Contact
  <2>3. CASE Handled(w)
    BY <1>2, <1>4, <2>1, <2>3
  <2>4. CASE WorkerTo(w, [r EXCEPT !.pc = "email", !.contact = contact])
    <3>. DEFINE p == [r EXCEPT !.pc = "email", !.contact = contact]
    <3>0. p.batch = r.batch /\ p.handled = r.handled
      BY <1>1 DEF WorkerType
    <3>1. \E q : /\ worker' = [worker EXCEPT ![w] = q]
                 /\ q.batch = r.batch /\ q.handled = r.handled
      BY <2>4, <3>0 DEF WorkerTo
    <3>2. \A n \in r.handled : Done(n)'
      BY <1>1, <1>2, DoneStays DEF Settled
    <3>3. \A q : q.batch = r.batch /\ q.handled = r.handled => Settled(q)'
      BY <2>1, <3>2, EventsAssumption DEF Settled, Record, LeftOf
    <3>. QED  BY <1>2, <3>1, <3>3
  <2>. QED  BY <2>2, <2>3, <2>4
<1>7. CASE List(w)
  <2>1. EventOf(m) \in Closures /\ place' = place
    BY <1>1, <1>7 DEF List, Engaged
  <2>2. CASE NextCustomer(w, { t \in Tickets : place[t] = "waiting" })
    BY <1>2, <1>3, <2>1, <2>2, EventsAssumption
  <2>3. CASE Failed(w)
    BY <1>1, <1>2, <2>3, FailedSettled
  <2>. QED  BY <1>7, <2>2, <2>3 DEF List
<1>8. ASSUME r.pc \in {"claimCustomer"} \cup Channels, NextCustomer(w, rest),
             <<EventOf(m), Customer(r)>> \in Accounted',
             EventOf(m) \in Targeted => Customer(r) = NoTicket
      PROVE  \E q : worker' = [worker EXCEPT ![w] = q] /\ Settled(q)'
  <2>1. LeftOf(m, r.todo)
    BY <1>1, <1>8 DEF Settled
  <2>. QED  BY <1>2, <1>3, <1>8, <2>1 DEF LeftOf, OnlyForward
<1>9. CASE ClaimCustomer(w)
  <2>1. r.pc = "claimCustomer" /\ EventOf(m) \in Closures /\ EventOf(m) \notin Targeted
    BY <1>1, <1>9, EventsAssumption DEF ClaimCustomer, Engaged
  <2>2. CASE WorkerTo(w, [r EXCEPT !.pc = "email", !.contact = ContactsOf[Customer(r)]])
    <3>. DEFINE q == [r EXCEPT !.pc = "email", !.contact = ContactsOf[Customer(r)]]
    <3>1. q.handled = r.handled /\ q.batch = r.batch /\ q.todo = r.todo
      BY <1>1 DEF WorkerType
    <3>2. worker' = [worker EXCEPT ![w] = q]
      BY <2>2 DEF WorkerTo
    <3>. HIDE DEF q
    <3>. QED  BY <1>1, <1>2, <2>1, <3>1, <3>2, EmailSettled
  <2>3. CASE NextCustomer(w, rest) /\ Notice(r) \in Accounted'
    BY <1>2, <1>8, <2>1, <2>3 DEF Notice
  <2>. QED  BY <1>9, <2>1, <2>2, <2>3
            DEF ClaimCustomer, Refused, Written, Unclaimed, Accounted
<1>10. ASSUME NEW channel \in Channels, Send(w, channel)
       PROVE  \E q : worker' = [worker EXCEPT ![w] = q] /\ Settled(q)'
  <2>1. r.pc = channel /\ Notice(r) \in Accounted'
    BY <1>1, <1>10 DEF Send, SendersInv, Sending, Accounted
  <2>2. CASE channel = "email"
    <3>. DEFINE q == [r EXCEPT !.pc = "sms"]
    <3>1. q.handled = r.handled /\ q.batch = r.batch /\ q.todo = r.todo
      BY <1>1 DEF WorkerType
    <3>2. worker' = [worker EXCEPT ![w] = q]
      BY <1>10, <2>2 DEF Send, WorkerTo
    <3>. HIDE DEF q
    <3>. QED  BY <1>1, <1>2, <2>1, <3>1, <3>2, EmailSettled
  <2>3. CASE channel = "sms"
    <3>1. NextCustomer(w, rest)
      BY <1>10, <2>3 DEF Send
    <3>2. EventOf(m) \in Targeted => Customer(r) = NoTicket
      BY <1>1, <2>1, <2>3, EventsAssumption DEF Engaged, Channels, Customer
    <3>. QED  BY <1>8, <2>1, <2>3, <3>1, <3>2 DEF Notice, Channels
  <2>. QED  BY <2>2, <2>3 DEF Channels
<1>. QED  BY <1>2, <1>5, <1>6, <1>7, <1>9, <1>10

LEMMA HandledNext ==
  ASSUME IInv, HandledInv, [Next]_vars
  PROVE  HandledInv'
<1>1. TypeOK /\ worker \in [Workers -> WorkerType]
  BY DEF IInv, TypeOK
<1>2. \A t \in Tickets \ Late : place'[t] # "coming" /\ (place'[t] = "waiting" => place[t] = "waiting")
  BY <1>1 DEF HandledInv, TypeOK, Next, vars, Publish, RouteFails, Route, Reappear, Move, Receive,
              WorkerStep, Claim, Contact, List, ClaimCustomer, Send, Finish, Crash
<1>3. ASSUME OnlyForward, NEW w \in Workers, NEW r, worker' = [worker EXCEPT ![w] = r], Settled(r)',
             \A m \in Messages : message'[m].state = "deleted" => Done(m)'
      PROVE  HandledInv'
  <2>1. ASSUME NEW x \in Workers PROVE Settled(worker[x])'
    <3>1. CASE x = w
      <4>1. worker'[x] = r
        BY <1>1, <1>3, <3>1
      <4>. QED  BY <1>3, <4>1 DEF Settled, Done, LeftOf
    <3>2. CASE x # w
      <4>. DEFINE q == worker[x]
      <4>1. Settled(q) /\ worker'[x] = q
        BY <1>1, <1>3, <3>2 DEF HandledInv
      <4>2. PICK p : p = q /\ Settled(p)
        BY <4>1
      <4>3. Settled(p)'
        BY <1>3, <4>2, SettledStays
      <4>. QED  BY <4>1, <4>2, <4>3 DEF Settled, Done, LeftOf
    <3>. QED  BY <3>1, <3>2
  <2>. QED  BY <1>2, <1>3, <2>1 DEF HandledInv
<1>4. OnlyForward /\ (\A m \in Messages : Done(m) => Done(m)')
  <2>1. Accounted \subseteq Accounted'
    BY DEF Accounted, Next, vars, Publish, RouteFails, Route, Reappear, Move, Receive, WorkerStep,
           Claim, ClaimThrows, Refused, Written, Contact, List, ClaimCustomer, Send, Finish, Crash
  <2>. QED  BY <1>2, <2>1, DoneStays DEF OnlyForward
<1>5. ASSUME UNCHANGED worker, \A m \in Messages : message'[m].state = "deleted" => Done(m)
      PROVE  HandledInv'
  <2>1. ASSUME NEW x \in Workers PROVE Settled(worker[x])'
    <3>1. PICK p : p = worker[x] /\ Settled(p)
      BY DEF HandledInv
    <3>2. Settled(p)'
      BY <1>4, <3>1, SettledStays
    <3>. QED  BY <1>5, <3>1, <3>2 DEF Settled, Done, LeftOf
  <2>. QED  BY <1>2, <1>4, <1>5, <2>1 DEF HandledInv
<1>6. ASSUME NEW e \in Events, Publish(e) \/ RouteFails(e) PROVE HandledInv'
  BY <1>5, <1>6 DEF Publish, RouteFails, HandledInv
<1>7. ASSUME NEW m \in Messages, Route(m) \/ Reappear(m) PROVE HandledInv'
  <2>1. \A n \in Messages : message'[n].state = "deleted" => message[n].state = "deleted"
    BY <1>1, <1>7 DEF Route, Reappear, TypeOK
  <2>. QED  BY <1>5, <1>7, <2>1 DEF Route, Reappear, HandledInv
<1>8. ASSUME NEW t \in Tickets, Move(t) PROVE HandledInv'
  BY <1>5, <1>8 DEF Move, HandledInv
<1>9. ASSUME NEW w \in Workers, Receive(w) PROVE HandledInv'
  <2>1. PICK b : /\ worker' = [worker EXCEPT ![w] = Begin(b, {})]
                 /\ message' = [m \in Messages |->
                        IF InBatch(b, m)
                          THEN [state |-> "inflight", receives |-> message[m].receives + 1]
                          ELSE message[m]]
    BY <1>9 DEF Receive, WorkerTo
  <2>2. \A m \in Messages : message'[m].state = "deleted" => Done(m)'
    BY <1>4, <2>1 DEF HandledInv
  <2>3. \A h, c : (\A m \in h : Done(m)') => Settled(Begin(c, h))'
    BY DEF Begin, Settled, Channels
  <2>4. Settled(Begin(b, {}))'
    BY <2>3
  <2>. QED  BY <1>3, <1>4, <2>1, <2>2, <2>4
<1>10. ASSUME NEW w \in Workers, Finish(w) \/ Crash(w) PROVE HandledInv'
  <2>1. worker' = [worker EXCEPT ![w] = IdleWorker]
    BY <1>10 DEF Finish, Crash, WorkerTo
  <2>2. Settled(IdleWorker)'
    BY DEF Settled, IdleWorker, Channels
  <2>3. \A m \in Messages : message'[m].state = "deleted" =>
          message[m].state = "deleted" \/ m \in worker[w].handled
    BY <1>1, <1>10 DEF Finish, Crash, TypeOK
  <2>4. \A m \in Messages : message'[m].state = "deleted" => Done(m)'
    BY <1>4, <2>3 DEF HandledInv, Settled
  <2>. QED  BY <1>3, <1>4, <2>1, <2>2, <2>4
<1>11. ASSUME NEW w \in Workers,
              \/ Claim(w) \/ Contact(w) \/ List(w) \/ ClaimCustomer(w)
              \/ \E channel \in Channels : Send(w, channel)
       PROVE  HandledInv'
  <2>1. PICK r : worker' = [worker EXCEPT ![w] = r] /\ Settled(r)'
    BY <1>11, WorkerSettles
  <2>2. message' = message
    BY <1>11 DEF Claim, Contact, List, ClaimCustomer, Send
  <2>3. \A m \in Messages : message'[m].state = "deleted" => Done(m)'
    BY <1>4, <2>2 DEF HandledInv
  <2>. QED  BY <1>3, <1>4, <2>1, <2>3
<1>12. CASE UNCHANGED vars
  BY <1>5, <1>12 DEF vars, HandledInv
<1>. QED  BY <1>6, <1>7, <1>8, <1>9, <1>10, <1>11, <1>12 DEF Next, WorkerStep

LEMMA HandledInvariant == Spec => []HandledInv
<1>1. Init => HandledInv
  BY DEF Init, HandledInv, Settled, IdleWorker, Channels
<1>2. IInv /\ HandledInv /\ [Next]_vars => HandledInv'
  BY HandledNext
<1>. QED  BY <1>1, <1>2, Invariant, PTL DEF Spec

\* A message of a targeted event is deleted only when its notification was claimed or the
\* transaction of the claim was cancelled (notify.js:88 takes every cancellation for a
\* duplicate, and notification-worker.js acknowledges what processNotification returned
\* from): no crash, redelivery or other error of the store drops one.
THEOREM NothingDropped == Spec => []DeletedWasClaimed
<1>1. HandledInv => DeletedWasClaimed
  BY DEF HandledInv, Done, DeletedWasClaimed
<1>. QED  BY <1>1, HandledInvariant, PTL

\* A closure's message is deleted only when everybody who was in the queue before it and
\* still waits has a notice, or had one refused by the store (notify.js:141), also when the
\* worker that began stopped half way.
THEOREM ClosureReaches == Spec => []ClosureReachesAll
<1>1. HandledInv => ClosureReachesAll
  BY DEF HandledInv, Done, LeftOf, ClosureReachesAll
<1>. QED  BY <1>1, HandledInvariant, PTL
-------------------------------------------------------------------------------
\* THE REFINEMENT
\*
\* A step of the pipeline writes one record, gives one message to a provider, lets one
\* customer go or acknowledges a batch; everything else the promise does not speak of.

PromiseStep == [Promise!Next]_(Promise!vars)

\* What is left of the items the promise speaks of when one of them changes.
SameQueue == Remaining' = Remaining
SameMessages == Deleted' = Deleted

LEMMA Silent ==
  ASSUME UNCHANGED <<log, refused, sent>>, SameQueue, SameMessages
  PROVE  PromiseStep
BY DEF PromiseStep, Promise!vars, SameQueue, SameMessages

\* The put of a record is one Claim or one Refuse, or nothing where the record was there or
\* the call that threw was not applied.
LEMMA PutIsClaim ==
  ASSUME NEW w \in Workers, Notice(worker[w]) \in Notices, Claim(w) \/ ClaimCustomer(w)
  PROVE  PromiseStep
<1>. DEFINE n == Notice(worker[w])
<1>1. sent' = sent /\ SameQueue /\ SameMessages
  BY DEF Claim, ClaimCustomer, SameQueue, SameMessages, Remaining, Deleted
<1>2. \/ UNCHANGED <<log, refused>>
      \/ log' = log \cup {n} /\ UNCHANGED refused
      \/ n \notin log /\ refused' = refused \cup {n} /\ UNCHANGED log
  BY DEF Claim, ClaimCustomer, ClaimThrows, Refused, Written, Unclaimed
<1>. HIDE DEF n
<1>3. CASE UNCHANGED <<log, refused>>
  BY <1>1, <1>3, Silent
<1>4. CASE n \in log /\ log' = log \cup {n} /\ UNCHANGED refused
  BY <1>1, <1>4, Silent
<1>5. CASE n \notin log /\ log' = log \cup {n} /\ UNCHANGED refused
  <2>1. Promise!Claim(n)
    BY <1>1, <1>5 DEF Promise!Claim, SameQueue, SameMessages
  <2>. QED
    BY <2>1 DEF PromiseStep, Promise!Next, n
<1>6. CASE n \notin log /\ refused' = refused \cup {n} /\ UNCHANGED log
  <2>1. Promise!Refuse(n)
    BY <1>1, <1>6 DEF Promise!Refuse, SameQueue, SameMessages
  <2>. QED
    BY <2>1 DEF PromiseStep, Promise!Next, n
<1>. QED
  BY <1>2, <1>3, <1>4, <1>5, <1>6

\* A message a provider accepted is one Give: the sender has claimed the notice and the
\* channel was not used before.
LEMMA SendIsGive ==
  ASSUME IInv, NEW w \in Workers, NEW channel \in Channels, Send(w, channel)
  PROVE  PromiseStep
<1>. DEFINE n == Notice(worker[w])
<1>1. /\ worker[w].pc = channel /\ UNCHANGED <<message, place, log, refused>> /\ Proper(worker[w])
      /\ \/ UNCHANGED sent
         \/ sent' = [sent EXCEPT ![<<n, channel>>] = @ + 1]
  BY DEF Send, IInv, TypeOK, Proper
<1>2. SameQueue /\ SameMessages
  BY <1>1 DEF SameQueue, SameMessages, Remaining, Deleted
<1>3. CASE UNCHANGED sent
  BY <1>1, <1>2, <1>3, Silent
<1>4. CASE sent' = [sent EXCEPT ![<<n, channel>>] = @ + 1]
  <2>1. n \in Notices
    BY <1>1, NoticeIsOne DEF Channels
  <2>2. /\ n \in log /\ sent[<<n, channel>>] = 0
        /\ channel = "email" => sent[<<n, "sms">>] = 0
    BY <1>1 DEF IInv, SendersInv, SentInv, Sending, Channels
  <2>3. sent' = [sent EXCEPT ![<<n, channel>>] = 1]
    BY <1>4, <2>2
  <2>. HIDE DEF n
  <2>4. Promise!Give(n, channel)
    BY <1>1, <1>2, <2>2, <2>3 DEF Promise!Give, SameQueue, SameMessages
  <2>. QED
    BY <2>1, <2>4 DEF PromiseStep, Promise!Next
<1>. QED
  BY <1>1, <1>3, <1>4

\* An entry that is stored late is none of those the promise counts; the others leave.
LEMMA MoveIsLeave ==
  ASSUME IInv, HandledInv, NEW t \in Tickets, Move(t)
  PROVE  PromiseStep
<1>1. UNCHANGED <<log, refused, sent, message>> /\ SameMessages
  BY DEF Move, SameMessages, Deleted
<1>2. CASE t \in Late
  <2>1. SameQueue
    BY <1>2 DEF Move, SameQueue, Remaining, IInv, TypeOK
  <2>. QED
    BY <1>1, <2>1, Silent
<1>3. CASE t \notin Late
  <2>1. place[t] = "waiting" /\ place' = [place EXCEPT ![t] = "gone"]
    BY <1>3 DEF Move, HandledInv
  <2>2. Remaining' = Remaining \ {t}
    BY <2>1 DEF Remaining, IInv, TypeOK
  <2>3. Promise!Leave(t)
    BY <1>1, <2>2 DEF Promise!Leave, SameMessages
  <2>. QED
    BY <2>3 DEF PromiseStep, Promise!Next
<1>. QED
  BY <1>2, <1>3

\* The messages an invocation deletes are those it is done with.
LEMMA FinishIsSettle ==
  ASSUME IInv, HandledInv, NEW w \in Workers, Finish(w)
  PROVE  PromiseStep
<1>. DEFINE events == { EventOf(m) : m \in Deleted' }
<1>1. UNCHANGED <<log, refused, sent, place>> /\ SameQueue
  BY DEF Finish, SameQueue, Remaining
<1>2. \A m \in Deleted' : m \in Messages /\ Done(m)
  BY DEF Finish, Deleted, HandledInv, Settled, IInv, TypeOK
<1>3. ASSUME NEW m \in Deleted'
      PROVE  EventOf(m) \in Targeted \cup Closures /\ Promise!Asks(EventOf(m)) \subseteq Accounted
  <2>1. EventOf(m) \in Targeted \cup Closures /\ Done(m)
    BY <1>2, <1>3 DEF Messages, EventOf, Events
  <2>2. CASE EventOf(m) \in Targeted
    BY <2>1, <2>2 DEF Done, Promise!Asks
  <2>3. CASE EventOf(m) \in Closures
    <3>1. EventOf(m) \notin Targeted
      BY <2>3, EventsAssumption
    <3>2. \A t \in Remaining : <<EventOf(m), t>> \in Accounted
      BY <2>1, <2>3 DEF Done, LeftOf, Remaining
    <3>. QED
      BY <2>1, <3>1, <3>2 DEF Promise!Asks
  <2>. QED
    BY <2>1, <2>2, <2>3
<1>4. Deleted \subseteq Deleted'
  BY DEF Finish, Deleted
<1>5. { EventOf(m) : m \in Deleted }' = { EventOf(m) : m \in Deleted } \cup events
  BY <1>4
<1>6. /\ events \subseteq Targeted \cup Closures
      /\ \A e \in events : Promise!Asks(e) \subseteq Accounted
  BY <1>3
<1>. HIDE DEF events
<1>7. Promise!Settle(events)
  BY <1>1, <1>5, <1>6 DEF Promise!Settle, SameQueue, Accounted
<1>. QED
  BY <1>6, <1>7 DEF PromiseStep, Promise!Next

LEMMA StepKeepsPromise ==
  ASSUME IInv, HandledInv, [Next]_vars
  PROVE  PromiseStep
<1>1. ASSUME NEW e \in Events, Publish(e) \/ RouteFails(e)
      PROVE  PromiseStep
  <2>1. SameQueue /\ SameMessages /\ UNCHANGED <<log, refused, sent>>
    BY <1>1 DEF Publish, RouteFails, SameQueue, SameMessages, Remaining, Deleted
  <2>. QED
    BY <2>1, Silent
<1>2. ASSUME NEW m \in Messages, Route(m) \/ Reappear(m)
      PROVE  PromiseStep
  <2>1. \A n \in Messages : message'[n].state = "deleted" <=> message[n].state = "deleted"
    BY <1>2 DEF Route, Reappear, IInv, TypeOK
  <2>2. SameQueue /\ SameMessages /\ UNCHANGED <<log, refused, sent>>
    BY <1>2, <2>1 DEF Route, Reappear, SameQueue, SameMessages, Remaining, Deleted
  <2>. QED
    BY <2>2, Silent
<1>3. ASSUME NEW w \in Workers, Receive(w)
      PROVE  PromiseStep
  <2>1. PICK b \in Batches :
          message' = [m \in Messages |->
                        IF InBatch(b, m)
                          THEN [state |-> "inflight", receives |-> message[m].receives + 1]
                          ELSE message[m]]
    BY <1>3 DEF Receive
  <2>2. \A m \in Messages : InBatch(b, m) => message[m].state = "visible"
    BY DEF Batches, InBatch, Visible
  <2>3. SameMessages
    BY <2>1, <2>2 DEF SameMessages, Deleted
  <2>4. SameQueue /\ UNCHANGED <<log, refused, sent>>
    BY <1>3 DEF Receive, SameQueue, Remaining
  <2>. QED
    BY <2>3, <2>4, Silent
<1>4. ASSUME NEW w \in Workers, Claim(w) \/ ClaimCustomer(w)
      PROVE  PromiseStep
  <2>1. worker[w].pc \in {"claim", "claimCustomer"} /\ Proper(worker[w])
    BY <1>4 DEF Claim, ClaimCustomer, IInv, TypeOK, Proper
  <2>. QED
    BY <1>4, <2>1, NoticeIsOne, PutIsClaim
<1>5. ASSUME NEW w \in Workers, Contact(w) \/ List(w) \/ Crash(w)
      PROVE  PromiseStep
  <2>1. SameQueue /\ SameMessages /\ UNCHANGED <<log, refused, sent>>
    BY <1>5 DEF Contact, List, Crash, SameQueue, SameMessages, Remaining, Deleted
  <2>. QED
    BY <2>1, Silent
<1>6. CASE UNCHANGED vars
  <2>1. SameQueue /\ SameMessages /\ UNCHANGED <<log, refused, sent>>
    BY <1>6 DEF vars, SameQueue, SameMessages, Remaining, Deleted
  <2>. QED
    BY <2>1, Silent
<1>. QED
  BY <1>1, <1>2, <1>3, <1>4, <1>5, <1>6, MoveIsLeave, SendIsGive, FinishIsSettle
     DEF Next, WorkerStep

\* The pipeline implements what the head of notify.js promises: initial states map to
\* initial states, and every step of EventBridge, SQS and the workers to one of the
\* promise's steps or to none.
THEOREM PipelineKeepsPromise == Spec => ImplementsPromise
<1>1. Init => Promise!Init
  <2>1. Init => Remaining = Tickets \ Late /\ Deleted = {}
    BY DEF Init, Remaining, Deleted
  <2>. QED
    BY <2>1 DEF Init, Promise!Init
<1>2. IInv /\ HandledInv /\ [Next]_vars => [Promise!Next]_(Promise!vars)
  BY StepKeepsPromise DEF PromiseStep
<1>. QED
  BY <1>1, <1>2, Invariant, HandledInvariant, PTL DEF Spec, ImplementsPromise, Promise!Spec
===============================================================================
