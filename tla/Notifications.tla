---------------------------- MODULE Notifications -----------------------------
(***************************************************************************)
(* The notification pipeline: an event published after a commit            *)
(* (shared/events.js) goes through EventBridge into an SQS queue, and       *)
(* Lambda workers (functions/notification-worker.js, services/notify.js)   *)
(* take batches from it and send e-mail and SMS.                           *)
(*                                                                         *)
(* EventBridge and SQS deliver at least once; a worker may stop at any      *)
(* await; the table and the providers may refuse any call.  An action is    *)
(* one await of the worker with the local code up to the next one.          *)
(***************************************************************************)
EXTENDS Integers, Sequences

CONSTANTS
  Targeted,     \* QUEUE_JOINED, NEXT_CALLED and TURN_APPROACHING events
  Closures,     \* QUEUE_CLOSED events
  Tickets,      \* the entries of the queue, by ticket
  Late,         \* those that are stored after the others
  TicketOf,     \* the ticket each targeted event is about
  ContactsOf,   \* the channels each customer gave a contact for
  Configured,   \* the channels the deployment has a sender or topic for
  Workers,      \* concurrent invocations of the worker Lambda
  BatchSize,    \* records per invocation (10 in lineless.yaml)
  MaxReceives,  \* maxReceiveCount of the queue (5 in lineless.yaml)
  MaxCopies,    \* model bound: how often EventBridge delivers one event
  Failing       \* the worker's store calls that may throw, by their pc

Events == Targeted \cup Closures
Channels == {"email", "sms"}
StoreCalls == {"claim", "list", "claimCustomer", "contact"}
NoTicket == 0

ASSUME EventsAssumption == Targeted \cap Closures = {}
ASSUME TicketsAssumption == Tickets \subseteq Nat \ {NoTicket} /\ Late \subseteq Tickets
ASSUME ContactsAssumption ==
  /\ TicketOf \in [Targeted -> Tickets]
  /\ ContactsOf \in [Tickets -> SUBSET Channels] /\ Configured \subseteq Channels
ASSUME LimitsAssumption ==
  /\ BatchSize \in Nat \ {0} /\ MaxReceives \in Nat \ {0} /\ MaxCopies \in Nat \ {0}
  /\ Failing \subseteq StoreCalls

Messages == Events \X (1..MaxCopies)
EventOf(m) == m[1]

\* A notification is a targeted event, or a closure and one customer's ticket.
Notices == (Targeted \X {NoTicket}) \cup (Closures \X Tickets)

VARIABLES
  event,    \* how far each event got on its way to the queue
  message,  \* the messages in SQS: state, and how often each was received
  place,    \* the entries: "coming", "waiting", or "gone" (called, served, left)
  log,      \* the NTF# records: the notices that were claimed
  refused,  \* the notices passed over although the store did not write their record
  sent,     \* how many messages the providers accepted, by notice and channel
  worker    \* what each invocation does

vars == <<event, message, place, log, refused, sent, worker>>

Pcs == {"idle", "claim", "list", "claimCustomer", "contact", "email", "sms", "finish"}
IdleWorker == [pc |-> "idle", batch |-> <<>>, handled |-> {}, todo |-> {}, contact |-> {}]

Init ==
  /\ event = [e \in Events |-> "uncommitted"]
  /\ message = [m \in Messages |-> [state |-> "absent", receives |-> 0]]
  /\ place = [t \in Tickets |-> IF t \in Late THEN "coming" ELSE "waiting"]
  /\ log = {}
  /\ refused = {}
  /\ sent = [n \in Notices \X Channels |-> 0]
  /\ worker = [w \in Workers |-> IdleWorker]

-------------------------------------------------------------------------------
\* BEFORE THE WORKER

\* publishEvent: an error is swallowed and the event is lost.
Publish(e) ==
  /\ event[e] = "uncommitted"
  /\ event' = [event EXCEPT ![e] = "published"] \/ event' = [event EXCEPT ![e] = "lost"]
  /\ UNCHANGED <<message, place, log, refused, sent, worker>>

\* The rule puts the event into the queue, perhaps more than once.
Route(m) ==
  /\ event[EventOf(m)] = "published"
  /\ message[m].state = "absent"
  /\ message' = [message EXCEPT ![m].state = "visible"]
  /\ UNCHANGED <<event, place, log, refused, sent, worker>>

\* Or the queue refuses it until the rule gives up and uses its own dead-letter queue.
RouteFails(e) ==
  /\ event[e] = "published"
  /\ \A m \in Messages : EventOf(m) = e => message[m].state = "absent"
  /\ event' = [event EXCEPT ![e] = "undeliverable"]
  /\ UNCHANGED <<message, place, log, refused, sent, worker>>

\* A received message is visible again after its timeout, and sometimes before, unless
\* it was received often enough for the dead-letter queue.
Reappear(m) ==
  /\ message[m].state = "inflight"
  /\ message' = [message EXCEPT ![m].state =
                   IF message[m].receives < MaxReceives THEN "visible" ELSE "dead"]
  /\ UNCHANGED <<event, place, log, refused, sent, worker>>

\* Meanwhile the queue goes on: entries are stored, are called or leave.
Move(t) ==
  /\ \/ place[t] = "coming" /\ place' = [place EXCEPT ![t] = "waiting"]
     \/ place[t] = "waiting" /\ place' = [place EXCEPT ![t] = "gone"]
  /\ UNCHANGED <<event, message, log, refused, sent, worker>>

-------------------------------------------------------------------------------
\* THE WORKER

\* What an invocation does first with the records it has left.
Begin(batch, handled) ==
  [pc |-> IF batch = <<>> THEN "finish"
          ELSE IF EventOf(Head(batch)) \in Closures THEN "list" ELSE "claim",
   batch |-> batch, handled |-> handled, todo |-> {}, contact |-> {}]

WorkerTo(w, r) == worker' = [worker EXCEPT ![w] = r]
Record(r) == Head(r.batch)

\* processNotification returned: the record is handled and the next one is taken up.
Handled(w) ==
  WorkerTo(w, Begin(Tail(worker[w].batch), worker[w].handled \cup {Record(worker[w])}))
\* A variant that takes every record as handled.
FailureAcknowledged(w) == Handled(w)
\* It threw: the record's messageId is reported as failed.
Failed(w) == WorkerTo(w, Begin(Tail(worker[w].batch), worker[w].handled))

ClaimNext(w, todo) ==
  WorkerTo(w, [worker[w] EXCEPT !.pc = "claimCustomer", !.todo = todo, !.contact = {}])
\* Variants: return in place of continue; another query until nobody waits.
OneCustomerOnly(w, todo) ==
  IF todo = {} \/ worker[w].pc # "list" THEN Handled(w) ELSE ClaimNext(w, todo)
UntilNobodyWaits(w, todo) ==
  IF todo # {} THEN ClaimNext(w, todo)
  ELSE IF worker[w].pc = "list" \/ EventOf(Record(worker[w])) \in Targeted THEN Handled(w)
  ELSE WorkerTo(w, [worker[w] EXCEPT !.pc = "list", !.todo = {}, !.contact = {}])
\* The loop of notifyQueueClosed goes on to the customers left.
NextCustomer(w, todo) ==
  IF todo = {} THEN Handled(w) ELSE ClaimNext(w, todo)

Visible == { m \in Messages : message[m].state = "visible" }
Batches ==
  { b \in UNION { [1..k -> Visible] : k \in 1..BatchSize } :
      \A i, k \in DOMAIN b : i # k => b[i] # b[k] }
InBatch(b, m) == \E i \in DOMAIN b : b[i] = m

Receive(w) ==
  /\ worker[w].pc = "idle"
  /\ \E b \in Batches :
       /\ message' = [m \in Messages |->
                        IF InBatch(b, m)
                          THEN [state |-> "inflight", receives |-> message[m].receives + 1]
                          ELSE message[m]]
       /\ WorkerTo(w, Begin(b, {}))
  /\ UNCHANGED <<event, place, log, refused, sent>>

\* The ticket an invocation has in hand, or none, and the notice it is about to send.
\* The order of the list does not matter: it is some fixed one.
Customer(r) == IF r.todo = {} THEN NoTicket ELSE CHOOSE t \in r.todo : TRUE
Notice(r) == <<EventOf(Record(r)), Customer(r)>>

\* A variant without the attribute_not_exists condition.
UnclaimedIgnored(n) == TRUE
\* The put of the NTF# record is conditional on its absence.
Unclaimed(n) == n \notin log

Written(w) == log' = log \cup {Notice(worker[w])} /\ UNCHANGED refused
\* The put fails for another cause than its condition, a conflict or throttling, and the
\* caller takes the notice for one that was claimed before.
Refused(w) ==
  /\ worker[w].pc \in Failing
  /\ Unclaimed(Notice(worker[w]))
  /\ refused' = refused \cup {Notice(worker[w])}
  /\ UNCHANGED log
\* Any other error; the put may have been applied all the same.
ClaimThrows(w) ==
  /\ worker[w].pc \in Failing
  /\ Written(w) \/ UNCHANGED <<log, refused>>

\* processNotification, the record of a targeted event.  Every cancelled transaction is a
\* duplicate to it, whatever the cause; other errors are thrown.
Claim(w) ==
  /\ worker[w].pc = "claim"
  /\ \/ /\ Unclaimed(Notice(worker[w]))
        /\ Written(w)
        /\ WorkerTo(w, [worker[w] EXCEPT !.pc = "contact"])
     \/ ~ Unclaimed(Notice(worker[w])) /\ Handled(w) /\ UNCHANGED <<log, refused>>
     \/ Refused(w) /\ Handled(w)
     \/ ClaimThrows(w) /\ Failed(w)
  /\ UNCHANGED <<event, message, place, sent>>

\* resolveContact: the entry, else the profile; an error of both reads or an item that
\* is not there counts as no contact, and the notification is skipped.
Contact(w) ==
  /\ worker[w].pc = "contact"
  /\ \E contact \in {ContactsOf[TicketOf[EventOf(Record(worker[w]))]]}
                      \cup (IF "contact" \in Failing THEN {{}} ELSE {}) :
       IF contact = {} THEN Handled(w)
       ELSE WorkerTo(w, [worker[w] EXCEPT !.pc = "email", !.contact = contact])
  /\ UNCHANGED <<event, message, place, log, refused, sent>>

\* notifyQueueClosed: the customers who wait when the list is read.
List(w) ==
  /\ worker[w].pc = "list"
  /\ \/ NextCustomer(w, { t \in Tickets : place[t] = "waiting" })
     \/ worker[w].pc \in Failing /\ Failed(w)
  /\ UNCHANGED <<event, message, place, log, refused, sent>>

\* Any error of the put skips the customer; who gave no contact is not sent anything.
ClaimCustomer(w) ==
  LET rest == worker[w].todo \ {Customer(worker[w])}
      contact == ContactsOf[Customer(worker[w])]
  IN
  /\ worker[w].pc = "claimCustomer"
  /\ \/ /\ Unclaimed(Notice(worker[w]))
        /\ Written(w)
        /\ IF contact = {} THEN NextCustomer(w, rest)
           ELSE WorkerTo(w, [worker[w] EXCEPT !.pc = "email", !.contact = contact])
     \/ ~ Unclaimed(Notice(worker[w])) /\ NextCustomer(w, rest) /\ UNCHANGED <<log, refused>>
     \/ Refused(w) /\ NextCustomer(w, rest)
     \/ worker[w].pc \in Failing /\ Written(w) /\ NextCustomer(w, rest)
  /\ UNCHANGED <<event, message, place, sent>>

\* deliver: a provider accepts the message or fails; the error is logged, not thrown.
Send(w, channel) ==
  LET key == <<Notice(worker[w]), channel>>
      possible == channel \in worker[w].contact \cap Configured
  IN
  /\ worker[w].pc = channel
  /\ \/ possible /\ sent' = [sent EXCEPT ![key] = @ + 1]
     \/ UNCHANGED sent
  /\ IF channel = "email" THEN WorkerTo(w, [worker[w] EXCEPT !.pc = "sms"])
     ELSE NextCustomer(w, worker[w].todo \ {Customer(worker[w])})
  /\ UNCHANGED <<event, message, place, log, refused>>

\* ReportBatchItemFailures: what was handled is deleted, the rest stays in flight.
Finish(w) ==
  /\ worker[w].pc = "finish"
  /\ message' = [m \in Messages |->
                   IF m \in worker[w].handled /\ message[m].state # "dead"
                     THEN [message[m] EXCEPT !.state = "deleted"] ELSE message[m]]
  /\ WorkerTo(w, IdleWorker)
  /\ UNCHANGED <<event, place, log, refused, sent>>

\* The invocation times out or is killed: nothing of its batch is deleted.
Crash(w) ==
  /\ worker[w].pc # "idle"
  /\ WorkerTo(w, IdleWorker)
  /\ UNCHANGED <<event, message, place, log, refused, sent>>

-------------------------------------------------------------------------------
WorkerStep(w) ==
  \/ Claim(w) \/ Contact(w) \/ List(w) \/ ClaimCustomer(w) \/ Finish(w)
  \/ \E channel \in Channels : Send(w, channel)

Next ==
  \/ \E e \in Events : Publish(e) \/ RouteFails(e)
  \/ \E m \in Messages : Route(m) \/ Reappear(m)
  \/ \E t \in Tickets : Move(t)
  \/ \E w \in Workers : Receive(w) \/ WorkerStep(w) \/ Crash(w)

Spec == Init /\ [][Next]_vars

\* SQS keeps offering what it has and Lambda runs what it was given; nothing else, no
\* publication, routing or call of a customer, has to happen.
Fairness ==
  /\ \A w \in Workers : WF_vars(Receive(w) \/ WorkerStep(w))
  /\ \A m \in Messages : WF_vars(Reappear(m))

FairSpec == Spec /\ Fairness

-------------------------------------------------------------------------------
\* PROPERTIES

WorkerType ==
  [pc : Pcs, batch : Seq(Messages), handled : SUBSET Messages, todo : SUBSET Tickets,
   contact : SUBSET Channels]

\* What a worker has in hand fits what it is about to do.
Engaged(r) ==
  /\ r.pc \notin {"idle", "finish"} => r.batch # <<>>
  /\ r.pc \in {"claim", "contact"} => EventOf(Record(r)) \in Targeted /\ r.todo = {}
  /\ r.pc = "list" => EventOf(Record(r)) \in Closures
  /\ r.pc = "claimCustomer" => EventOf(Record(r)) \in Closures /\ r.todo # {}
  /\ r.pc \in Channels => (EventOf(Record(r)) \in Closures <=> r.todo # {})

\* Every item, message and invocation has the shape the code gives it.
TypeOK ==
  /\ event \in [Events -> {"uncommitted", "published", "lost", "undeliverable"}]
  /\ message \in [Messages -> [state : {"absent", "visible", "inflight", "deleted", "dead"},
                               receives : Nat]]
  /\ place \in [Tickets -> {"coming", "waiting", "gone"}]
  /\ log \subseteq Notices /\ refused \subseteq Notices
  /\ sent \in [Notices \X Channels -> Nat]
  /\ worker \in [Workers -> WorkerType]
  /\ \A w \in Workers : Engaged(worker[w])

\* notify.js: "SQS redelivery or retries can never spam a customer twice", whatever
\* EventBridge and SQS deliver again, and wherever a worker stops.
SentAtMostOnce == \A k \in Notices \X Channels : sent[k] <= 1

\* The notices somebody claimed and those the store refused in a way the worker takes for
\* a claim: the two ways a notice may be passed over.
Accounted == log \cup refused

\* A message about a targeted event is deleted only when the notification it asks for was
\* claimed by this or another worker, or its put was cancelled in front of the worker; a
\* crash, a redelivery or any other error of the store never drops it.
DeletedWasClaimed ==
  \A m \in Messages :
    message[m].state = "deleted" /\ EventOf(m) \in Targeted => <<EventOf(m), NoTicket>> \in Accounted

\* A closure that was dropped from the queue has reached everybody who waited before it
\* and waits still, those excepted whose put was refused, although an earlier worker may
\* have stopped half way through.
ClosureReachesAll ==
  \A m \in Messages, t \in Tickets \ Late :
    message[m].state = "deleted" /\ EventOf(m) \in Closures /\ place[t] = "waiting"
      => <<EventOf(m), t>> \in Accounted

\* Every message in the queue is handled in the end or moved to the dead-letter queue.
MessagesEnd ==
  \A m \in Messages :
    message[m].state = "visible" ~> message[m].state \in {"deleted", "dead"}

-------------------------------------------------------------------------------
\* INDUCTIVE INVARIANT behind SentAtMostOnce: whoever sends a notice has claimed it,
\* alone, and has not used the channels that are still to come.

Sending(r) == r.pc \in {"contact"} \cup Channels

SendersInv ==
  /\ \A w \in Workers : Sending(worker[w]) => Notice(worker[w]) \in log
  /\ \A w, x \in Workers :
       w # x /\ Sending(worker[w]) /\ Sending(worker[x]) => Notice(worker[w]) # Notice(worker[x])

SentInv ==
  /\ SentAtMostOnce
  /\ \A n \in Notices, channel \in Channels : n \notin log => sent[<<n, channel>>] = 0
  /\ \A w \in Workers :
       /\ worker[w].pc \in {"contact", "email"} => sent[<<Notice(worker[w]), "email">>] = 0
       /\ Sending(worker[w]) => sent[<<Notice(worker[w]), "sms">>] = 0

IInv == TypeOK /\ SendersInv /\ SentInv

-------------------------------------------------------------------------------
\* REFINEMENT: the table, the providers and what was deleted from the queue.

Remaining == { t \in Tickets \ Late : place[t] = "waiting" }
Deleted == { m \in Messages : message[m].state = "deleted" }

Promise == INSTANCE NotificationPromise WITH
  claimed <- log, given <- sent, waiting <- Remaining, settled <- { EventOf(m) : m \in Deleted }

\* The worker does what the head of notify.js promises and no more: a record before each
\* send, e-mail before SMS, each once, and an event acknowledged when each of its records is
\* there or was refused.
ImplementsPromise == Promise!Spec

-------------------------------------------------------------------------------
\* WHAT COMMENTS SAY AND THE CODE DOES NOT KEEP

\* notifyQueueClosed: who is passed over was "already notified ... for this closure".
PassedOverWasNotified ==
  [][\A w \in Workers :
       worker[w].pc = "claimCustomer" /\ worker'[w] # worker[w] /\ worker'[w].pc # "idle"
         => Notice(worker[w]) \in log']_vars
===============================================================================
