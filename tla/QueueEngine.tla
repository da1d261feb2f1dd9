----------------------------- MODULE QueueEngine ------------------------------
(***************************************************************************)
(* The queue mutation engine, backend/src/services/queue-engine.js, for one *)
(* queue whose numbering is not reset daily.                               *)
(*                                                                         *)
(* Every HTTP request runs in a Lambda of its own and talks to one DynamoDB *)
(* table.  A call of the store is one atomic step; everything a handler    *)
(* does between two calls is local.  An action is therefore one store call *)
(* together with the local code up to the next one, and requests interleave *)
(* at exactly the points where the code awaits the store.                  *)
(*                                                                         *)
(* What the handlers publish after their commit is left to the modules of   *)
(* the event pipeline: publishing reads and writes nothing of the queue.   *)
(***************************************************************************)
EXTENDS TicketKeys

CONSTANTS
  Joins,          \* POST /queues/{id}/join requests, each with a token of its own
  Identities,     \* e-mail addresses and phone numbers
  ContactsOf,     \* the identities each join gives: both, one, or only a name ({})
  IdemKeys,       \* values of the Idempotency-Key header
  KeyOf,          \* the key each join carries, or None
  None,           \* no join, no key
  Staff,          \* consoles that send staff operations, one request at a time
  Ops,            \* the operations they send
  Retries,        \* callNext's attempts (3 in the code)
  MaxRecalls,     \* model bound: no recall starts once an entry has this many
  PadWidth,       \* the queue's padWidth
  Issued,         \* tickets issued and served before the behaviour starts
  LastTicket,     \* the largest number formatTicket accepts (MAX_NUMBER)
  EventualReads   \* TRUE when a read may be served by a lagging replica

Actions == {"pause", "resume", "close", "reopen"}
StaffOps == {"next", "skip", "recall"} \cup Actions

ASSUME ContactsAssumption == ContactsOf \in [Joins -> SUBSET Identities]
ASSUME KeysAssumption == KeyOf \in [Joins -> IdemKeys \cup {None}]
ASSUME NoneAssumption == None \notin Joins /\ None \notin IdemKeys
ASSUME OpsAssumption == Ops \subseteq StaffOps /\ EventualReads \in BOOLEAN
ASSUME BoundsAssumption ==
  /\ Retries \in Nat \ {0} /\ MaxRecalls \in Nat /\ PadWidth \in 1..MaxPadWidth
  /\ Issued \in Nat /\ LastTicket \in Nat /\ Issued <= LastTicket /\ LastTicket <= MaxNumber

VARIABLES
  meta,     \* Q#/META: status, paused, nowServing (0 when absent), lastServedTicket
  counter,  \* Q#/COUNTER: open, lastNumber
  entry,    \* Q#/ENTRY#: by ticket number
  guards,   \* the identities that have a Q#/CUST#E: or CUST#P: item
  idem,     \* Q#/IDEM#: the join whose result is stored under each key
  replica,  \* what a lagging replica answers reads of meta, entries and idem with
  join,     \* the join requests
  staff,    \* the staff consoles' requests
  leave     \* for each customer, whether a leave request has found the entry

store == <<meta, counter, entry, guards, idem, replica>>
vars == <<meta, counter, entry, guards, idem, replica, join, staff, leave>>

Tickets == 1..LastTicket
Active == {"WAITING", "CALLED"}
EntryStates == Active \cup {"NONE", "SERVED", "SKIPPED", "LEFT"}
Entries == [state : EntryStates, owner : Joins \cup {None},
            callCount : Nat, recallCount : Nat]
Metas == [status : {"OPEN", "CLOSED"}, paused : BOOLEAN,
          nowServing : Nat, lastServed : Nat]

NoEntry == [state |-> "NONE", owner |-> None, callCount |-> 0, recallCount |-> 0]
FreshEntry(j) == [NoEntry EXCEPT !.state = "WAITING", !.owner = j]
IdleStaff == [pc |-> "idle", op |-> "none", prev |-> 0, prevCalled |-> FALSE,
              cursor |-> 0, candidate |-> 0, attempt |-> 0]

\* queueGuardChecks, and the same two tests at the start of a join.
AcceptsWork(m) == m.status = "OPEN" /\ ~ m.paused

Current == [meta |-> meta, entry |-> entry, idem |-> idem]
\* The item versions a read may return: GetItem and Query ask for no consistency.
Views == IF EventualReads THEN {Current, replica} ELSE {Current}

-------------------------------------------------------------------------------
\* createQueue: the meta item and the counter, open; Issued customers already served.
Init ==
  /\ meta = [status |-> "OPEN", paused |-> FALSE, nowServing |-> 0, lastServed |-> Issued]
  /\ counter = [open |-> TRUE, lastNumber |-> Issued]
  /\ entry = [t \in Tickets |->
                IF t <= Issued THEN [NoEntry EXCEPT !.state = "SERVED", !.callCount = 1]
                               ELSE NoEntry]
  /\ guards = {}
  /\ idem = [k \in IdemKeys |-> None]
  /\ replica = [meta |-> meta, entry |-> entry, idem |-> idem]
  /\ join = [j \in Joins |-> [pc |-> IF KeyOf[j] = None THEN "meta" ELSE "idem",
                              ticket |-> 0, answer |-> None]]
  /\ staff = [s \in Staff |-> IdleStaff]
  /\ leave = [j \in Joins |-> "idle"]

\* The replica of the three item kinds catches up.
Replicate ==
  /\ EventualReads
  /\ replica' = Current
  /\ UNCHANGED <<meta, counter, entry, guards, idem, join, staff, leave>>

-------------------------------------------------------------------------------
\* JOIN.  pc is the next store call: "idem", "meta", "reserve", "commit",
\* "recheck"; "committed" while the answer is on its way; then how it ended.

JoinPcs == {"idem", "meta", "reserve", "commit", "recheck", "committed"}
JoinEnds == {"done", "replayed", "refused", "duplicate", "failed"}

JoinTo(j, pc) == join' = [join EXCEPT ![j].pc = pc]
Answer(j, pc, r) == join' = [join EXCEPT ![j] = [@ EXCEPT !.pc = pc, !.answer = r]]

\* A variant that polls until there is a prior result.
ReplayOrWait(j, pc) ==
  \E v \in Views :
    LET prior == v.idem[KeyOf[j]]
    IN  IF prior = None THEN JoinTo(j, join[j].pc) ELSE Answer(j, "replayed", prior)

\* A prior result under the request's key is replayed, otherwise `pc` is next.
ReplayOr(j, pc) ==
  \E v \in Views :
    LET prior == v.idem[KeyOf[j]]
    IN  IF prior = None THEN JoinTo(j, pc) ELSE Answer(j, "replayed", prior)

JoinReadIdem(j) ==
  /\ join[j].pc = "idem"
  /\ ReplayOr(j, "meta")
  /\ UNCHANGED <<store, staff, leave>>

JoinReadMeta(j) ==
  /\ join[j].pc = "meta"
  /\ \E v \in Views : JoinTo(j, IF AcceptsWork(v.meta) THEN "reserve" ELSE "refused")
  /\ UNCHANGED <<store, staff, leave>>

\* Variants of the condition on the counter update and of its increment.
MayReserveAlways == TRUE
ReservedByCount == 1 + Cardinality({ t \in Tickets : entry[t].state # "NONE" })

\* The conditional `lastNumber + 1`; then formatTicket, which refuses a number
\* past the largest one although the counter has already moved.
MayReserve == counter.open
ReservedNumber == counter.lastNumber + 1

JoinReserve(j) ==
  /\ join[j].pc = "reserve"
  /\ \/ /\ MayReserve
        /\ counter' = [counter EXCEPT !.lastNumber = ReservedNumber]
        /\ IF ReservedNumber \in Tickets
             THEN join' = [join EXCEPT ![j] = [@ EXCEPT !.pc = "commit", !.ticket = ReservedNumber]]
             ELSE JoinTo(j, "failed")
     \/ /\ ~ MayReserve
        /\ JoinTo(j, "refused")
        /\ UNCHANGED counter
  /\ UNCHANGED <<meta, entry, guards, idem, replica, staff, leave>>

IdemFree(j) == KeyOf[j] # None => idem[KeyOf[j]] = None

\* The transaction's conditions without the identity guards, without the key's.
MayCommitUnguarded(j) == entry[join[j].ticket].state = "NONE" /\ IdemFree(j)
MayCommitUnkeyed(j) ==
  entry[join[j].ticket].state = "NONE" /\ ContactsOf[j] \cap guards = {}

\* The attribute_not_exists conditions of the join transaction.
MayCommit(j) ==
  /\ entry[join[j].ticket].state = "NONE"
  /\ ContactsOf[j] \cap guards = {}
  /\ IdemFree(j)

JoinCommit(j) ==
  /\ join[j].pc = "commit"
  /\ \/ /\ MayCommit(j)
        /\ entry' = [entry EXCEPT ![join[j].ticket] = FreshEntry(j)]
        /\ guards' = guards \cup ContactsOf[j]
        /\ idem' = [k \in IdemKeys |-> IF k = KeyOf[j] THEN j ELSE idem[k]]
        /\ Answer(j, "committed", j)
     \/ /\ ~ MayCommit(j)
        /\ JoinTo(j, IF KeyOf[j] = None THEN "duplicate" ELSE "recheck")
        /\ UNCHANGED <<entry, guards, idem>>
  /\ UNCHANGED <<meta, counter, replica, staff, leave>>

JoinRecheck(j) ==
  /\ join[j].pc = "recheck"
  /\ ReplayOr(j, "duplicate")
  /\ UNCHANGED <<store, staff, leave>>

\* publishEvent returns whatever happens, and the client gets the result.
JoinReply(j) ==
  /\ join[j].pc = "committed"
  /\ JoinTo(j, "done")
  /\ UNCHANGED <<store, staff, leave>>

\* The Lambda stops or the store throws: the client gets an error or nothing,
\* and what was written stays.
JoinFail(j) ==
  /\ join[j].pc \in JoinPcs
  /\ join' = [join EXCEPT ![j] = [@ EXCEPT !.pc = "failed", !.answer = None]]
  /\ UNCHANGED <<store, staff, leave>>

-------------------------------------------------------------------------------
\* LEAVE.  The token of the entry's owner is in the answer of a join.

KnowsToken(j) == \E k \in Joins : join[k].pc \in {"done", "replayed"} /\ join[k].answer = j

\* The GSI1 read by token finds the one entry with it, if it is active.
LeaveFind(j) ==
  /\ leave[j] = "idle"
  /\ KnowsToken(j)
  /\ \E v \in Views, t \in Tickets : v.entry[t].owner = j /\ v.entry[t].state \in Active
  /\ leave' = [leave EXCEPT ![j] = "found"]
  /\ UNCHANGED <<store, join, staff>>

\* The leave transaction's condition on the entry that was found.
MayLeave(j) == entry[join[j].ticket].state \in Active

LeaveCommit(j) ==
  /\ leave[j] = "found"
  /\ leave' = [leave EXCEPT ![j] = "idle"]
  /\ \/ /\ MayLeave(j)
        /\ entry' = [entry EXCEPT ![join[j].ticket].state = "LEFT"]
        /\ guards' = guards \ ContactsOf[j]
     \/ /\ ~ MayLeave(j)
        /\ UNCHANGED <<entry, guards>>
  /\ UNCHANGED <<meta, counter, idem, replica, join, staff>>

-------------------------------------------------------------------------------
\* CALL NEXT.  pc: "prev" reads the entry nowServing names, "find" looks for the
\* candidate, "call" is the transaction, "retry" the backoff before another attempt,
\* "completeEntry" and "completeMeta" the two updates of completeCurrentOnly.

StaffTo(s, r) == staff' = [staff EXCEPT ![s] = r]

CallNextReadMeta(s) ==
  /\ \/ staff[s].pc = "idle" /\ "next" \in Ops
     \/ staff[s].pc = "retry"
  /\ \E v \in Views :
       StaffTo(s, IF AcceptsWork(v.meta)
                    THEN [IdleStaff EXCEPT !.op = "next",
                            !.pc = IF v.meta.nowServing = 0 THEN "find" ELSE "prev",
                            !.prev = v.meta.nowServing, !.cursor = v.meta.lastServed,
                            !.attempt = staff[s].attempt + 1]
                    ELSE IdleStaff)
  /\ UNCHANGED <<store, join, leave>>

CallNextReadPrev(s) ==
  /\ staff[s].pc = "prev"
  /\ \E v \in Views :
       StaffTo(s, [staff[s] EXCEPT !.pc = "find",
                     !.prevCalled = v.entry[staff[s].prev].state = "CALLED"])
  /\ UNCHANGED <<store, join, leave>>

WaitingIn(e) == { t \in Tickets : e[t].state = "WAITING" }

\* nextWaitingEntry, its pages read as one.
CallNextFind(s) ==
  LET r == staff[s] IN
  /\ r.pc = "find"
  /\ \E v \in Views :
       LET found == KeysAfter(WaitingIn(v.entry), r.cursor, PadWidth)
       IN  \/ \E t \in found : /\ IsFirstKey(t, found, PadWidth)
                               /\ StaffTo(s, [r EXCEPT !.pc = "call", !.candidate = t])
           \/ /\ found = {}
              /\ StaffTo(s, IF r.prevCalled THEN [r EXCEPT !.pc = "completeEntry"] ELSE IdleStaff)
  /\ UNCHANGED <<store, join, leave>>

\* Variants: the transaction without the condition on the candidate, on the one before.
MayCallAnyone(r) == r.prevCalled => entry[r.prev].state = "CALLED"
MayCallAnyway(r) == entry[r.candidate].state = "WAITING"
\* The conditions of the call transaction of a request r.
MayCall(r) ==
  /\ entry[r.candidate].state = "WAITING"
  /\ r.prevCalled => entry[r.prev].state = "CALLED"

\* A variant that leaves the one before as it is.
CalledEntriesOnly(r) ==
  [entry EXCEPT ![r.candidate].state = "CALLED", ![r.candidate].callCount = @ + 1]

\* The entries after the transaction: candidate called, the one before served.
CalledEntries(r) ==
  [t \in Tickets |->
     IF t = r.candidate
       THEN [entry[t] EXCEPT !.state = "CALLED", !.callCount = @ + 1]
     ELSE IF r.prevCalled /\ t = r.prev THEN [entry[t] EXCEPT !.state = "SERVED"]
     ELSE entry[t]]

\* A stale candidate can be the entry to complete: the store refuses a transaction
\* that names an item twice with an error that is not retried.
SameItemTwice(r) == r.prevCalled /\ r.prev = r.candidate

CallNextCommit(s) ==
  LET r == staff[s] IN
  /\ r.pc = "call"
  /\ \/ /\ MayCall(r)
        /\ entry' = CalledEntries(r)
        /\ meta' = [meta EXCEPT !.nowServing = r.candidate, !.lastServed = r.candidate - 1]
        /\ StaffTo(s, IdleStaff)
     \/ /\ ~ MayCall(r)
        /\ StaffTo(s, IF r.attempt < Retries /\ ~ SameItemTwice(r)
                        THEN [IdleStaff EXCEPT !.pc = "retry", !.op = "next", !.attempt = r.attempt]
                        ELSE IdleStaff)
        /\ UNCHANGED <<entry, meta>>
  /\ UNCHANGED <<counter, guards, idem, replica, join, leave>>

\* The entry of the current customer moves to a final state, if still CALLED.
CurrentIsCalled(r) == entry[r.prev].state = "CALLED"
EndCurrent(r, state) == entry' = [entry EXCEPT ![r.prev].state = state]
\* A variant that stores a null where the code removes the attribute.
ClearServingToNull(r) == meta' = [meta EXCEPT !.nowServing = None, !.lastServed = r.prev]
ClearServing(r) == meta' = [meta EXCEPT !.nowServing = 0, !.lastServed = r.prev]

CompleteEntry(s) ==
  LET r == staff[s] IN
  /\ r.pc = "completeEntry"
  /\ \/ /\ CurrentIsCalled(r)
        /\ EndCurrent(r, "SERVED")
        /\ StaffTo(s, [r EXCEPT !.pc = "completeMeta"])
     \/ /\ ~ CurrentIsCalled(r)
        /\ StaffTo(s, IdleStaff)
        /\ UNCHANGED entry
  /\ UNCHANGED <<meta, counter, guards, idem, replica, join, leave>>

CompleteMeta(s) ==
  /\ staff[s].pc = "completeMeta"
  /\ ClearServing(staff[s])
  /\ StaffTo(s, IdleStaff)
  /\ UNCHANGED <<counter, entry, guards, idem, replica, join, leave>>

-------------------------------------------------------------------------------
\* SKIP and RECALL of the current customer: meta, then the entry, then the write.

CurrentReadMeta(s, op) ==
  /\ staff[s].pc = "idle"
  /\ op \in Ops \cap {"skip", "recall"}
  /\ op = "recall" => \A t \in Tickets : entry[t].recallCount < MaxRecalls
  /\ \E v \in Views :
       StaffTo(s, IF AcceptsWork(v.meta) /\ v.meta.nowServing # 0
                    THEN [IdleStaff EXCEPT !.op = op, !.pc = "current", !.prev = v.meta.nowServing]
                    ELSE IdleStaff)
  /\ UNCHANGED <<store, join, leave>>

CurrentReadEntry(s) ==
  /\ staff[s].pc = "current"
  /\ \E v \in Views :
       StaffTo(s, IF v.entry[staff[s].prev].state = "CALLED"
                    THEN [staff[s] EXCEPT !.pc = staff[s].op] ELSE IdleStaff)
  /\ UNCHANGED <<store, join, leave>>

SkipCommit(s) ==
  LET r == staff[s] IN
  /\ r.pc = "skip"
  /\ \/ CurrentIsCalled(r) /\ EndCurrent(r, "SKIPPED") /\ ClearServing(r)
     \/ ~ CurrentIsCalled(r) /\ UNCHANGED <<entry, meta>>
  /\ StaffTo(s, IdleStaff)
  /\ UNCHANGED <<counter, guards, idem, replica, join, leave>>

RecallCommit(s) ==
  LET r == staff[s] IN
  /\ r.pc = "recall"
  /\ \/ /\ CurrentIsCalled(r)
        /\ entry' = [entry EXCEPT ![r.prev].recallCount = @ + 1]
     \/ ~ CurrentIsCalled(r) /\ UNCHANGED entry
  /\ StaffTo(s, IdleStaff)
  /\ UNCHANGED <<meta, counter, guards, idem, replica, join, leave>>

-------------------------------------------------------------------------------
\* PAUSE, RESUME, CLOSE, REOPEN.

From(a) == IF a = "reopen" THEN "CLOSED" ELSE "OPEN"
To(a) == IF a = "close" THEN "CLOSED" ELSE "OPEN"
SetsPaused(a) == a = "pause"
\* A variant in which a close forgets the counter.
CounterOpenKept(a) == a # "pause"
CounterOpen(a) == a \in {"resume", "reopen"}

\* The checks on the item that was read.
MayTransition(m, a) ==
  /\ m.status = From(a)
  /\ a = "pause" => ~ m.paused
  /\ a = "resume" => m.paused

SetStateRead(s, a) ==
  /\ staff[s].pc = "idle"
  /\ a \in Ops \cap Actions
  /\ \E v \in Views :
       StaffTo(s, IF MayTransition(v.meta, a)
                    THEN [IdleStaff EXCEPT !.pc = "set", !.op = a] ELSE IdleStaff)
  /\ UNCHANGED <<store, join, leave>>

\* Meta and the counter's mirror in one transaction, on condition of the status.
SetStateCommit(s) ==
  LET a == staff[s].op IN
  /\ staff[s].pc = "set"
  /\ \/ /\ meta.status = From(a)
        /\ meta' = [meta EXCEPT !.status = To(a), !.paused = SetsPaused(a)]
        /\ counter' = [counter EXCEPT !.open = CounterOpen(a)]
     \/ meta.status # From(a) /\ UNCHANGED <<meta, counter>>
  /\ StaffTo(s, IdleStaff)
  /\ UNCHANGED <<entry, guards, idem, replica, join, leave>>

\* The Lambda of a staff request stops between two calls of the store.
StaffFail(s) ==
  /\ staff[s].pc # "idle"
  /\ StaffTo(s, IdleStaff)
  /\ UNCHANGED <<store, join, leave>>

-------------------------------------------------------------------------------
JoinStep(j) ==
  JoinReadIdem(j) \/ JoinReadMeta(j) \/ JoinReserve(j) \/ JoinCommit(j) \/ JoinRecheck(j) \/ JoinReply(j)
LeaveStep(j) == LeaveFind(j) \/ LeaveCommit(j)
CallNextStep(s) ==
  \/ CallNextReadMeta(s) \/ CallNextReadPrev(s) \/ CallNextFind(s) \/ CallNextCommit(s)
  \/ CompleteEntry(s) \/ CompleteMeta(s)
CurrentStep(s) ==
  (\E op \in Ops : CurrentReadMeta(s, op)) \/ CurrentReadEntry(s) \/ SkipCommit(s) \/ RecallCommit(s)
SetStateStep(s) == (\E a \in Ops : SetStateRead(s, a)) \/ SetStateCommit(s)

Next ==
  \/ \E j \in Joins : JoinStep(j) \/ JoinFail(j) \/ LeaveStep(j)
  \/ \E s \in Staff : CallNextStep(s) \/ CurrentStep(s) \/ SetStateStep(s) \/ StaffFail(s)
  \/ Replicate

Spec == Init /\ [][Next]_vars

-------------------------------------------------------------------------------
\* Fairness.  A started request runs on to its answer or fails.

\* Each join request that was sent is carried to its end.
JoinFairness == \A j \in Joins : WF_vars(JoinStep(j))
\* Staff keep pressing "call next", also between other operations and after a request
\* failed: each step of it happens again and again as long as it keeps becoming possible.
CallFairness ==
  \A s \in Staff :
    /\ SF_vars(CallNextReadMeta(s)) /\ SF_vars(CallNextReadPrev(s)) /\ SF_vars(CallNextFind(s))
    /\ SF_vars(CallNextCommit(s)) /\ SF_vars(CompleteEntry(s)) /\ SF_vars(CompleteMeta(s))
\* The other requests of a console go on once begun; nobody has to begin one.
StaffFairness == \A s \in Staff : WF_vars(CurrentReadEntry(s) \/ SkipCommit(s) \/ RecallCommit(s))
FairSpec == Spec /\ JoinFairness /\ CallFairness /\ StaffFairness

-------------------------------------------------------------------------------
\* PROPERTIES

ReplicaType ==
  [meta : Metas, entry : [Tickets -> Entries], idem : [IdemKeys -> Joins \cup {None}]]
JoinType == [pc : JoinPcs \cup JoinEnds, ticket : Nat, answer : Joins \cup {None}]
StaffPcs ==
  {"idle", "prev", "find", "call", "retry", "completeEntry", "completeMeta",
   "current", "skip", "recall", "set"}
StaffType ==
  [pc : StaffPcs, op : StaffOps \cup {"none"}, prev : Nat, prevCalled : BOOLEAN,
   cursor : Nat, candidate : Nat, attempt : Nat]

\* A request that calls has a ticket to call; one that read the board has an operation.
Aims(r) ==
  /\ r.pc = "call" => r.candidate \in Tickets
  /\ r.pc = "current" => r.op \in {"skip", "recall"}
  /\ r.pc = "set" => r.op \in Actions

\* Every item and every request has the shape the code gives it.
TypeOK ==
  /\ meta \in Metas
  /\ counter \in [open : BOOLEAN, lastNumber : Nat]
  /\ entry \in [Tickets -> Entries]
  /\ guards \subseteq Identities
  /\ idem \in [IdemKeys -> Joins \cup {None}]
  /\ replica \in ReplicaType
  /\ join \in [Joins -> JoinType]
  /\ \A j \in Joins : join[j].pc \in {"idem", "recheck"} => KeyOf[j] # None
  /\ staff \in [Staff -> StaffType]
  /\ \A s \in Staff : Aims(staff[s])
  /\ leave \in [Joins -> {"idle", "found"}]

\* Simultaneous joins never get the same number, no number is above the counter,
\* and the entry stored under a number is that of the join the counter gave it to.
TicketsUnique ==
  /\ \A j \in Joins : join[j].ticket <= counter.lastNumber
  /\ \A j, k \in Joins : j # k /\ join[j].ticket # 0 => join[j].ticket # join[k].ticket
  /\ \A t \in Tickets : entry[t].owner # None => join[entry[t].owner].ticket = t

\* The duplicate-join guards: however joins and leaves interleave, no e-mail address
\* and no phone number is in the queue twice.
OneActivePerContact ==
  \A t, u \in Tickets :
    t # u /\ entry[t].state \in Active /\ entry[u].state \in Active
      => ContactsOf[entry[t].owner] \cap ContactsOf[entry[u].owner] = {}

\* Requests with the same Idempotency-Key make one entry between them, and whoever is
\* answered is answered with an entry that is stored, made under the same key.
IdempotentJoins ==
  /\ \A t, u \in Tickets :
       t # u /\ entry[t].owner # None /\ entry[u].owner # None
         => KeyOf[entry[t].owner] = None \/ KeyOf[entry[t].owner] # KeyOf[entry[u].owner]
  /\ \A j \in Joins :
       LET a == join[j].answer
       IN  a # None => /\ \E t \in Tickets : entry[t].owner = a /\ join[a].ticket = t
                       /\ KeyOf[j] = KeyOf[a] /\ (j = a \/ KeyOf[j] # None)

\* setQueueState: whatever two consoles pause, resume, close and reopen at once, the
\* counter is open exactly when the queue accepts customers.
CounterMirrorsMeta == counter.open <=> AcceptsWork(meta)

\* No number is issued while the queue is paused or closed, even to a join that read
\* the queue before that.
TicketsOnlyWhileOpen ==
  [][counter'.lastNumber # counter.lastNumber => AcceptsWork(meta)]_vars

\* WAITING -> CALLED -> SERVED or SKIPPED, or LEFT from either active state; once set,
\* the owner stays, and no final state is ever overwritten by a late request.
Moves == {<<"NONE", "WAITING">>, <<"WAITING", "CALLED">>, <<"WAITING", "LEFT">>,
          <<"CALLED", "SERVED">>, <<"CALLED", "SKIPPED">>, <<"CALLED", "LEFT">>}
MovesForward(e, f) ==
  /\ e.state # f.state => <<e.state, f.state>> \in Moves
  /\ e.state # "NONE" => f.owner = e.owner
EntriesMoveForward == [][\A t \in Tickets : MovesForward(entry[t], entry'[t])]_vars

\* Any number of consoles pressing "call next" call each customer at most once, and the
\* board (nowServing) only ever shows somebody who was called.
CalledAtMostOnce ==
  /\ \A t \in Tickets : entry[t].callCount <= 1
  /\ meta.nowServing # 0 => entry[meta.nowServing].callCount = 1

\* With one console and consistent reads, the only customer in state CALLED is the one
\* the board shows, so skip, recall and the next call always act on the right entry.
OnlyServingIsCalled ==
  \A t \in Tickets : entry[t].state = "CALLED" => t = meta.nowServing

\* With one console and consistent reads, customers are called in ascending order.
AscendingCalls ==
  [][\A t, u \in Tickets :
       /\ entry[t].callCount = 0 /\ entry'[t].callCount = 1
       /\ entry[u].callCount = 1
       => u < t]_vars

\* countWaitingBefore counts the "WAITING entries with a ticket strictly before `ticket`",
\* for every ticket but the first, as long as the numbers fit padWidth.
CountsStrictlyBefore ==
  LastTicket < Pow10[PadWidth] =>
    \A t \in Tickets \ {1} :
      CountedBefore(WaitingIn(entry), t, PadWidth) = { u \in WaitingIn(entry) : u < t }

\* nextWaitingEntry's range holds whoever waits past a cursor, and its first item is the
\* smallest of them, as long as the numbers fit padWidth.
NextIsSmallest ==
  LastTicket < Pow10[PadWidth] =>
    \A cursor \in 0..LastTicket :
      LET range == KeysAfter(WaitingIn(entry), cursor, PadWidth)
          past == { u \in WaitingIn(entry) : u > cursor }
      IN  /\ range = past
          /\ \A t \in past : IsFirstKey(t, range, PadWidth) <=> \A u \in past : t <= u

\* No request hangs: callNext gives up after its attempts, a join is answered.
RequestsEnd ==
  /\ \A j \in Joins : <>(join[j].pc \in JoinEnds)
  /\ \A s \in Staff : staff[s].pc # "idle" ~> staff[s].pc = "idle"

\* With one console, a customer the next request can see (stored, past the cursor) is
\* called or leaves, however many of the requests before fail.
SeenCustomersAreCalled ==
  \A t \in Tickets :
    /\ entry[t].state = "WAITING" /\ KeyBefore(meta.lastServed, t, PadWidth)
    /\ \A s \in Staff : staff[s].pc = "idle"
    ~> entry[t].state # "WAITING"

-------------------------------------------------------------------------------
\* INDUCTIVE INVARIANT: what the requests and the items they left have to do with
\* each other at every moment; the invariants above follow from it.

\* Numbers: a join has none before it reserves, entries are stored by those who have.
NumbersInv ==
  /\ Issued <= counter.lastNumber
  /\ \A j \in Joins :
       /\ join[j].pc \in {"idem", "meta", "reserve"} => join[j].ticket = 0
       /\ join[j].pc = "commit" => join[j].ticket \in Tickets
       /\ join[j].ticket <= counter.lastNumber
  /\ \A j, k \in Joins : j # k /\ join[j].ticket # 0 => join[j].ticket # join[k].ticket
  /\ \A t \in Tickets :
       /\ entry[t].owner # None => join[entry[t].owner].ticket = t
       /\ entry[t].state = "NONE" => entry[t].owner = None /\ entry[t].callCount = 0
       /\ entry[t].state \in Active => entry[t].owner # None
  /\ \A j \in Joins : join[j].pc = "commit" => \A t \in Tickets : entry[t].owner # j

\* A replica lags, but never shows an owner or a stored result the table does not have.
ReplicaInv ==
  /\ \A t \in Tickets : replica.entry[t].owner # None => entry[t].owner = replica.entry[t].owner
  /\ \A k \in IdemKeys : replica.idem[k] # None => idem[k] = replica.idem[k]
  /\ \A j \in Joins : leave[j] = "found" => \E t \in Tickets : entry[t].owner = j

\* Who has an entry and did not leave it holds a guard for each identity, alone.
Holds(e) == e.owner # None /\ e.state # "LEFT"
GuardsInv ==
  /\ \A t \in Tickets : Holds(entry[t]) => ContactsOf[entry[t].owner] \subseteq guards
  /\ \A t, u \in Tickets :
       t # u /\ Holds(entry[t]) /\ Holds(entry[u])
         => ContactsOf[entry[t].owner] \cap ContactsOf[entry[u].owner] = {}

\* A key's record names the one join under that key that has an entry.
KeysInv ==
  /\ \A k \in IdemKeys :
       idem[k] # None => KeyOf[idem[k]] = k /\ \E t \in Tickets : entry[t].owner = idem[k]
  /\ \A t \in Tickets :
       LET j == entry[t].owner
       IN  j # None /\ KeyOf[j] # None => idem[KeyOf[j]] = j
  /\ \A j \in Joins :
       LET a == join[j].answer
       IN  a # None => /\ \E t \in Tickets : entry[t].owner = a
                       /\ KeyOf[j] = KeyOf[a] /\ (j = a \/ KeyOf[j] # None)

\* Calls: who waits has not been called, and who is on the board has.
CallsInv ==
  /\ \A t \in Tickets : /\ entry[t].callCount <= 1
                        /\ entry[t].state = "WAITING" => entry[t].callCount = 0
  /\ meta.nowServing # 0 => meta.nowServing \in Tickets /\ entry[meta.nowServing].callCount = 1

IInv == TypeOK /\ NumbersInv /\ ReplicaInv /\ GuardsInv /\ KeysInv /\ CallsInv /\ CounterMirrorsMeta

-------------------------------------------------------------------------------
\* REFINEMENT

LineOf(e) == [t \in Tickets |-> [state |-> e[t].state, owner |-> e[t].owner]]

Promise == INSTANCE QueuePromise WITH
  Customers <- Joins, Numbers <- Tickets, First <- Issued,
  open <- AcceptsWork(meta), issued <- counter.lastNumber, line <- LineOf(entry)

\* Whatever the interleaving, and however stale the reads, the requests together do
\* only what QueuePromise allows: each store write is one of its steps or none.
ImplementsPromise == Promise!Spec

-------------------------------------------------------------------------------
\* What comments and tests say and the code does not keep.

\* concurrency.test.mjs: "at most one customer is currently called".
AtMostOneCalled ==
  \A t, u \in Tickets : entry[t].state = "CALLED" /\ entry[u].state = "CALLED" => t = u

\* commitJoin refuses a join with 'You are already in this queue'.
DuplicatesAreInQueue ==
  [][\A j \in Joins :
       join[j].pc # "duplicate" /\ join'[j].pc = "duplicate"
         => \E t \in Tickets : /\ entry[t].state \in Active
                               /\ ContactsOf[entry[t].owner] \cap ContactsOf[j] # {}]_vars

\* callNext "calls the next waiting customer": whoever is waiting is ahead of the cursor.
WaitingIsReachable ==
  \A t \in Tickets :
    entry[t].state = "WAITING" => KeyBefore(meta.lastServed, t, PadWidth)
===============================================================================
