--------------------------- MODULE QueueEngineSafety --------------------------
(***************************************************************************)
(* The inductive invariant of QueueEngine and the safety properties that   *)
(* follow from it.  Staff requests are summed up once, in StaffEffect: they *)
(* move entries forward and leave everything that belongs to joins alone.   *)
(***************************************************************************)
EXTENDS QueueEngineProofs

-------------------------------------------------------------------------------
\* WHAT A STAFF REQUEST DOES

StaffAction(s) == CallNextStep(s) \/ CurrentStep(s) \/ SetStateStep(s) \/ StaffFail(s)

Untouched == UNCHANGED <<guards, idem, replica, join, leave>>
SameNumber == counter'.lastNumber = counter.lastNumber

Same(e, f) == f.state = e.state /\ f.callCount = e.callCount
Called(e, f) == e.state = "WAITING" /\ f.state = "CALLED" /\ f.callCount = e.callCount + 1
Ended(e, f) ==
  e.state = "CALLED" /\ f.state \in {"SERVED", "SKIPPED"} /\ f.callCount = e.callCount
StaffMoves ==
  \A t \in Tickets :
    /\ entry'[t].owner = entry[t].owner
    /\ Same(entry[t], entry'[t]) \/ Called(entry[t], entry'[t]) \/ Ended(entry[t], entry'[t])

BoardMoves ==
  \/ meta'.nowServing = meta.nowServing
  \/ meta'.nowServing = 0
  \/ meta'.nowServing \in Tickets /\ LET n == meta'.nowServing IN Called(entry[n], entry'[n])

SwitchMoves ==
  \/ AcceptsWork(meta)' = AcceptsWork(meta) /\ counter'.open = counter.open
  \/ counter'.open = AcceptsWork(meta)'

LEMMA EndCurrentEffect ==
  ASSUME TypeOK, NEW r, NEW state \in {"SERVED", "SKIPPED"},
         CurrentIsCalled(r), EndCurrent(r, state)
  PROVE  StaffMoves
<1>1. entry \in [Tickets -> Entries]
  BY DEF TypeOK
<1>2. ASSUME NEW t \in Tickets
      PROVE  /\ entry'[t].owner = entry[t].owner
             /\ Same(entry[t], entry'[t]) \/ Ended(entry[t], entry'[t])
  <2>1. CASE t = r.prev
    <3>1. entry'[t] = [entry[t] EXCEPT !.state = state] /\ entry[t] \in Entries
      BY <1>1, <2>1 DEF EndCurrent
    <3>. QED
      BY <2>1, <3>1 DEF Entries, CurrentIsCalled, Ended
  <2>2. CASE t # r.prev
    BY <1>1, <2>2 DEF EndCurrent, Same
  <2>. QED
    BY <2>1, <2>2
<1>. QED
  BY <1>2 DEF StaffMoves

\* Writing only the board leaves the switches as they were.
LEMMA ClearServingEffect ==
  ASSUME TypeOK, NEW r, ClearServing(r)
  PROVE  meta'.nowServing = 0 /\ AcceptsWork(meta)' = AcceptsWork(meta)
BY DEF TypeOK, ClearServing, Metas, AcceptsWork

LEMMA CallEffect ==
  ASSUME TypeOK, NEW s \in Staff, CallNextCommit(s)
  PROVE  StaffMoves /\ BoardMoves /\ AcceptsWork(meta)' = AcceptsWork(meta)
<1> DEFINE r == staff[s]
<1>1. entry \in [Tickets -> Entries] /\ meta \in Metas /\ r.pc = "call"
  BY DEF TypeOK, CallNextCommit
<1>2. CASE UNCHANGED <<entry, meta>>
  BY <1>2 DEF StaffMoves, Same, BoardMoves, AcceptsWork
<1>3. CASE /\ MayCall(r) /\ entry' = CalledEntries(r)
           /\ meta' = [meta EXCEPT !.nowServing = r.candidate, !.lastServed = r.candidate - 1]
  <2>1. r.candidate \in Tickets
    BY <1>1 DEF TypeOK, Aims
  <2>2. ASSUME NEW t \in Tickets
        PROVE  /\ entry'[t].owner = entry[t].owner
               /\ t = r.candidate => Called(entry[t], entry'[t])
               /\ t # r.candidate => Same(entry[t], entry'[t]) \/ Ended(entry[t], entry'[t])
    <3>1. entry[t] \in Entries
      BY <1>1
    <3>2. CASE t = r.candidate
      <4>1. entry'[t] = [entry[t] EXCEPT !.state = "CALLED", !.callCount = entry[t].callCount + 1]
        BY <1>3, <3>2 DEF CalledEntries
      <4>2. entry[t].state = "WAITING"
        BY <1>3, <3>2 DEF MayCall
      <4>. QED
        BY <3>1, <3>2, <4>1, <4>2 DEF Entries, Called
    <3>3. CASE t # r.candidate /\ r.prevCalled /\ t = r.prev
      <4>1. entry'[t] = [entry[t] EXCEPT !.state = "SERVED"]
        BY <1>3, <3>3 DEF CalledEntries
      <4>2. entry[t].state = "CALLED"
        BY <1>3, <3>3 DEF MayCall
      <4>. QED
        BY <3>1, <3>3, <4>1, <4>2 DEF Entries, Ended
    <3>4. CASE t # r.candidate /\ ~ (r.prevCalled /\ t = r.prev)
      BY <1>3, <3>4 DEF CalledEntries, Same
    <3>. QED
      BY <3>2, <3>3, <3>4
  <2>3. /\ meta'.nowServing = r.candidate
        /\ meta'.status = meta.status /\ meta'.paused = meta.paused
    BY <1>1, <1>3 DEF Metas
  <2>4. AcceptsWork(meta)' = AcceptsWork(meta)
    BY <2>3 DEF AcceptsWork
  <2>. QED
    BY <2>1, <2>2, <2>3, <2>4 DEF StaffMoves, BoardMoves
<1>. QED
  BY <1>2, <1>3 DEF CallNextCommit

LEMMA SwitchEffect ==
  ASSUME TypeOK, NEW s \in Staff, SetStateCommit(s)
  PROVE  StaffMoves /\ BoardMoves /\ SwitchMoves /\ SameNumber
<1> DEFINE a == staff[s].op
<1>1. meta \in Metas /\ counter \in [open : BOOLEAN, lastNumber : Nat]
  BY DEF TypeOK
<1>2. StaffMoves
  BY DEF SetStateCommit, StaffMoves, Same
<1>3. CASE UNCHANGED <<meta, counter>>
  BY <1>2, <1>3 DEF BoardMoves, SwitchMoves, SameNumber, AcceptsWork
<1>4. CASE /\ meta.status = From(a)
           /\ meta' = [meta EXCEPT !.status = To(a), !.paused = SetsPaused(a)]
           /\ counter' = [counter EXCEPT !.open = CounterOpen(a)]
  <2>1. meta'.nowServing = meta.nowServing /\ counter'.lastNumber = counter.lastNumber
    BY <1>1, <1>4 DEF Metas
  <2>2. meta'.status = To(a) /\ meta'.paused = SetsPaused(a) /\ counter'.open = CounterOpen(a)
    BY <1>1, <1>4 DEF Metas
  <2>3. a \in Actions
    BY DEF SetStateCommit, TypeOK, Aims
  <2>4. CounterOpen(a) = (To(a) = "OPEN" /\ ~ SetsPaused(a))
    BY <2>3 DEF Actions, CounterOpen, To, SetsPaused
  <2>5. counter'.open = AcceptsWork(meta)'
    BY <2>2, <2>4 DEF AcceptsWork
  <2>. QED
    BY <1>2, <2>1, <2>5 DEF BoardMoves, SwitchMoves, SameNumber
<1>. QED
  BY <1>3, <1>4 DEF SetStateCommit

\* Whatever a staff request does, it calls who waits or ends who is called, shows on
\* the board nobody or the one it calls, and never touches numbers, guards or keys.
LEMMA StaffEffect ==
  ASSUME TypeOK, NEW s \in Staff, StaffAction(s)
  PROVE  Untouched /\ SameNumber /\ StaffMoves /\ BoardMoves /\ SwitchMoves
<1>1. CASE UNCHANGED <<store, join, leave>>
  BY <1>1 DEF store, Untouched, SameNumber, StaffMoves, Same, BoardMoves, SwitchMoves, AcceptsWork
<1>2. CASE CallNextCommit(s)
  BY <1>2, CallEffect DEF CallNextCommit, Untouched, SameNumber, SwitchMoves
<1>3. CASE CompleteEntry(s)
  <2>1. StaffMoves
    BY <1>3, EndCurrentEffect DEF CompleteEntry, StaffMoves, Same
  <2>. QED
    BY <1>3, <2>1 DEF CompleteEntry, Untouched, SameNumber, BoardMoves, SwitchMoves, AcceptsWork
<1>4. CASE CompleteMeta(s)
  <2>1. StaffMoves /\ meta'.nowServing = 0 /\ AcceptsWork(meta)' = AcceptsWork(meta)
    BY <1>4, ClearServingEffect DEF CompleteMeta, StaffMoves, Same
  <2>. QED
    BY <1>4, <2>1 DEF CompleteMeta, Untouched, SameNumber, BoardMoves, SwitchMoves
<1>5. CASE SkipCommit(s)
  <2>1. StaffMoves /\ BoardMoves /\ AcceptsWork(meta)' = AcceptsWork(meta)
    <3>1. CASE UNCHANGED <<entry, meta>>
      BY <3>1 DEF StaffMoves, Same, BoardMoves, AcceptsWork
    <3>2. CASE /\ CurrentIsCalled(staff[s])
               /\ EndCurrent(staff[s], "SKIPPED")
               /\ ClearServing(staff[s])
      BY <3>2, EndCurrentEffect, ClearServingEffect DEF BoardMoves
    <3>. QED
      BY <1>5, <3>1, <3>2 DEF SkipCommit
  <2>. QED
    BY <1>5, <2>1 DEF SkipCommit, Untouched, SameNumber, SwitchMoves
<1>6. CASE RecallCommit(s)
  <2>1. entry \in [Tickets -> Entries]
    BY DEF TypeOK
  <2>2. StaffMoves
    BY <1>6, <2>1 DEF RecallCommit, StaffMoves, Same, Entries
  <2>. QED
    BY <1>6, <2>2 DEF RecallCommit, Untouched, SameNumber, BoardMoves, SwitchMoves, AcceptsWork
<1>7. CASE SetStateCommit(s)
  BY <1>7, SwitchEffect DEF SetStateCommit, Untouched
<1>. QED
  BY <1>1, <1>2, <1>3, <1>4, <1>5, <1>6, <1>7
     DEF StaffAction, CallNextStep, CurrentStep, SetStateStep, StaffFail, CallNextReadMeta,
         CallNextReadPrev, CallNextFind, CurrentReadMeta, CurrentReadEntry, SetStateRead

StaffDoes == Untouched /\ SameNumber /\ StaffMoves /\ BoardMoves /\ SwitchMoves

-------------------------------------------------------------------------------
\* WHAT A JOIN AND A LEAVE DO

\* Join j's request becomes q.
Becomes(j, q) == join' = [join EXCEPT ![j] = q]

\* Nothing is stored; an answer is dropped, or is a result read under the key.
QuietJoin(j) ==
  /\ UNCHANGED <<store, staff, leave>>
  /\ \E q \in JoinType :
       /\ Becomes(j, q) /\ q.ticket = join[j].ticket
       /\ q.pc \notin {"idem", "commit"}
       /\ q.pc \in {"meta", "reserve"} => join[j].pc \in {"idem", "meta"}
       /\ \/ q.answer \in {join[j].answer, None}
          \/ KeyOf[j] # None /\ \E v \in Views : q.answer = v.idem[KeyOf[j]]

Reserves(j) ==
  /\ join[j].pc = "reserve" /\ counter.open
  /\ counter'.lastNumber = counter.lastNumber + 1 /\ counter'.open = counter.open
  /\ \E q \in JoinType :
       /\ Becomes(j, q) /\ q.answer = join[j].answer
       /\ \/ q.pc = "commit" /\ q.ticket = counter.lastNumber + 1 /\ q.ticket \in Tickets
          \/ q.pc = "failed" /\ q.ticket = join[j].ticket
  /\ UNCHANGED <<meta, entry, guards, idem, replica, staff, leave>>

Commits(j) ==
  /\ join[j].pc = "commit" /\ MayCommit(j)
  /\ entry' = [entry EXCEPT ![join[j].ticket] = FreshEntry(j)]
  /\ guards' = guards \cup ContactsOf[j]
  /\ idem' = [k \in IdemKeys |-> IF k = KeyOf[j] THEN j ELSE idem[k]]
  /\ \E q \in JoinType :
       Becomes(j, q) /\ q.ticket = join[j].ticket /\ q.pc = "committed" /\ q.answer = j
  /\ UNCHANGED <<meta, counter, replica, staff, leave>>

Leaves(j) ==
  /\ leave[j] = "found" /\ MayLeave(j)
  /\ leave' = [leave EXCEPT ![j] = "idle"]
  /\ entry' = [entry EXCEPT ![join[j].ticket].state = "LEFT"]
  /\ guards' = guards \ ContactsOf[j]
  /\ UNCHANGED <<meta, counter, idem, replica, join, staff>>

QuietLeave(j) ==
  /\ UNCHANGED <<store, join, staff>>
  /\ \/ leave' = [leave EXCEPT ![j] = "idle"]
     \/ /\ leave' = [leave EXCEPT ![j] = "found"]
        /\ \E v \in Views, t \in Tickets : v.entry[t].owner = j

\* A request that moves to pc and has the answer r changed nothing else.
LEMMA QuietMove ==
  ASSUME TypeOK, NEW j \in Joins, UNCHANGED <<store, staff, leave>>,
         NEW pc \in (JoinPcs \cup JoinEnds) \ {"idem", "commit"}, NEW r \in Joins \cup {None},
         pc \in {"meta", "reserve"} => join[j].pc \in {"idem", "meta"},
         \/ JoinTo(j, pc) /\ r = join[j].answer
         \/ Answer(j, pc, r) /\ \/ r = None
                                \/ KeyOf[j] # None /\ \E v \in Views : r = v.idem[KeyOf[j]]
  PROVE  QuietJoin(j)
<1>1. join \in [Joins -> JoinType] /\ join[j] \in JoinType
  BY DEF TypeOK
<1>2. PICK q : q = [join[j] EXCEPT !.pc = pc, !.answer = r]
  OBVIOUS
<1>3. q \in JoinType /\ q.pc = pc /\ q.answer = r /\ q.ticket = join[j].ticket
  BY <1>1, <1>2 DEF JoinType
<1>4. Becomes(j, q)
  <2>1. CASE JoinTo(j, pc) /\ r = join[j].answer
    <3>1. [join[j] EXCEPT !.pc = pc] = q
      BY <1>1, <1>2, <2>1 DEF JoinType
    <3>2. join' = [join EXCEPT ![j] = [join[j] EXCEPT !.pc = pc]]
      BY <1>1, <2>1 DEF JoinTo
    <3>. QED
      BY <3>1, <3>2 DEF Becomes
  <2>2. CASE Answer(j, pc, r)
    BY <1>2, <2>2 DEF Answer, Becomes
  <2>. QED
    BY <2>1, <2>2
<1>. QED
  BY <1>3, <1>4, Zenon DEF QuietJoin

LEMMA QuietRequests ==
  ASSUME TypeOK, NEW j \in Joins,
         \/ JoinReadMeta(j) \/ JoinReply(j) \/ JoinFail(j)
         \/ JoinReadIdem(j) \/ JoinRecheck(j)
  PROVE  QuietJoin(j)
<1>1. join[j].answer \in Joins \cup {None}
  BY DEF TypeOK, JoinType
<1>2. CASE JoinReadMeta(j) \/ JoinReply(j)
  <2>1. PICK pc \in {"reserve", "refused", "done"} :
          JoinTo(j, pc) /\ (pc = "reserve" => join[j].pc = "meta")
    BY <1>2 DEF JoinReadMeta, JoinReply
  <2>2. pc \in (JoinPcs \cup JoinEnds) \ {"idem", "commit"}
    BY DEF JoinPcs, JoinEnds
  <2>3. UNCHANGED <<store, staff, leave>>
    BY <1>2 DEF JoinReadMeta, JoinReply
  <2>. QED
    BY <1>1, <2>1, <2>2, <2>3, QuietMove
<1>3. CASE JoinFail(j)
  <2>1. Answer(j, "failed", None) /\ UNCHANGED <<store, staff, leave>>
    BY <1>3 DEF JoinFail, Answer
  <2>2. "failed" \in (JoinPcs \cup JoinEnds) \ {"idem", "commit"}
    BY DEF JoinEnds
  <2>. QED
    BY <2>1, <2>2, QuietMove
<1>4. CASE JoinReadIdem(j) \/ JoinRecheck(j)
  <2>1. UNCHANGED <<store, staff, leave>> /\ KeyOf[j] \in IdemKeys /\ KeyOf[j] # None
    BY <1>4, KeysAssumption DEF JoinReadIdem, JoinRecheck, TypeOK
  <2>2. PICK pc \in {"meta", "duplicate"} :
          ReplayOr(j, pc) /\ (pc = "meta" => join[j].pc = "idem")
    BY <1>4 DEF JoinReadIdem, JoinRecheck
  <2>3. PICK v \in Views : IF v.idem[KeyOf[j]] = None THEN JoinTo(j, pc)
                           ELSE Answer(j, "replayed", v.idem[KeyOf[j]])
    BY <2>2 DEF ReplayOr
  <2>4. v.idem[KeyOf[j]] \in Joins \cup {None}
    BY <2>1, ViewType DEF ReplicaType
  <2>5. /\ pc \in (JoinPcs \cup JoinEnds) \ {"idem", "commit"}
        /\ "replayed" \in (JoinPcs \cup JoinEnds) \ {"idem", "commit"}
    BY DEF JoinPcs, JoinEnds
  <2>6. CASE JoinTo(j, pc)
    BY <1>1, <2>1, <2>2, <2>5, <2>6, QuietMove
  <2>7. CASE Answer(j, "replayed", v.idem[KeyOf[j]])
    BY <2>1, <2>4, <2>5, <2>7, QuietMove
  <2>. QED
    BY <2>3, <2>6, <2>7
<1>. QED
  BY <1>2, <1>3, <1>4

LEMMA ReserveRequest ==
  ASSUME TypeOK, NEW j \in Joins, JoinReserve(j)
  PROVE  QuietJoin(j) \/ Reserves(j)
<1>1. join \in [Joins -> JoinType] /\ join[j] \in JoinType
      /\ counter \in [open : BOOLEAN, lastNumber : Nat]
  BY DEF TypeOK
<1>2. CASE JoinTo(j, "refused") /\ UNCHANGED counter
  <2>1. "refused" \in (JoinPcs \cup JoinEnds) \ {"idem", "commit"}
    BY DEF JoinEnds
  <2>2. UNCHANGED <<store, staff, leave>>
    BY <1>2 DEF JoinReserve, store
  <2>. QED
    BY <1>1, <1>2, <2>1, <2>2, QuietMove DEF JoinType
<1>3. CASE /\ MayReserve /\ counter' = [counter EXCEPT !.lastNumber = ReservedNumber]
           /\ IF ReservedNumber \in Tickets
                THEN join' = [join EXCEPT ![j] = [@ EXCEPT !.pc = "commit", !.ticket = ReservedNumber]]
                ELSE JoinTo(j, "failed")
  <2>1. counter.open /\ counter'.lastNumber = counter.lastNumber + 1
        /\ counter'.open = counter.open /\ ReservedNumber \in Nat
    <3>1. counter.open
      BY <1>3, Zenon DEF MayReserve
    <3>2. ReservedNumber = counter.lastNumber + 1 /\ ReservedNumber \in Nat
      BY <1>1 DEF ReservedNumber
    <3>3. counter'.lastNumber = ReservedNumber /\ counter'.open = counter.open
      BY <1>1, <1>3
    <3>. QED
      BY <3>1, <3>2, <3>3, Zenon
  <2>2. CASE ReservedNumber \in Tickets
    <3>1. PICK q : q = [join[j] EXCEPT !.pc = "commit", !.ticket = ReservedNumber]
      OBVIOUS
    <3>2. "commit" \in JoinPcs
      BY DEF JoinPcs
    <3>3. q \in JoinType /\ q.pc = "commit" /\ q.ticket = ReservedNumber /\ q.answer = join[j].answer
      BY <1>1, <2>1, <3>1, <3>2 DEF JoinType
    <3>4. Becomes(j, q)
      BY <1>3, <2>2, <3>1 DEF Becomes
    <3>. QED
      BY <2>1, <2>2, <3>3, <3>4 DEF Reserves, JoinReserve, ReservedNumber
  <2>3. CASE ReservedNumber \notin Tickets
    <3>1. PICK q : q = [join[j] EXCEPT !.pc = "failed"]
      OBVIOUS
    <3>2. "failed" \in JoinEnds
      BY DEF JoinEnds
    <3>3. q \in JoinType /\ q.pc = "failed" /\ q.ticket = join[j].ticket /\ q.answer = join[j].answer
      BY <1>1, <3>1, <3>2 DEF JoinType
    <3>4. Becomes(j, q)
      BY <1>1, <1>3, <2>3, <3>1 DEF Becomes, JoinTo
    <3>. QED
      BY <2>1, <3>3, <3>4 DEF Reserves, JoinReserve
  <2>. QED
    BY <2>2, <2>3
<1>. QED
  BY <1>2, <1>3 DEF JoinReserve

LEMMA CommitRequest ==
  ASSUME TypeOK, NEW j \in Joins, JoinCommit(j)
  PROVE  QuietJoin(j) \/ Commits(j)
<1>1. join \in [Joins -> JoinType] /\ join[j] \in JoinType
  BY DEF TypeOK
<1>2. CASE ~ MayCommit(j)
  <2>1. PICK pc \in {"duplicate", "recheck"} : JoinTo(j, pc)
    BY <1>2 DEF JoinCommit
  <2>2. pc \in (JoinPcs \cup JoinEnds) \ {"idem", "commit"}
    BY DEF JoinPcs, JoinEnds
  <2>3. UNCHANGED <<store, staff, leave>>
    BY <1>2 DEF JoinCommit, store
  <2>. QED
    BY <1>1, <2>1, <2>2, <2>3, QuietMove DEF JoinType
<1>3. CASE MayCommit(j)
  <2>1. PICK q : q = [join[j] EXCEPT !.pc = "committed", !.answer = j]
    OBVIOUS
  <2>2. "committed" \in JoinPcs
    BY DEF JoinPcs
  <2>3. q \in JoinType /\ q.pc = "committed" /\ q.ticket = join[j].ticket /\ q.answer = j
    BY <1>1, <2>1, <2>2 DEF JoinType
  <2>4. Becomes(j, q)
    BY <1>3, <2>1 DEF Becomes, JoinCommit, Answer
  <2>. QED
    BY <1>3, <2>3, <2>4 DEF Commits, JoinCommit
<1>. QED
  BY <1>2, <1>3

LEMMA LeaveRequest ==
  ASSUME TypeOK, NEW j \in Joins, LeaveStep(j)
  PROVE  QuietLeave(j) \/ Leaves(j)
<1>1. CASE LeaveFind(j)
  BY <1>1 DEF LeaveFind, QuietLeave
<1>2. CASE LeaveCommit(j)
  BY <1>2 DEF LeaveCommit, QuietLeave, Leaves, store
<1>. QED
  BY <1>1, <1>2 DEF LeaveStep

\* Every step is one of these.
Kind ==
  \/ \E j \in Joins : QuietJoin(j) \/ Reserves(j) \/ Commits(j) \/ Leaves(j) \/ QuietLeave(j)
  \/ StaffDoes
  \/ Replicate
  \/ UNCHANGED vars

LEMMA StepKinds == TypeOK /\ [Next]_vars => Kind
<1> SUFFICES ASSUME TypeOK, [Next]_vars PROVE Kind
  OBVIOUS
<1>1. ASSUME NEW j \in Joins, JoinStep(j) \/ JoinFail(j) PROVE Kind
  <2>1. QuietJoin(j) \/ Reserves(j) \/ Commits(j)
    BY <1>1, QuietRequests, ReserveRequest, CommitRequest DEF JoinStep
  <2>. QED
    BY <2>1, Zenon DEF Kind
<1>2. ASSUME NEW j \in Joins, LeaveStep(j) PROVE Kind
  BY <1>2, LeaveRequest, Zenon DEF Kind
<1>3. ASSUME NEW s \in Staff, StaffAction(s) PROVE Kind
  BY <1>3, StaffEffect, Zenon DEF Kind, StaffDoes
<1>4. CASE Replicate \/ UNCHANGED vars
  BY <1>4, Zenon DEF Kind
<1>. QED
  BY <1>1, <1>2, <1>3, <1>4 DEF Next, StaffAction

-------------------------------------------------------------------------------
\* NUMBERS

\* The request with a new ticket, and every other as it was.
LEMMA BecomesAt ==
  ASSUME TypeOK, NEW j \in Joins, NEW q, Becomes(j, q)
  PROVE  \A k \in Joins : join'[k] = IF k = j THEN q ELSE join[k]
BY DEF TypeOK, Becomes

\* Who may leave has the entry that was found for it.
LEMMA LeaverOwns ==
  ASSUME TypeOK, NumbersInv, ReplicaInv, NEW j \in Joins, Leaves(j)
  PROVE  join[j].ticket \in Tickets /\ entry[join[j].ticket].owner = j
<1>1. PICK t \in Tickets : entry[t].owner = j
  BY DEF Leaves, ReplicaInv
<1>2. j # None
  BY NoneAssumption
<1>3. join[j].ticket = t
  BY <1>1, <1>2 DEF NumbersInv
<1>. QED
  BY <1>1, <1>3

\* What a leave does to the entries: one that was active has left.
LEMMA LeaveEffect ==
  ASSUME TypeOK, NumbersInv, ReplicaInv, NEW j \in Joins, Leaves(j), NEW t \in Tickets
  PROVE  /\ entry'[t].owner = entry[t].owner /\ entry'[t].callCount = entry[t].callCount
         /\ t = join[j].ticket => entry[t].state \in Active /\ entry'[t].state = "LEFT"
         /\ t # join[j].ticket => entry'[t] = entry[t]
<1>1. entry \in [Tickets -> Entries]
  BY DEF TypeOK
<1>. QED
  BY <1>1 DEF Leaves, MayLeave, Entries

\* What a commit does: the one entry without a state gets its owner.
LEMMA CommitEffect ==
  ASSUME TypeOK, NumbersInv, NEW j \in Joins, Commits(j), NEW t \in Tickets
  PROVE  /\ join[j].ticket \in Tickets
         /\ t = join[j].ticket => /\ entry[t].state = "NONE" /\ entry[t].owner = None
                                 /\ entry'[t].state = "WAITING" /\ entry'[t].owner = j
                                 /\ entry'[t].callCount = 0
         /\ t # join[j].ticket => entry'[t] = entry[t]
<1>1. entry \in [Tickets -> Entries] /\ join[j].ticket \in Tickets
  BY DEF TypeOK, NumbersInv, Commits
<1>2. /\ FreshEntry(j).state = "WAITING" /\ FreshEntry(j).owner = j
      /\ FreshEntry(j).callCount = 0
  BY DEF FreshEntry, NoEntry
<1>3. entry[join[j].ticket].state = "NONE"
  BY DEF Commits, MayCommit
<1>. QED
  BY <1>1, <1>2, <1>3 DEF Commits, NumbersInv

\* Numbers stay with the joins the counter gave them to.
LEMMA NumbersStep ==
  ASSUME TypeOK, TypeOK', NumbersInv, ReplicaInv, Kind
  PROVE  NumbersInv'
<1>1. ASSUME NEW j \in Joins, QuietJoin(j)
      PROVE  NumbersInv'
  <2>1. UNCHANGED <<counter, entry>>
    BY <1>1 DEF QuietJoin, store
  <2>2. ASSUME NEW k \in Joins
        PROVE  /\ join'[k].ticket = join[k].ticket
               /\ join'[k].pc = "commit" => join[k].pc = "commit"
               /\ join'[k].pc \in {"idem", "meta", "reserve"}
                    => join[k].pc \in {"idem", "meta", "reserve"}
    BY <1>1, BecomesAt DEF QuietJoin
  <2>3. \A t \in Tickets : entry[t].owner \in Joins \cup {None}
    BY DEF TypeOK, Entries
  <2>. QED
    BY <2>1, <2>2, <2>3 DEF NumbersInv
<1>2. ASSUME NEW j \in Joins, Reserves(j)
      PROVE  NumbersInv'
  <2>1. PICK q \in JoinType :
          /\ Becomes(j, q) /\ q.answer = join[j].answer
          /\ \/ q.pc = "commit" /\ q.ticket = counter.lastNumber + 1 /\ q.ticket \in Tickets
             \/ q.pc = "failed" /\ q.ticket = join[j].ticket
    BY <1>2 DEF Reserves
  <2>2. \A k \in Joins : join'[k] = IF k = j THEN q ELSE join[k]
    BY <2>1, BecomesAt
  <2>3. /\ counter.lastNumber \in Nat /\ counter'.lastNumber = counter.lastNumber + 1
        /\ entry' = entry /\ join[j].ticket = 0
    BY <1>2 DEF Reserves, TypeOK, NumbersInv
  <2>4. \A k \in Joins : join[k].ticket \in Nat /\ join[k].ticket <= counter.lastNumber
    BY DEF TypeOK, JoinType, NumbersInv
  <2>5. \A t \in Tickets : entry[t].owner \in Joins \cup {None} /\ entry[t].owner # j
    <3>1. 0 \notin Tickets
      BY BoundsAssumption DEF Tickets
    <3>. QED
      BY <2>3, <3>1, NoneAssumption DEF TypeOK, Entries, NumbersInv
  <2>6. Issued <= counter'.lastNumber
    BY <2>3, BoundsAssumption DEF NumbersInv
  <2>7. ASSUME NEW k \in Joins
        PROVE  /\ join'[k].pc \in {"idem", "meta", "reserve"} => join'[k].ticket = 0
               /\ join'[k].pc = "commit" => join'[k].ticket \in Tickets
               /\ join'[k].ticket <= counter'.lastNumber
    BY <2>1, <2>2, <2>3, <2>4 DEF NumbersInv
  <2>8. \A k, l \in Joins : k # l /\ join'[k].ticket # 0 => join'[k].ticket # join'[l].ticket
    BY <2>1, <2>2, <2>3, <2>4 DEF NumbersInv
  <2>9. \A t \in Tickets : entry[t].owner # None => join'[entry[t].owner].ticket = t
    BY <2>2, <2>5 DEF NumbersInv
  <2>10. \A k \in Joins : join'[k].pc = "commit" => \A t \in Tickets : entry[t].owner # k
    BY <2>2, <2>5 DEF NumbersInv
  <2>. QED
    BY <2>3, <2>6, <2>7, <2>8, <2>9, <2>10 DEF NumbersInv
<1>3. ASSUME NEW j \in Joins, Commits(j)
      PROVE  NumbersInv'
  <2>1. PICK q \in JoinType :
          Becomes(j, q) /\ q.ticket = join[j].ticket /\ q.pc = "committed" /\ q.answer = j
    BY <1>3 DEF Commits
  <2>2. \A k \in Joins : join'[k] = IF k = j THEN q ELSE join[k]
    BY <2>1, BecomesAt
  <2>3. counter' = counter /\ \A t \in Tickets : entry[t].owner \in Joins \cup {None}
    BY <1>3 DEF Commits, TypeOK, Entries
  <2>4. /\ \A k \in Joins : join'[k].ticket = join[k].ticket
        /\ \A k \in Joins : join'[k].pc = "commit" => k # j /\ join[k].pc = "commit"
        /\ \A k \in Joins : join'[k].pc \in {"idem", "meta", "reserve"} => join'[k] = join[k]
    BY <2>1, <2>2
  <2>5. ASSUME NEW t \in Tickets
        PROVE  /\ entry'[t].owner # None => join'[entry'[t].owner].ticket = t
               /\ entry'[t].state = "NONE" => entry'[t].owner = None /\ entry'[t].callCount = 0
               /\ entry'[t].state \in Active => entry'[t].owner # None
    BY <1>3, <2>3, <2>4, CommitEffect, NoneAssumption DEF NumbersInv
  <2>6. \A k \in Joins : join'[k].pc = "commit" => \A t \in Tickets : entry'[t].owner # k
    BY <1>3, <2>4, CommitEffect DEF NumbersInv
  <2>. QED
    BY <2>3, <2>4, <2>5, <2>6 DEF NumbersInv
<1>4. ASSUME NEW j \in Joins, Leaves(j)
      PROVE  NumbersInv'
  <2>1. UNCHANGED <<counter, join>>
    BY <1>4 DEF Leaves
  <2>2. ASSUME NEW t \in Tickets
        PROVE  /\ entry'[t].owner = entry[t].owner
               /\ entry'[t].state = "NONE" => entry'[t] = entry[t]
               /\ entry'[t].state \in Active => entry'[t] = entry[t]
    BY <1>4, LeaveEffect DEF Active
  <2>. QED
    BY <2>1, <2>2 DEF NumbersInv
<1>5. ASSUME StaffDoes
      PROVE  NumbersInv'
  <2>1. join' = join /\ counter'.lastNumber = counter.lastNumber
    BY <1>5 DEF StaffDoes, Untouched, SameNumber
  <2>2. ASSUME NEW t \in Tickets
        PROVE  /\ entry'[t].owner = entry[t].owner
               /\ entry'[t].state = "NONE" => entry[t].state = "NONE" /\ entry'[t].callCount = entry[t].callCount
               /\ entry'[t].state \in Active => entry[t].state \in Active
    BY <1>5 DEF StaffDoes, StaffMoves, Same, Called, Ended, Active
  <2>. QED
    BY <2>1, <2>2 DEF NumbersInv
<1>6. CASE UNCHANGED <<counter, entry, join>>
  BY <1>6 DEF NumbersInv
<1>. QED
  BY <1>1, <1>2, <1>3, <1>4, <1>5, <1>6 DEF Kind, QuietLeave, Replicate, store, vars

-------------------------------------------------------------------------------
\* OWNERS, STORED RESULTS AND THE REPLICA

\* An owner, once set, and a result, once stored, stay for good.
LEMMA RecordsStay ==
  ASSUME TypeOK, NumbersInv, ReplicaInv, Kind
  PROVE  /\ \A t \in Tickets : entry[t].owner # None => entry'[t].owner = entry[t].owner
         /\ \A k \in IdemKeys : idem[k] # None => idem'[k] = idem[k]
<1>1. ASSUME NEW j \in Joins, Commits(j)
      PROVE  /\ \A t \in Tickets : entry[t].owner # None => entry'[t].owner = entry[t].owner
             /\ \A k \in IdemKeys : idem[k] # None => idem'[k] = idem[k]
  <2>1. \A t \in Tickets : entry[t].owner # None => entry'[t].owner = entry[t].owner
    BY <1>1, CommitEffect
  <2>2. \A k \in IdemKeys : idem[k] # None => idem'[k] = idem[k]
    BY <1>1, NoneAssumption DEF Commits, MayCommit, IdemFree
  <2>. QED
    BY <2>1, <2>2
<1>2. ASSUME NEW j \in Joins, Leaves(j)
      PROVE  /\ \A t \in Tickets : entry[t].owner # None => entry'[t].owner = entry[t].owner
             /\ \A k \in IdemKeys : idem[k] # None => idem'[k] = idem[k]
  BY <1>2, LeaveEffect DEF Leaves
<1>3. ASSUME StaffDoes
      PROVE  /\ \A t \in Tickets : entry[t].owner # None => entry'[t].owner = entry[t].owner
             /\ \A k \in IdemKeys : idem[k] # None => idem'[k] = idem[k]
  BY <1>3 DEF StaffDoes, Untouched, StaffMoves
<1>4. CASE UNCHANGED <<entry, idem>>
  BY <1>4
<1>. QED
  BY <1>1, <1>2, <1>3, <1>4 DEF Kind, QuietJoin, QuietLeave, Reserves, Replicate, store, vars

\* What a read returns is in the table, if it is an owner or a stored result.
LEMMA ReadsAreStored ==
  ASSUME ReplicaInv, NEW v \in Views
  PROVE  /\ \A t \in Tickets : v.entry[t].owner # None => entry[t].owner = v.entry[t].owner
         /\ \A k \in IdemKeys : v.idem[k] # None => idem[k] = v.idem[k]
BY DEF ReplicaInv, Views, Current

LEMMA ReplicaStep ==
  ASSUME TypeOK, NumbersInv, ReplicaInv, Kind
  PROVE  ReplicaInv'
<1>1. /\ \A t \in Tickets : entry[t].owner # None => entry'[t].owner = entry[t].owner
      /\ \A k \in IdemKeys : idem[k] # None => idem'[k] = idem[k]
  BY RecordsStay
<1>2. CASE Replicate
  BY <1>2 DEF Replicate, Current, ReplicaInv
<1>3. CASE replica' = replica
  <2>1. /\ \A t \in Tickets :
             replica'.entry[t].owner # None => entry'[t].owner = replica'.entry[t].owner
        /\ \A k \in IdemKeys : replica'.idem[k] # None => idem'[k] = replica'.idem[k]
    BY <1>1, <1>3 DEF ReplicaInv
  <2>2. ASSUME NEW k \in Joins, leave'[k] = "found"
        PROVE  \E t \in Tickets : entry'[t].owner = k
    <3>1. leave \in [Joins -> {"idle", "found"}] /\ k # None
      BY NoneAssumption DEF TypeOK
    <3>2. CASE leave[k] = "found"
      BY <1>1, <3>1, <3>2 DEF ReplicaInv
    <3>3. CASE leave[k] # "found"
      <4>1. \E j \in Joins : QuietLeave(j)
        BY <2>2, <3>1, <3>3 DEF Kind, QuietJoin, Reserves, Commits, Leaves, StaffDoes, Untouched,
                               Replicate, vars
      <4>2. PICK v \in Views, t \in Tickets : v.entry[t].owner = k
        BY <2>2, <3>1, <3>3, <4>1 DEF QuietLeave
      <4>3. entry[t].owner = k
        BY <3>1, <4>2, ReadsAreStored
      <4>. QED
        BY <1>1, <3>1, <4>3
    <3>. QED
      BY <3>2, <3>3
  <2>. QED
    BY <2>1, <2>2 DEF ReplicaInv
<1>. QED
  BY <1>2, <1>3 DEF Kind, QuietJoin, QuietLeave, Reserves, Commits, Leaves, StaffDoes, Untouched, store, vars

\* The record under a key and the answers name joins that have an entry.
LEMMA KeysStep ==
  ASSUME TypeOK, NumbersInv, ReplicaInv, KeysInv, Kind
  PROVE  KeysInv'
<1>1. /\ \A t \in Tickets : entry[t].owner # None => entry'[t].owner = entry[t].owner
      /\ \A k \in IdemKeys : idem[k] # None => idem'[k] = idem[k]
  BY RecordsStay
<1>2. ASSUME NEW j \in Joins, \E t \in Tickets : entry[t].owner = j
      PROVE  \E t \in Tickets : entry'[t].owner = j
  BY <1>1, <1>2, NoneAssumption
<1>3. /\ join \in [Joins -> JoinType] /\ idem \in [IdemKeys -> Joins \cup {None}]
      /\ \A t \in Tickets : entry[t].owner \in Joins \cup {None}
      /\ \A j \in Joins : join[j].answer \in Joins \cup {None}
  BY DEF TypeOK, Entries, JoinType
<1>4. ASSUME NEW j \in Joins, Commits(j)
      PROVE  KeysInv'
  <2>1. PICK q \in JoinType : Becomes(j, q) /\ q.answer = j
    BY <1>4 DEF Commits
  <2>2. \A k \in Joins : join'[k] = IF k = j THEN q ELSE join[k]
    BY <2>1, BecomesAt
  <2>3. \E t \in Tickets : entry'[t].owner = j
    <3>1. join[j].ticket \in Tickets
      BY <1>4 DEF NumbersInv, Commits
    <3>2. entry'[join[j].ticket].owner = j
      BY <1>4, <3>1, CommitEffect
    <3>. QED
      BY <3>1, <3>2
  <2>4. ASSUME NEW k \in IdemKeys, idem'[k] # None
        PROVE  KeyOf[idem'[k]] = k /\ \E t \in Tickets : entry'[t].owner = idem'[k]
    <3>1. idem'[k] = IF k = KeyOf[j] THEN j ELSE idem[k]
      BY <1>4 DEF Commits
    <3>. QED
      BY <1>2, <1>3, <2>3, <2>4, <3>1 DEF KeysInv
  <2>5. ASSUME NEW t \in Tickets, entry'[t].owner # None, KeyOf[entry'[t].owner] # None
        PROVE  idem'[KeyOf[entry'[t].owner]] = entry'[t].owner
    <3>1. CASE t = join[j].ticket
      <4>1. entry'[t].owner = j
        BY <1>4, <3>1, CommitEffect
      <4>2. KeyOf[j] \in IdemKeys
        BY <2>5, <4>1, KeysAssumption
      <4>. QED
        BY <1>4, <4>1, <4>2 DEF Commits
    <3>2. CASE t # join[j].ticket
      <4>1. entry'[t].owner = entry[t].owner
        BY <1>4, <3>2, CommitEffect
      <4>2. idem[KeyOf[entry[t].owner]] = entry[t].owner
        BY <2>5, <4>1 DEF KeysInv
      <4>3. KeyOf[entry[t].owner] \in IdemKeys
        BY <1>3, <2>5, <4>1, KeysAssumption
      <4>. QED
        BY <1>1, <2>5, <4>1, <4>2, <4>3
    <3>. QED
      BY <3>1, <3>2
  <2>6. ASSUME NEW k \in Joins, join'[k].answer # None
        PROVE  LET a == join'[k].answer
               IN  /\ \E t \in Tickets : entry'[t].owner = a
                   /\ KeyOf[k] = KeyOf[a] /\ (k = a \/ KeyOf[k] # None)
    BY <1>2, <1>3, <2>1, <2>2, <2>3, <2>6 DEF KeysInv
  <2>. QED
    BY <2>4, <2>5, <2>6 DEF KeysInv
<1>5. ASSUME UNCHANGED idem, \A t \in Tickets : entry'[t].owner = entry[t].owner,
             \A k \in Joins : \/ join'[k].answer \in {join[k].answer, None}
                             \/ /\ KeyOf[k] # None
                                /\ \E v \in Views : join'[k].answer = v.idem[KeyOf[k]]
      PROVE  KeysInv'
  <2>1. ASSUME NEW k \in Joins, join'[k].answer # None, join'[k].answer # join[k].answer
        PROVE  LET a == join'[k].answer
               IN  /\ \E t \in Tickets : entry[t].owner = a
                   /\ KeyOf[k] = KeyOf[a] /\ (k = a \/ KeyOf[k] # None)
    <3>1. KeyOf[k] # None /\ KeyOf[k] \in IdemKeys
      BY <1>5, <2>1, KeysAssumption
    <3>2. idem[KeyOf[k]] = join'[k].answer
      BY <1>5, <2>1, <3>1, ReadsAreStored
    <3>. QED
      BY <2>1, <3>1, <3>2 DEF KeysInv
  <2>. QED
    BY <1>5, <2>1 DEF KeysInv
<1>6. ASSUME NEW j \in Joins, QuietJoin(j) \/ Reserves(j)
      PROVE  KeysInv'
  <2>1. PICK q \in JoinType :
          /\ Becomes(j, q)
          /\ \/ q.answer \in {join[j].answer, None}
             \/ KeyOf[j] # None /\ \E v \in Views : q.answer = v.idem[KeyOf[j]]
    BY <1>6 DEF QuietJoin, Reserves
  <2>2. \A k \in Joins : join'[k] = IF k = j THEN q ELSE join[k]
    BY <2>1, BecomesAt
  <2>3. UNCHANGED <<idem, entry>>
    BY <1>6 DEF QuietJoin, Reserves, store
  <2>4. ASSUME NEW k \in Joins
        PROVE  \/ join'[k].answer \in {join[k].answer, None}
               \/ KeyOf[k] # None /\ \E v \in Views : join'[k].answer = v.idem[KeyOf[k]]
    BY <2>1, <2>2
  <2>. QED
    BY <1>5, <2>3, <2>4
<1>7. ASSUME NEW j \in Joins, Leaves(j)
      PROVE  KeysInv'
  BY <1>5, <1>7, LeaveEffect DEF Leaves
<1>8. ASSUME StaffDoes
      PROVE  KeysInv'
  BY <1>5, <1>8 DEF StaffDoes, Untouched, StaffMoves
<1>9. CASE UNCHANGED <<idem, entry, join>>
  BY <1>5, <1>9
<1>. QED
  BY <1>4, <1>6, <1>7, <1>8, <1>9 DEF Kind, QuietLeave, Replicate, store, vars

-------------------------------------------------------------------------------
\* GUARDS, CALLS AND THE COUNTER'S MIRROR

LEMMA GuardsStep ==
  ASSUME TypeOK, NumbersInv, ReplicaInv, GuardsInv, Kind
  PROVE  GuardsInv'
<1>1. ASSUME NEW j \in Joins, Commits(j)
      PROVE  GuardsInv'
  <2>1. guards' = guards \cup ContactsOf[j] /\ ContactsOf[j] \cap guards = {}
    BY <1>1 DEF Commits, MayCommit
  <2>2. ASSUME NEW t \in Tickets, t # join[j].ticket, Holds(entry'[t])
        PROVE  /\ ContactsOf[entry'[t].owner] \subseteq guards
               /\ entry'[t] = entry[t]
    BY <1>1, <2>2, CommitEffect DEF GuardsInv
  <2>3. \A t \in Tickets : t = join[j].ticket => entry'[t].owner = j
    BY <1>1, CommitEffect
  <2>4. \A t \in Tickets : Holds(entry'[t]) => ContactsOf[entry'[t].owner] \subseteq guards'
    BY <2>1, <2>2, <2>3
  <2>5. ASSUME NEW t \in Tickets, NEW u \in Tickets, t # u, Holds(entry'[t]), Holds(entry'[u])
        PROVE  ContactsOf[entry'[t].owner] \cap ContactsOf[entry'[u].owner] = {}
    <3>1. CASE t = join[j].ticket
      BY <2>1, <2>2, <2>3, <2>5, <3>1
    <3>2. CASE u = join[j].ticket
      BY <2>1, <2>2, <2>3, <2>5, <3>2
    <3>3. CASE t # join[j].ticket /\ u # join[j].ticket
      BY <2>2, <2>5, <3>3 DEF GuardsInv
    <3>. QED
      BY <3>1, <3>2, <3>3
  <2>. QED
    BY <2>4, <2>5 DEF GuardsInv
<1>2. ASSUME NEW j \in Joins, Leaves(j)
      PROVE  GuardsInv'
  <2> DEFINE n == join[j].ticket
  <2>1. guards' = guards \ ContactsOf[j]
    BY <1>2 DEF Leaves
  <2>2. n \in Tickets /\ entry[n].owner = j /\ Holds(entry[n]) /\ ~ Holds(entry'[n])
    BY <1>2, LeaverOwns, LeaveEffect, NoneAssumption DEF Holds, Active
  <2>3. ASSUME NEW t \in Tickets, Holds(entry'[t])
        PROVE  t # n /\ entry'[t] = entry[t]
    BY <1>2, <2>2, <2>3, LeaveEffect
  <2>. QED
    BY <2>1, <2>2, <2>3 DEF GuardsInv
<1>3. ASSUME guards' = guards,
             \A t \in Tickets : /\ entry'[t].owner = entry[t].owner
                                /\ entry'[t].state = "LEFT" <=> entry[t].state = "LEFT"
      PROVE  GuardsInv'
  <2>1. \A t \in Tickets : Holds(entry'[t]) <=> Holds(entry[t])
    BY <1>3 DEF Holds
  <2>. QED
    BY <1>3, <2>1 DEF GuardsInv
<1>4. ASSUME StaffDoes
      PROVE  GuardsInv'
  BY <1>3, <1>4 DEF StaffDoes, Untouched, StaffMoves, Same, Called, Ended
<1>5. CASE UNCHANGED <<guards, entry>>
  BY <1>3, <1>5
<1>. QED
  BY <1>1, <1>2, <1>4, <1>5 DEF Kind, QuietJoin, QuietLeave, Reserves, Replicate, store, vars

LEMMA CallsStep ==
  ASSUME TypeOK, TypeOK', NumbersInv, ReplicaInv, CallsInv, Kind
  PROVE  CallsInv'
<1>1. meta.nowServing # 0 => meta.nowServing \in Tickets /\ entry[meta.nowServing].callCount = 1
  BY DEF CallsInv
<1>2. ASSUME NEW j \in Joins, Commits(j)
      PROVE  CallsInv'
  <2>1. meta' = meta
    BY <1>2 DEF Commits
  <2>2. ASSUME NEW t \in Tickets
        PROVE  /\ entry'[t].callCount <= 1
               /\ entry'[t].state = "WAITING" => entry'[t].callCount = 0
               /\ entry[t].callCount = 1 => entry'[t].callCount = 1
    <3>1. CASE t = join[j].ticket
      BY <1>2, <3>1, CommitEffect DEF NumbersInv
    <3>2. CASE t # join[j].ticket
      BY <1>2, <3>2, CommitEffect DEF CallsInv
    <3>. QED
      BY <3>1, <3>2
  <2>. QED
    BY <1>1, <2>1, <2>2 DEF CallsInv
<1>3. ASSUME NEW j \in Joins, Leaves(j)
      PROVE  CallsInv'
  <2>1. meta' = meta
    BY <1>3 DEF Leaves
  <2>2. ASSUME NEW t \in Tickets
        PROVE  /\ entry'[t].callCount = entry[t].callCount
               /\ entry'[t].state = "WAITING" => entry[t].state = "WAITING"
    BY <1>3, LeaveEffect
  <2>. QED
    BY <1>1, <2>1, <2>2 DEF CallsInv
<1>4. ASSUME StaffDoes
      PROVE  CallsInv'
  <2>1. ASSUME NEW t \in Tickets
        PROVE  /\ Same(entry[t], entry'[t]) \/ Called(entry[t], entry'[t]) \/ Ended(entry[t], entry'[t])
               /\ entry[t].callCount <= 1
               /\ entry[t].state = "WAITING" => entry[t].callCount = 0
    BY <1>4 DEF StaffDoes, StaffMoves, CallsInv
  <2>2. ASSUME NEW t \in Tickets
        PROVE  /\ entry'[t].callCount <= 1
               /\ entry'[t].state = "WAITING" => entry'[t].callCount = 0
               /\ entry[t].callCount = 1 => entry'[t].callCount = 1
               /\ Called(entry[t], entry'[t]) => entry'[t].callCount = 1
    BY <2>1 DEF Same, Called, Ended
  <2>3. meta'.nowServing # 0
          => meta'.nowServing \in Tickets /\ entry'[meta'.nowServing].callCount = 1
    BY <1>1, <1>4, <2>2 DEF StaffDoes, BoardMoves
  <2>. QED
    BY <2>2, <2>3 DEF CallsInv
<1>5. CASE UNCHANGED <<meta, entry>>
  BY <1>5 DEF CallsInv
<1>. QED
  BY <1>2, <1>3, <1>4, <1>5 DEF Kind, QuietJoin, QuietLeave, Reserves, Replicate, store, vars

LEMMA MirrorStep ==
  ASSUME CounterMirrorsMeta, Kind
  PROVE  CounterMirrorsMeta'
<1>1. CASE StaffDoes
  BY <1>1 DEF StaffDoes, SwitchMoves, CounterMirrorsMeta
<1>2. CASE meta' = meta /\ counter'.open = counter.open
  BY <1>2 DEF CounterMirrorsMeta, AcceptsWork
<1>. QED
  BY <1>1, <1>2 DEF Kind, QuietJoin, QuietLeave, Reserves, Commits, Leaves, Replicate, store, vars

-------------------------------------------------------------------------------
\* THE INDUCTIVE INVARIANT

LEMMA InitInv == Init => IInv
<1> SUFFICES ASSUME Init PROVE IInv
  OBVIOUS
<1> USE BoundsAssumption, NoneAssumption
<1>1. TypeOK
  BY InitType
<1>2. /\ \A j \in Joins : join[j].ticket = 0 /\ join[j].answer = None /\ leave[j] = "idle"
      /\ \A j \in Joins : join[j].pc \in {"idem", "meta"}
      /\ counter.lastNumber = Issued /\ counter.open
      /\ meta.nowServing = 0 /\ meta.status = "OPEN" /\ ~ meta.paused
  BY DEF Init
<1>3. ASSUME NEW t \in Tickets
      PROVE  /\ entry[t].owner = None /\ entry[t].callCount <= 1
             /\ entry[t].state \in {"NONE", "SERVED"}
             /\ entry[t].state = "NONE" => entry[t].callCount = 0
             /\ replica.entry[t].owner = None
  BY DEF Init, NoEntry
<1>4. \A k \in IdemKeys : idem[k] = None /\ replica.idem[k] = None
  BY DEF Init
<1>5. NumbersInv
  BY <1>2, <1>3 DEF NumbersInv, Active
<1>6. ReplicaInv /\ KeysInv
  BY <1>2, <1>3, <1>4 DEF ReplicaInv, KeysInv
<1>7. GuardsInv
  BY <1>3 DEF GuardsInv, Holds
<1>8. CallsInv
  BY <1>2, <1>3 DEF CallsInv
<1>9. CounterMirrorsMeta
  BY <1>2 DEF CounterMirrorsMeta, AcceptsWork
<1>. QED
  BY <1>1, <1>5, <1>6, <1>7, <1>8, <1>9 DEF IInv

LEMMA NextInv == IInv /\ [Next]_vars => IInv'
<1> SUFFICES ASSUME IInv, [Next]_vars PROVE IInv'
  OBVIOUS
<1>1. TypeOK' /\ Kind
  BY NextType, StepKinds DEF IInv
<1>2. NumbersInv'
  BY <1>1, NumbersStep DEF IInv
<1>3. ReplicaInv' /\ KeysInv'
  BY <1>1, ReplicaStep, KeysStep DEF IInv
<1>4. GuardsInv' /\ CallsInv' /\ CounterMirrorsMeta'
  BY <1>1, GuardsStep, CallsStep, MirrorStep DEF IInv
<1>. QED
  BY <1>1, <1>2, <1>3, <1>4 DEF IInv

\* Numbers, guards, keys, calls and the counter fit together at every moment.
THEOREM Invariant == Spec => []IInv
BY InitInv, NextInv, PTL DEF Spec

-------------------------------------------------------------------------------
\* THE SAFETY PROPERTIES

\* No two joins get one number, and an entry is stored under its join's number.
THEOREM NumbersAreUnique == Spec => []TicketsUnique
<1>1. IInv => TicketsUnique
  BY DEF IInv, NumbersInv, TicketsUnique
<1>. QED
  BY <1>1, Invariant, PTL

\* However joins, leaves and calls interleave, no address or phone is in the queue twice.
THEOREM NoContactTwice == Spec => []OneActivePerContact
<1>1. ASSUME IInv, NEW t \in Tickets, entry[t].state \in Active
      PROVE  Holds(entry[t])
  BY <1>1 DEF IInv, NumbersInv, Holds, Active
<1>2. IInv => OneActivePerContact
  BY <1>1 DEF IInv, GuardsInv, OneActivePerContact
<1>. QED
  BY <1>2, Invariant, PTL

\* A retried join makes one entry, and every answer names an entry made under its key.
THEOREM RetriesMakeOneEntry == Spec => []IdempotentJoins
<1>1. ASSUME IInv PROVE IdempotentJoins
  <2>1. ASSUME NEW t \in Tickets, NEW u \in Tickets, t # u,
               entry[t].owner # None, entry[u].owner # None, KeyOf[entry[t].owner] # None
        PROVE  KeyOf[entry[t].owner] # KeyOf[entry[u].owner]
    <3>1. join[entry[t].owner].ticket = t /\ join[entry[u].owner].ticket = u
      BY <1>1, <2>1 DEF IInv, NumbersInv
    <3>2. idem[KeyOf[entry[t].owner]] = entry[t].owner
      BY <1>1, <2>1 DEF IInv, KeysInv
    <3>3. KeyOf[entry[u].owner] # None => idem[KeyOf[entry[u].owner]] = entry[u].owner
      BY <1>1, <2>1 DEF IInv, KeysInv
    <3>. QED
      BY <2>1, <3>1, <3>2, <3>3
  <2>2. ASSUME NEW j \in Joins, join[j].answer # None
        PROVE  LET a == join[j].answer
               IN  /\ \E t \in Tickets : entry[t].owner = a /\ join[a].ticket = t
                   /\ KeyOf[j] = KeyOf[a] /\ (j = a \/ KeyOf[j] # None)
    BY <1>1, <2>2 DEF IInv, NumbersInv, KeysInv
  <2>. QED
    BY <2>1, <2>2 DEF IdempotentJoins
<1>. QED
  BY <1>1, Invariant, PTL

\* The counter accepts joins exactly when the queue does.
THEOREM CounterIsMirror == Spec => []CounterMirrorsMeta
BY Invariant, PTL DEF IInv

\* However many consoles call, each customer is called once, and who is on the board was.
THEOREM CalledOnce == Spec => []CalledAtMostOnce
<1>1. IInv => CalledAtMostOnce
  BY DEF IInv, CallsInv, CalledAtMostOnce
<1>. QED
  BY <1>1, Invariant, PTL

\* A number is only issued while the queue accepts customers.
THEOREM IssuedWhileOpen == Spec => TicketsOnlyWhileOpen
<1>1. IInv /\ [Next]_vars
        => [counter'.lastNumber # counter.lastNumber => AcceptsWork(meta)]_vars
  <2> SUFFICES ASSUME IInv, Kind, counter'.lastNumber # counter.lastNumber
               PROVE  AcceptsWork(meta)
    BY StepKinds DEF IInv
  <2>1. PICK j \in Joins : Reserves(j)
    BY DEF Kind, QuietJoin, QuietLeave, Commits, Leaves, StaffDoes, SameNumber, Replicate,
           store, vars
  <2>. QED
    BY <2>1 DEF Reserves, IInv, CounterMirrorsMeta
<1>. QED
  BY <1>1, Invariant, PTL DEF Spec, TicketsOnlyWhileOpen

\* Entries only move forward, and nobody's entry is overwritten.
THEOREM Forward == Spec => EntriesMoveForward
<1>1. ASSUME IInv, Kind, NEW t \in Tickets
      PROVE  MovesForward(entry[t], entry'[t])
  <2>1. TypeOK /\ NumbersInv /\ ReplicaInv
    BY <1>1 DEF IInv
  <2>2. ASSUME NEW j \in Joins, Commits(j)
        PROVE  MovesForward(entry[t], entry'[t])
    BY <2>1, <2>2, CommitEffect DEF MovesForward, Moves
  <2>3. ASSUME NEW j \in Joins, Leaves(j)
        PROVE  MovesForward(entry[t], entry'[t])
    BY <2>1, <2>3, LeaveEffect DEF MovesForward, Moves, Active
  <2>4. ASSUME StaffDoes
        PROVE  MovesForward(entry[t], entry'[t])
    BY <2>4 DEF StaffDoes, StaffMoves, Same, Called, Ended, MovesForward, Moves
  <2>5. CASE entry' = entry
    BY <2>5 DEF MovesForward
  <2>. QED
    BY <1>1, <2>2, <2>3, <2>4, <2>5 DEF Kind, QuietJoin, QuietLeave, Reserves, Replicate, store, vars
<1>2. IInv /\ [Next]_vars => [\A t \in Tickets : MovesForward(entry[t], entry'[t])]_vars
  BY <1>1, StepKinds DEF IInv
<1>. QED
  BY <1>2, Invariant, PTL DEF Spec, EntriesMoveForward

-------------------------------------------------------------------------------
\* ONE CONSOLE

\* Between the read of the board and the commit, the customer the board shows, or the
\* fact that nobody is being called, stays what the request read.
Nobody == \A t \in Tickets : entry[t].state # "CALLED"
SoloRequest(r) ==
  /\ r.pc \in {"prev", "current", "skip", "recall", "completeEntry"} => r.prev = meta.nowServing
  /\ r.pc \in {"find", "call"} => IF r.prevCalled THEN r.prev = meta.nowServing ELSE Nobody
  /\ r.pc = "completeMeta" => Nobody
SoloInv == OnlyServingIsCalled /\ \A s \in Staff : SoloRequest(staff[s])

\* Joins and leaves never call anybody, and leave the board and the console alone.
LEMMA CustomersCallNobody ==
  ASSUME TypeOK, NEW j \in Joins, JoinStep(j) \/ JoinFail(j) \/ LeaveStep(j)
  PROVE  /\ UNCHANGED <<meta, staff>>
         /\ \A t \in Tickets : entry'[t].state = "CALLED" => entry[t].state = "CALLED"
<1>1. entry \in [Tickets -> Entries]
  BY DEF TypeOK
<1>2. UNCHANGED <<meta, staff>>
  BY DEF JoinStep, LeaveStep, JoinReadIdem, JoinReadMeta, JoinReserve, JoinCommit, JoinRecheck,
         JoinReply, JoinFail, LeaveFind, LeaveCommit, store
<1>3. \/ entry' = entry
      \/ entry' = [entry EXCEPT ![join[j].ticket] = FreshEntry(j)]
      \/ entry' = [entry EXCEPT ![join[j].ticket].state = "LEFT"]
  BY DEF JoinStep, LeaveStep, JoinReadIdem, JoinReadMeta, JoinReserve, JoinCommit, JoinRecheck,
         JoinReply, JoinFail, LeaveFind, LeaveCommit, store
<1>4. FreshEntry(j).state = "WAITING"
  BY DEF FreshEntry, NoEntry
<1>5. ASSUME NEW t \in Tickets, entry'[t].state = "CALLED"
      PROVE  entry[t].state = "CALLED"
  BY <1>1, <1>3, <1>4, <1>5 DEF Entries
<1>. QED
  BY <1>2, <1>5

\* The one console's own step, with every read answered by the table.
LEMMA SoloStep ==
  ASSUME TypeOK, SoloInv, EventualReads = FALSE, NEW s \in Staff, Staff = {s}, StaffAction(s)
  PROVE  SoloInv'
<1> DEFINE r == staff[s]
<1>1. /\ entry \in [Tickets -> Entries] /\ staff \in [Staff -> StaffType] /\ meta \in Metas
      /\ r \in StaffType /\ SoloRequest(r) /\ OnlyServingIsCalled
  BY DEF TypeOK, SoloInv
<1>2. \A v \in Views : v = Current
  BY DEF Views
<1>3. ASSUME SoloRequest(r)', OnlyServingIsCalled' PROVE SoloInv'
  BY <1>3 DEF SoloInv
<1>4. ASSUME UNCHANGED <<meta, entry>>, NEW q \in StaffType, StaffTo(s, q), SoloRequest(q)
      PROVE  SoloInv'
  <2>1. staff'[s] = q
    BY <1>1, <1>4 DEF StaffTo
  <2>. QED
    BY <1>1, <1>3, <1>4, <2>1 DEF SoloRequest, Nobody, OnlyServingIsCalled
<1>5. IdleStaff.pc = "idle"
  BY DEF IdleStaff
<1>6. ASSUME staff'[s].pc \in {"idle", "retry"}, OnlyServingIsCalled' PROVE SoloInv'
  BY <1>3, <1>6 DEF SoloRequest
<1>7. ASSUME StaffTo(s, IdleStaff) PROVE staff'[s].pc = "idle"
  BY <1>1, <1>5, <1>7 DEF StaffTo
<1>8. ASSUME StaffTo(s, IdleStaff), UNCHANGED <<meta, entry>> PROVE SoloInv'
  BY <1>1, <1>6, <1>7, <1>8 DEF OnlyServingIsCalled
<1>9. CASE CallNextReadMeta(s)
  <2>1. PICK v \in Views :
          StaffTo(s, IF AcceptsWork(v.meta)
                    THEN [IdleStaff EXCEPT !.op = "next",
                            !.pc = IF v.meta.nowServing = 0 THEN "find" ELSE "prev",
                            !.prev = v.meta.nowServing, !.cursor = v.meta.lastServed,
                            !.attempt = staff[s].attempt + 1]
                    ELSE IdleStaff)
    BY <1>9 DEF CallNextReadMeta
  <2>2. v.meta = meta
    BY <1>2 DEF Current
  <2>3. UNCHANGED <<meta, entry>>
    BY <1>9 DEF CallNextReadMeta, store
  <2>4. CASE AcceptsWork(meta)
    <3>1. /\ staff'[s].pc = IF meta.nowServing = 0 THEN "find" ELSE "prev"
          /\ staff'[s].prev = meta.nowServing /\ staff'[s].prevCalled = FALSE
      BY <1>1, <2>1, <2>2, <2>4 DEF StaffTo, IdleStaff
    <3>2. meta.nowServing = 0 => Nobody
      BY <1>1 DEF OnlyServingIsCalled, Nobody, Tickets
    <3>. QED
      BY <1>1, <1>3, <2>3, <3>1, <3>2 DEF SoloRequest, Nobody, OnlyServingIsCalled
  <2>. QED
    BY <1>8, <2>1, <2>2, <2>3, <2>4
<1>10. CASE CallNextReadPrev(s)
  <2>1. PICK v \in Views :
          StaffTo(s, [staff[s] EXCEPT !.pc = "find",
                     !.prevCalled = v.entry[staff[s].prev].state = "CALLED"])
    BY <1>10 DEF CallNextReadPrev
  <2>2. v.entry = entry /\ UNCHANGED <<meta, entry>> /\ r.prev = meta.nowServing
    BY <1>1, <1>2, <1>10 DEF Current, CallNextReadPrev, store, SoloRequest
  <2>3. /\ staff'[s].pc = "find" /\ staff'[s].prev = meta.nowServing
        /\ staff'[s].prevCalled = (entry[meta.nowServing].state = "CALLED")
    BY <1>1, <2>1, <2>2 DEF StaffTo, StaffType
  <2>4. entry[meta.nowServing].state # "CALLED" => Nobody
    BY <1>1 DEF OnlyServingIsCalled, Nobody
  <2>. QED
    BY <1>1, <1>3, <2>2, <2>3, <2>4 DEF SoloRequest, Nobody, OnlyServingIsCalled
<1>11. CASE CallNextFind(s)
  <2>1. UNCHANGED <<meta, entry>> /\ r.pc = "find"
    BY <1>11 DEF CallNextFind, store
  <2>2. \/ \E t \in Tickets : StaffTo(s, [r EXCEPT !.pc = "call", !.candidate = t])
        \/ r.prevCalled /\ StaffTo(s, [r EXCEPT !.pc = "completeEntry"])
        \/ StaffTo(s, IdleStaff)
    BY <1>11 DEF CallNextFind, KeysAfter, WaitingIn
  <2>3. CASE \E t \in Tickets : StaffTo(s, [r EXCEPT !.pc = "call", !.candidate = t])
    <3>1. /\ staff'[s].pc = "call" /\ staff'[s].prev = r.prev /\ staff'[s].prevCalled = r.prevCalled
      BY <1>1, <2>3 DEF StaffTo, StaffType
    <3>. QED
      BY <1>1, <1>3, <2>1, <3>1 DEF SoloRequest, Nobody, OnlyServingIsCalled
  <2>4. CASE r.prevCalled /\ StaffTo(s, [r EXCEPT !.pc = "completeEntry"])
    <3>1. staff'[s].pc = "completeEntry" /\ staff'[s].prev = r.prev
      BY <1>1, <2>4 DEF StaffTo, StaffType
    <3>. QED
      BY <1>1, <1>3, <2>1, <2>4, <3>1 DEF SoloRequest, Nobody, OnlyServingIsCalled
  <2>. QED
    BY <1>8, <2>1, <2>2, <2>3, <2>4
<1>12. CASE CallNextCommit(s)
  <2>1. CASE /\ MayCall(r) /\ entry' = CalledEntries(r) /\ StaffTo(s, IdleStaff)
             /\ meta' = [meta EXCEPT !.nowServing = r.candidate, !.lastServed = r.candidate - 1]
    <3>1. meta'.nowServing = r.candidate
      BY <1>1, <2>1 DEF Metas
    <3>2. ASSUME NEW t \in Tickets, t # r.candidate PROVE entry'[t].state # "CALLED"
      <4>1. CASE r.prevCalled /\ t = r.prev
        BY <1>1, <2>1, <3>2, <4>1 DEF CalledEntries, Entries
      <4>2. CASE ~ (r.prevCalled /\ t = r.prev)
        <5>1. entry'[t] = entry[t]
          BY <1>1, <2>1, <3>2, <4>2 DEF CalledEntries
        <5>. QED
          BY <1>1, <1>12, <4>2, <5>1
             DEF CallNextCommit, SoloRequest, Nobody, OnlyServingIsCalled
      <4>. QED
        BY <4>1, <4>2
    <3>. QED
      BY <1>6, <1>7, <2>1, <3>1, <3>2 DEF OnlyServingIsCalled
  <2>2. CASE UNCHANGED <<entry, meta>>
    <3>1. staff'[s].pc \in {"idle", "retry"}
      <4>1. \/ StaffTo(s, IdleStaff)
            \/ StaffTo(s, [IdleStaff EXCEPT !.pc = "retry", !.op = "next", !.attempt = r.attempt])
        BY <1>12 DEF CallNextCommit
      <4>2. CASE StaffTo(s, [IdleStaff EXCEPT !.pc = "retry", !.op = "next", !.attempt = r.attempt])
        BY <1>1, <4>2 DEF StaffTo, IdleStaff
      <4>. QED
        BY <1>7, <4>1, <4>2
    <3>. QED
      BY <1>1, <1>6, <2>2, <3>1 DEF OnlyServingIsCalled
  <2>. QED
    BY <1>12, <2>1, <2>2 DEF CallNextCommit
<1>13. ASSUME CurrentIsCalled(r), r.prev = meta.nowServing,
              NEW state \in {"SERVED", "SKIPPED"}, EndCurrent(r, state)
       PROVE  \A t \in Tickets : entry'[t].state # "CALLED"
  <2>1. ASSUME NEW t \in Tickets PROVE entry'[t].state # "CALLED"
    BY <1>1, <1>13 DEF EndCurrent, Entries, OnlyServingIsCalled
  <2>. QED
    BY <2>1
<1>14. CASE CompleteEntry(s)
  <2>1. CASE CurrentIsCalled(r) /\ EndCurrent(r, "SERVED") /\ StaffTo(s, [r EXCEPT !.pc = "completeMeta"])
    <3>1. r.prev = meta.nowServing
      BY <1>1, <1>14 DEF CompleteEntry, SoloRequest
    <3>2. Nobody' /\ OnlyServingIsCalled'
      BY <1>13, <2>1, <3>1 DEF Nobody, OnlyServingIsCalled
    <3>3. staff'[s].pc = "completeMeta"
      BY <1>1, <2>1 DEF StaffTo, StaffType
    <3>. QED
      BY <1>3, <3>2, <3>3 DEF SoloRequest
  <2>. QED
    BY <1>8, <1>14, <2>1 DEF CompleteEntry
<1>15. CASE CompleteMeta(s)
  <2>1. Nobody /\ entry' = entry /\ StaffTo(s, IdleStaff)
    BY <1>1, <1>15 DEF CompleteMeta, SoloRequest
  <2>. QED
    BY <1>6, <1>7, <2>1 DEF Nobody, OnlyServingIsCalled
<1>16. CASE CurrentReadMeta(s, "skip") \/ CurrentReadMeta(s, "recall")
  <2>0. PICK op \in {"skip", "recall"} : CurrentReadMeta(s, op)
    BY <1>16
  <2>1. PICK v \in Views :
          StaffTo(s, IF AcceptsWork(v.meta) /\ v.meta.nowServing # 0
                    THEN [IdleStaff EXCEPT !.op = op, !.pc = "current", !.prev = v.meta.nowServing]
                    ELSE IdleStaff)
    BY <2>0 DEF CurrentReadMeta
  <2>2. v.meta = meta /\ UNCHANGED <<meta, entry>>
    BY <1>2, <2>0 DEF Current, CurrentReadMeta, store
  <2>3. CASE AcceptsWork(meta) /\ meta.nowServing # 0
    <3>1. staff'[s].pc = "current" /\ staff'[s].prev = meta.nowServing
      BY <1>1, <2>1, <2>2, <2>3 DEF StaffTo, IdleStaff
    <3>. QED
      BY <1>1, <1>3, <2>2, <3>1 DEF SoloRequest, Nobody, OnlyServingIsCalled
  <2>. QED
    BY <1>8, <2>1, <2>2, <2>3
<1>17. CASE CurrentReadEntry(s)
  <2>1. /\ UNCHANGED <<meta, entry>>
        /\ StaffTo(s, [r EXCEPT !.pc = r.op]) \/ StaffTo(s, IdleStaff)
        /\ r.op \in {"skip", "recall"} /\ r.prev = meta.nowServing
    BY <1>1, <1>17 DEF CurrentReadEntry, store, TypeOK, Aims, SoloRequest
  <2>2. CASE StaffTo(s, [r EXCEPT !.pc = r.op])
    <3>1. staff'[s].pc \in {"skip", "recall"} /\ staff'[s].prev = meta.nowServing
      BY <1>1, <2>1, <2>2 DEF StaffTo, StaffType
    <3>. QED
      BY <1>1, <1>3, <2>1, <3>1 DEF SoloRequest, Nobody, OnlyServingIsCalled
  <2>. QED
    BY <1>8, <2>1, <2>2
<1>18. CASE SkipCommit(s)
  <2>1. CASE CurrentIsCalled(r) /\ EndCurrent(r, "SKIPPED")
    <3>1. r.prev = meta.nowServing /\ StaffTo(s, IdleStaff)
      BY <1>1, <1>18 DEF SkipCommit, SoloRequest
    <3>. QED
      BY <1>6, <1>7, <1>13, <2>1, <3>1 DEF OnlyServingIsCalled
  <2>. QED
    BY <1>8, <1>18, <2>1 DEF SkipCommit
<1>19. CASE RecallCommit(s)
  <2>1. meta' = meta /\ StaffTo(s, IdleStaff) /\ \A t \in Tickets : entry'[t].state = entry[t].state
    BY <1>1, <1>19 DEF RecallCommit, Entries
  <2>. QED
    BY <1>1, <1>6, <1>7, <2>1 DEF OnlyServingIsCalled
<1>20. CASE \E a \in Ops : SetStateRead(s, a)
  <2>1. PICK a \in Actions, v \in Views :
          StaffTo(s, IF MayTransition(v.meta, a)
                    THEN [IdleStaff EXCEPT !.pc = "set", !.op = a] ELSE IdleStaff)
    BY <1>20 DEF SetStateRead
  <2>2. UNCHANGED <<meta, entry>>
    BY <1>20 DEF SetStateRead, store
  <2>3. staff'[s].pc \in {"set", "idle"}
    BY <1>1, <2>1 DEF StaffTo, IdleStaff
  <2>. QED
    BY <1>1, <1>3, <2>2, <2>3 DEF SoloRequest, OnlyServingIsCalled
<1>21. CASE SetStateCommit(s)
  <2>1. entry' = entry /\ meta'.nowServing = meta.nowServing /\ StaffTo(s, IdleStaff)
    BY <1>1, <1>21 DEF SetStateCommit, Metas
  <2>. QED
    BY <1>1, <1>6, <1>7, <2>1 DEF OnlyServingIsCalled
<1>22. CASE StaffFail(s)
  BY <1>8, <1>22 DEF StaffFail, store
<1>. QED
  BY <1>9, <1>10, <1>11, <1>12, <1>14, <1>15, <1>16, <1>17, <1>18, <1>19, <1>20, <1>21, <1>22
     DEF StaffAction, CallNextStep, CurrentStep, SetStateStep, CurrentReadMeta

\* The request and the board, along a whole behaviour of one console.
LEMMA SoloInvariant ==
  ASSUME EventualReads = FALSE, NEW s, Staff = {s}
  PROVE  Spec => []SoloInv
<1>1. Init => SoloInv
  BY BoundsAssumption DEF Init, SoloInv, OnlyServingIsCalled, SoloRequest, NoEntry, IdleStaff
<1>2. TypeOK /\ SoloInv /\ [Next]_vars => SoloInv'
  <2> SUFFICES ASSUME TypeOK, SoloInv, [Next]_vars PROVE SoloInv'
    OBVIOUS
  <2>1. ASSUME NEW j \in Joins, JoinStep(j) \/ JoinFail(j) \/ LeaveStep(j)
        PROVE  SoloInv'
    BY <2>1, CustomersCallNobody DEF SoloInv, SoloRequest, Nobody, OnlyServingIsCalled
  <2>2. CASE UNCHANGED vars
    BY <2>2 DEF vars, SoloInv, SoloRequest, Nobody, OnlyServingIsCalled
  <2>. QED
    BY <2>1, <2>2, SoloStep DEF Next, Replicate, StaffAction
<1>. QED
  BY <1>1, <1>2, TypeCorrect, PTL DEF Spec

\* With one console and reads that see every write, only the customer on the board is in
\* state CALLED, so that skip, recall and the next call act on the right entry.
THEOREM OnlyServing ==
  ASSUME EventualReads = FALSE, NEW s, Staff = {s}
  PROVE  Spec => []OnlyServingIsCalled
<1>1. SoloInv => OnlyServingIsCalled
  BY DEF SoloInv
<1>. QED
  BY <1>1, SoloInvariant, PTL

-------------------------------------------------------------------------------
\* ONE CONSOLE, KEYS THAT FIT: THE CURSOR

LEMMA WidthBound ==
  ASSUME NEW w \in 1..MaxPadWidth
  PROVE  Pow10[w] \in Nat /\ Pow10[w] >= 10
BY DEF Pow10, MaxPadWidth

\* Two keys of padWidth characters sort as their numbers.
LEMMA FittingKeys ==
  ASSUME NEW w \in 1..MaxPadWidth, NEW n \in Nat, NEW m \in Nat, n < Pow10[w], m < Pow10[w]
  PROVE  KeyBefore(n, m, w) <=> n < m
<1>1. KeyLength(n, w) = w /\ KeyLength(m, w) = w
  BY DEF KeyLength
<1>. QED
  BY <1>1 DEF KeyBefore, MaxPadWidth

\* Every number of a queue whose numbers fit sorts as a number.
LEMMA FittingTickets ==
  ASSUME LastTicket < Pow10[PadWidth]
  PROVE  \A t, u \in Tickets \cup {0} : KeyBefore(t, u, PadWidth) <=> t < u
<1>1. Pow10[PadWidth] \in Nat /\ Pow10[PadWidth] >= 10
  BY BoundsAssumption, WidthBound
<1>2. \A t \in Tickets \cup {0} : t \in Nat /\ t < Pow10[PadWidth]
  BY <1>1, BoundsAssumption DEF Tickets
<1>. QED
  BY <1>2, BoundsAssumption, FittingKeys

\* Nobody past the cursor's next ticket has been called, the board shows that ticket or
\* nobody, and what a request has read of the two still holds when it uses it.
BoardAhead ==
  /\ meta.lastServed <= LastTicket
  /\ meta.nowServing # 0 => meta.nowServing = meta.lastServed + 1
  /\ \A t \in Tickets :
       entry[t].callCount = 1 \/ entry[t].state = "CALLED" => t <= meta.lastServed + 1
AheadRequest(r) ==
  /\ r.pc \in {"prev", "find", "call"} => r.cursor = meta.lastServed
  /\ r.pc = "call" => r.candidate > meta.lastServed
  /\ r.pc \in {"prev", "current", "skip", "completeEntry", "completeMeta"} => r.prev # 0
  /\ r.pc \in {"find", "call"} /\ r.prevCalled => r.prev # 0
  /\ r.pc = "completeMeta" => r.prev = meta.nowServing
AheadInv == BoardAhead /\ \A s \in Staff : AheadRequest(staff[s])

CursorRises == meta'.lastServed >= meta.lastServed

\* A write that ends the current customer moves the cursor to their ticket.
LEMMA EndMovesCursor ==
  ASSUME TypeOK, CallsInv, BoardAhead, NEW r, r.prev = meta.nowServing, r.prev # 0,
         ClearServing(r),
         \A t \in Tickets : /\ entry'[t].callCount = entry[t].callCount
                            /\ entry'[t].state = "CALLED" => entry[t].state = "CALLED"
  PROVE  BoardAhead' /\ CursorRises
<1>1. /\ meta \in Metas /\ meta.nowServing = meta.lastServed + 1
      /\ meta.nowServing \in Tickets
  BY DEF TypeOK, BoardAhead, CallsInv
<1>2. meta'.nowServing = 0 /\ meta'.lastServed = meta.lastServed + 1
  BY <1>1 DEF ClearServing, Metas
<1>3. meta'.lastServed \in Nat /\ meta'.lastServed <= LastTicket /\ CursorRises
  BY <1>1, <1>2, BoundsAssumption DEF Metas, Tickets, CursorRises
<1>4. ASSUME NEW t \in Tickets, entry'[t].callCount = 1 \/ entry'[t].state = "CALLED"
      PROVE  t <= meta'.lastServed + 1
  <2>1. t <= meta.lastServed + 1
    BY <1>4 DEF BoardAhead
  <2>. QED
    BY <1>1, <1>2, <2>1, BoundsAssumption DEF Metas, Tickets
<1>. QED
  BY <1>2, <1>3, <1>4 DEF BoardAhead

\* Joins and leaves call nobody.
LEMMA CustomersStayUncalled ==
  ASSUME TypeOK, NEW j \in Joins, JoinStep(j) \/ JoinFail(j) \/ LeaveStep(j)
  PROVE  \A t \in Tickets : entry'[t].callCount = 1 => entry[t].callCount = 1
<1>1. entry \in [Tickets -> Entries]
  BY DEF TypeOK
<1>2. \/ entry' = entry
      \/ entry' = [entry EXCEPT ![join[j].ticket] = FreshEntry(j)]
      \/ entry' = [entry EXCEPT ![join[j].ticket].state = "LEFT"]
  BY DEF JoinStep, LeaveStep, JoinReadIdem, JoinReadMeta, JoinReserve, JoinCommit, JoinRecheck,
         JoinReply, JoinFail, LeaveFind, LeaveCommit, store
<1>3. FreshEntry(j).callCount = 0
  BY DEF FreshEntry, NoEntry
<1>4. ASSUME NEW t \in Tickets, entry'[t].callCount = 1 PROVE entry[t].callCount = 1
  BY <1>1, <1>2, <1>3, <1>4 DEF Entries
<1>. QED
  BY <1>4

\* The one console's own step.
LEMMA AheadStep ==
  ASSUME TypeOK, CallsInv, SoloInv, AheadInv, EventualReads = FALSE,
         LastTicket < Pow10[PadWidth], NEW s \in Staff, Staff = {s}, StaffAction(s)
  PROVE  AheadInv' /\ CursorRises
<1> DEFINE r == staff[s]
<1>1. /\ entry \in [Tickets -> Entries] /\ staff \in [Staff -> StaffType] /\ meta \in Metas
      /\ r \in StaffType /\ SoloRequest(r) /\ AheadRequest(r) /\ BoardAhead
      /\ meta.lastServed \in Nat
  BY DEF TypeOK, SoloInv, AheadInv, Metas
<1>2. \A v \in Views : v.meta = meta /\ v.entry = entry
  BY DEF Views, Current
<1>3. ASSUME NEW q \in StaffType, StaffTo(s, q), AheadRequest(q)', BoardAhead' PROVE AheadInv'
  <2>1. staff'[s] = q
    BY <1>1, <1>3 DEF StaffTo
  <2>. QED
    BY <1>3, <2>1 DEF AheadInv, AheadRequest
<1>4. ASSUME UNCHANGED <<meta, entry>>, NEW q \in StaffType, StaffTo(s, q), AheadRequest(q)
      PROVE  AheadInv' /\ CursorRises
  <2>1. BoardAhead' /\ CursorRises /\ AheadRequest(q)'
    BY <1>1, <1>4 DEF BoardAhead, CursorRises, AheadRequest
  <2>. QED
    BY <1>3, <1>4, <2>1
<1>5. ASSUME NEW q \in StaffType, q.pc \in {"idle", "retry", "set", "recall"}
      PROVE  AheadRequest(q) /\ AheadRequest(q)'
  BY <1>5 DEF AheadRequest
<1>6. IdleStaff \in StaffType /\ IdleStaff.pc = "idle"
  BY IdleType DEF IdleStaff
<1>7. ASSUME StaffTo(s, IdleStaff), UNCHANGED <<meta, entry>> PROVE AheadInv' /\ CursorRises
  BY <1>4, <1>5, <1>6, <1>7
<1>8. ASSUME StaffTo(s, IdleStaff), BoardAhead' PROVE AheadInv'
  BY <1>3, <1>5, <1>6, <1>8
<1>9. CASE CallNextReadMeta(s)
  <2> DEFINE q == [IdleStaff EXCEPT !.op = "next",
                     !.pc = IF meta.nowServing = 0 THEN "find" ELSE "prev",
                     !.prev = meta.nowServing, !.cursor = meta.lastServed,
                     !.attempt = staff[s].attempt + 1]
  <2>1. StaffTo(s, IF AcceptsWork(meta) THEN q ELSE IdleStaff) /\ UNCHANGED <<meta, entry>>
    BY <1>2, <1>9 DEF CallNextReadMeta, store
  <2>2. q \in StaffType
    <3>1. /\ staff[s].attempt + 1 \in Nat
          /\ (IF meta.nowServing = 0 THEN "find" ELSE "prev") \in StaffPcs
      BY <1>1 DEF StaffType, StaffPcs
    <3>. QED
      BY <1>1, <3>1 DEF IdleStaff, StaffType, StaffOps, Metas
  <2>3. AheadRequest(q)
    BY DEF AheadRequest, IdleStaff
  <2>. QED
    BY <1>4, <1>7, <2>1, <2>2, <2>3
<1>10. CASE CallNextReadPrev(s)
  <2> DEFINE q == [r EXCEPT !.pc = "find", !.prevCalled = entry[r.prev].state = "CALLED"]
  <2>1. StaffTo(s, q) /\ UNCHANGED <<meta, entry>> /\ r.pc = "prev"
    BY <1>2, <1>10 DEF CallNextReadPrev, store
  <2>2. q \in StaffType
    BY <1>1 DEF StaffType, StaffPcs
  <2>3. q.pc = "find" /\ q.prev = r.prev /\ q.cursor = r.cursor
    BY <1>1 DEF StaffType
  <2>4. AheadRequest(q)
    BY <1>1, <2>1, <2>3 DEF AheadRequest
  <2>. QED
    BY <1>4, <2>1, <2>2, <2>4
<1>11. CASE CallNextFind(s)
  <2>1. UNCHANGED <<meta, entry>> /\ r.pc = "find"
    BY <1>11 DEF CallNextFind, store
  <2>2. \/ \E t \in KeysAfter(WaitingIn(entry), r.cursor, PadWidth) :
             StaffTo(s, [r EXCEPT !.pc = "call", !.candidate = t])
        \/ r.prevCalled /\ StaffTo(s, [r EXCEPT !.pc = "completeEntry"])
        \/ StaffTo(s, IdleStaff)
    BY <1>2, <1>11 DEF CallNextFind, IsFirstKey
  <2>3. ASSUME NEW t \in KeysAfter(WaitingIn(entry), r.cursor, PadWidth),
               StaffTo(s, [r EXCEPT !.pc = "call", !.candidate = t])
        PROVE  AheadInv' /\ CursorRises
    <3> DEFINE q == [r EXCEPT !.pc = "call", !.candidate = t]
    <3>1. t \in Tickets /\ KeyBefore(r.cursor, t, PadWidth) /\ t \in Nat
      BY DEF KeysAfter, WaitingIn, Tickets
    <3>2. r.cursor = meta.lastServed /\ r.cursor \in Tickets \cup {0}
      BY <1>1, <2>1, BoundsAssumption DEF AheadRequest, BoardAhead, Tickets
    <3>3. t > meta.lastServed
      BY <3>1, <3>2, FittingTickets
    <3>4. q \in StaffType
      BY <1>1, <3>1, CandidateUpdate
    <3>5. q.pc = "call" /\ q.candidate = t /\ q.cursor = r.cursor /\ q.prev = r.prev
          /\ q.prevCalled = r.prevCalled
      BY <1>1 DEF StaffType
    <3>6. AheadRequest(q)
      BY <1>1, <2>1, <3>2, <3>3, <3>5 DEF AheadRequest
    <3>. QED
      BY <1>4, <2>1, <2>3, <3>4, <3>6
  <2>4. CASE r.prevCalled /\ StaffTo(s, [r EXCEPT !.pc = "completeEntry"])
    <3> DEFINE q == [r EXCEPT !.pc = "completeEntry"]
    <3>1. q \in StaffType /\ q.pc = "completeEntry" /\ q.prev = r.prev
      BY <1>1 DEF StaffType, StaffPcs
    <3>2. AheadRequest(q)
      BY <1>1, <2>1, <2>4, <3>1 DEF AheadRequest
    <3>. QED
      BY <1>4, <2>1, <2>4, <3>1, <3>2
  <2>. QED
    BY <1>7, <2>1, <2>2, <2>3, <2>4
<1>12. CASE CallNextCommit(s)
  <2>1. r.pc = "call" /\ r.candidate \in Tickets /\ r.candidate \in Nat /\ r.candidate > meta.lastServed
    BY <1>1, <1>12 DEF CallNextCommit, TypeOK, Aims, AheadRequest, Tickets
  <2>2. CASE /\ entry' = CalledEntries(r) /\ StaffTo(s, IdleStaff)
             /\ meta' = [meta EXCEPT !.nowServing = r.candidate, !.lastServed = r.candidate - 1]
    <3>1. meta'.nowServing = r.candidate /\ meta'.lastServed = r.candidate - 1
      BY <1>1, <2>2 DEF Metas
    <3>2. CursorRises /\ meta'.lastServed <= LastTicket /\ meta'.lastServed + 1 = r.candidate
      BY <1>1, <2>1, <3>1, BoundsAssumption DEF CursorRises, Tickets
    <3>3. ASSUME NEW t \in Tickets, entry'[t].callCount = 1 \/ entry'[t].state = "CALLED"
          PROVE  t <= r.candidate
      <4>1. CASE t = r.candidate
        BY <2>1, <4>1
      <4>2. CASE t # r.candidate
        <5>1. entry[t].callCount = 1 \/ entry[t].state = "CALLED"
          BY <1>1, <2>2, <3>3, <4>2 DEF CalledEntries, Entries
        <5>2. t <= meta.lastServed + 1
          BY <1>1, <5>1 DEF BoardAhead
        <5>. QED
          BY <1>1, <2>1, <5>2, BoundsAssumption DEF Tickets
      <4>. QED
        BY <4>1, <4>2
    <3>4. BoardAhead'
      BY <3>1, <3>2, <3>3 DEF BoardAhead
    <3>. QED
      BY <1>8, <2>2, <3>2, <3>4
  <2>3. CASE UNCHANGED <<entry, meta>>
    <3> DEFINE q == [IdleStaff EXCEPT !.pc = "retry", !.op = "next", !.attempt = r.attempt]
    <3>1. StaffTo(s, IdleStaff) \/ StaffTo(s, q)
      BY <1>12 DEF CallNextCommit
    <3>2. q \in StaffType /\ q.pc = "retry"
      BY <1>1 DEF IdleStaff, StaffType, StaffPcs, StaffOps
    <3>. QED
      BY <1>4, <1>5, <1>7, <2>3, <3>1, <3>2
  <2>. QED
    BY <1>12, <2>2, <2>3 DEF CallNextCommit
<1>13. ASSUME NEW state \in {"SERVED", "SKIPPED"}, EndCurrent(r, state)
       PROVE  \A t \in Tickets : /\ entry'[t].callCount = entry[t].callCount
                                 /\ entry'[t].state = "CALLED" => entry[t].state = "CALLED"
  BY <1>1, <1>13 DEF EndCurrent, Entries
<1>14. CASE CompleteEntry(s)
  <2>1. r.prev = meta.nowServing /\ r.prev # 0
    BY <1>1, <1>14 DEF CompleteEntry, SoloRequest, AheadRequest
  <2>2. CASE EndCurrent(r, "SERVED") /\ StaffTo(s, [r EXCEPT !.pc = "completeMeta"]) /\ meta' = meta
    <3> DEFINE q == [r EXCEPT !.pc = "completeMeta"]
    <3>1. q \in StaffType /\ q.pc = "completeMeta" /\ q.prev = r.prev
      BY <1>1 DEF StaffType, StaffPcs
    <3>2. staff'[s] = q
      BY <1>1, <2>2 DEF StaffTo
    <3>3. BoardAhead' /\ CursorRises
      BY <1>1, <1>13, <2>2 DEF BoardAhead, CursorRises
    <3>4. AheadRequest(staff[s])'
      BY <2>1, <2>2, <3>1, <3>2 DEF AheadRequest
    <3>. QED
      BY <3>3, <3>4 DEF AheadInv
  <2>. QED
    BY <1>7, <1>14, <2>2 DEF CompleteEntry
<1>15. CASE CompleteMeta(s)
  <2>1. r.prev = meta.nowServing /\ r.prev # 0 /\ ClearServing(r) /\ entry' = entry
        /\ StaffTo(s, IdleStaff)
    BY <1>1, <1>15 DEF CompleteMeta, AheadRequest
  <2>. QED
    BY <1>1, <1>8, <2>1, EndMovesCursor
<1>16. CASE CurrentReadMeta(s, "skip") \/ CurrentReadMeta(s, "recall")
  <2>0. PICK op \in {"skip", "recall"} : CurrentReadMeta(s, op)
    BY <1>16
  <2> DEFINE q == [IdleStaff EXCEPT !.op = op, !.pc = "current", !.prev = meta.nowServing]
  <2>1. /\ StaffTo(s, IF AcceptsWork(meta) /\ meta.nowServing # 0 THEN q ELSE IdleStaff)
        /\ UNCHANGED <<meta, entry>>
    BY <1>2, <2>0 DEF CurrentReadMeta, store
  <2>2. q \in StaffType /\ q.pc = "current" /\ q.prev = meta.nowServing
    BY <1>1 DEF IdleStaff, StaffType, StaffPcs, StaffOps, Metas
  <2>3. meta.nowServing # 0 => AheadRequest(q)
    BY <2>2 DEF AheadRequest
  <2>. QED
    BY <1>4, <1>7, <2>1, <2>2, <2>3
<1>17. CASE CurrentReadEntry(s)
  <2>1. /\ UNCHANGED <<meta, entry>> /\ r.pc = "current"
        /\ StaffTo(s, [r EXCEPT !.pc = r.op]) \/ StaffTo(s, IdleStaff)
        /\ r.op \in {"skip", "recall"} /\ r.prev # 0
    BY <1>1, <1>17 DEF CurrentReadEntry, store, TypeOK, Aims, AheadRequest
  <2> DEFINE q == [r EXCEPT !.pc = r.op]
  <2>2. q \in StaffType /\ q.pc \in {"skip", "recall"} /\ q.prev # 0
    BY <1>1, <2>1 DEF StaffType, StaffPcs
  <2>3. AheadRequest(q)
    BY <2>2 DEF AheadRequest
  <2>. QED
    BY <1>4, <1>7, <2>1, <2>2, <2>3
<1>18. CASE SkipCommit(s)
  <2>1. r.prev = meta.nowServing /\ r.prev # 0 /\ StaffTo(s, IdleStaff)
    BY <1>1, <1>18 DEF SkipCommit, SoloRequest, AheadRequest
  <2>2. CASE EndCurrent(r, "SKIPPED") /\ ClearServing(r)
    BY <1>1, <1>8, <1>13, <2>1, <2>2, EndMovesCursor
  <2>. QED
    BY <1>7, <1>18, <2>1, <2>2 DEF SkipCommit
<1>19. CASE RecallCommit(s)
  <2>1. /\ meta' = meta /\ StaffTo(s, IdleStaff)
        /\ \A t \in Tickets : /\ entry'[t].state = entry[t].state
                              /\ entry'[t].callCount = entry[t].callCount
    BY <1>1, <1>19 DEF RecallCommit, Entries
  <2>2. BoardAhead' /\ CursorRises
    BY <1>1, <2>1 DEF BoardAhead, CursorRises
  <2>. QED
    BY <1>8, <2>1, <2>2
<1>20. CASE \E a \in Ops : SetStateRead(s, a)
  <2>1. PICK a \in Actions : StaffTo(s, [IdleStaff EXCEPT !.pc = "set", !.op = a])
                             \/ StaffTo(s, IdleStaff)
    BY <1>20 DEF SetStateRead
  <2>2. UNCHANGED <<meta, entry>>
    BY <1>20 DEF SetStateRead, store
  <2> DEFINE q == [IdleStaff EXCEPT !.pc = "set", !.op = a]
  <2>3. q \in StaffType /\ q.pc = "set"
    BY DEF IdleStaff, StaffType, StaffPcs, StaffOps
  <2>. QED
    BY <1>4, <1>5, <1>7, <2>1, <2>2, <2>3
<1>21. CASE SetStateCommit(s)
  <2>1. /\ entry' = entry /\ meta'.nowServing = meta.nowServing
        /\ meta'.lastServed = meta.lastServed /\ StaffTo(s, IdleStaff)
    BY <1>1, <1>21 DEF SetStateCommit, Metas
  <2>2. BoardAhead' /\ CursorRises
    BY <1>1, <2>1 DEF BoardAhead, CursorRises
  <2>. QED
    BY <1>8, <2>1, <2>2
<1>22. CASE StaffFail(s)
  BY <1>7, <1>22 DEF StaffFail, store
<1>. QED
  BY <1>9, <1>10, <1>11, <1>12, <1>14, <1>15, <1>16, <1>17, <1>18, <1>19, <1>20, <1>21, <1>22
     DEF StaffAction, CallNextStep, CurrentStep, SetStateStep, CurrentReadMeta

\* Every step of the queue: the cursor never falls.
LEMMA AheadNext ==
  ASSUME EventualReads = FALSE, NEW s, Staff = {s}, LastTicket < Pow10[PadWidth],
         TypeOK, CallsInv, SoloInv, AheadInv, [Next]_vars
  PROVE  AheadInv' /\ CursorRises
<1>1. meta.lastServed \in Nat
  BY DEF TypeOK, Metas
<1>2. ASSUME NEW j \in Joins, JoinStep(j) \/ JoinFail(j) \/ LeaveStep(j)
      PROVE  AheadInv' /\ CursorRises
  <2>1. /\ UNCHANGED <<meta, staff>>
        /\ \A t \in Tickets :
             entry'[t].callCount = 1 \/ entry'[t].state = "CALLED"
               => entry[t].callCount = 1 \/ entry[t].state = "CALLED"
    BY <1>2, CustomersCallNobody, CustomersStayUncalled
  <2>. QED
    BY <1>1, <2>1 DEF AheadInv, BoardAhead, AheadRequest, CursorRises
<1>3. CASE UNCHANGED vars
  BY <1>1, <1>3 DEF vars, AheadInv, BoardAhead, AheadRequest, CursorRises
<1>. QED
  BY <1>2, <1>3, AheadStep DEF Next, Replicate, StaffAction

LEMMA AheadInit == Init => AheadInv
<1> SUFFICES ASSUME Init PROVE AheadInv
  OBVIOUS
<1>1. meta.nowServing = 0 /\ meta.lastServed = Issued /\ Issued \in Nat /\ Issued <= LastTicket
  BY BoundsAssumption DEF Init
<1>2. ASSUME NEW t \in Tickets, entry[t].callCount = 1 \/ entry[t].state = "CALLED"
      PROVE  t <= Issued
  BY <1>2 DEF Init, NoEntry
<1>3. \A t \in Tickets : t <= Issued => t <= Issued + 1
  BY <1>1 DEF Tickets
<1>4. \A s \in Staff : staff[s].pc = "idle"
  BY DEF Init, IdleStaff
<1>. QED
  BY <1>1, <1>2, <1>3, <1>4 DEF AheadInv, BoardAhead, AheadRequest

\* One console, reads that see every write, numbers that fit padWidth: the queue's
\* invariant with what the console's request and the board have to do with each other.
LEMMA ConsoleInvariant ==
  ASSUME EventualReads = FALSE, NEW s, Staff = {s}, LastTicket < Pow10[PadWidth]
  PROVE  Spec => [](IInv /\ SoloInv /\ AheadInv)
<1>1. IInv /\ SoloInv /\ AheadInv /\ [Next]_vars => AheadInv'
  BY AheadNext DEF IInv
<1>. QED
  BY <1>1, AheadInit, Invariant, SoloInvariant, PTL DEF Spec

\* One console whose reads see every write calls customers in ascending order, as long as
\* the numbers fit padWidth: whoever is called has a ticket above everybody called before.
THEOREM CallsAscend ==
  ASSUME EventualReads = FALSE, NEW s, Staff = {s}, LastTicket < Pow10[PadWidth]
  PROVE  Spec => AscendingCalls
<1>1. ASSUME IInv, SoloInv, AheadInv, [Next]_vars, NEW t \in Tickets, NEW u \in Tickets,
             entry[t].callCount = 0, entry'[t].callCount = 1, entry[u].callCount = 1
      PROVE  u < t
  <2>1. /\ TypeOK /\ CallsInv /\ NumbersInv /\ ReplicaInv /\ CallsInv
        /\ BoardAhead /\ u \in Nat /\ t \in Nat /\ u # t /\ meta.lastServed \in Nat
    BY <1>1 DEF IInv, AheadInv, Tickets, TypeOK, Metas
  <2>2. u <= meta.lastServed + 1
    BY <1>1, <2>1 DEF BoardAhead
  <2>3. CallNextCommit(s) /\ staff[s].candidate = t
    <3>1. ~ UNCHANGED entry
      BY <1>1
    <3>2. \A j \in Joins : ~ (JoinStep(j) \/ JoinFail(j) \/ LeaveStep(j))
      BY <1>1, <2>1, CustomersStayUncalled
    <3>3. StaffAction(s)
      BY <1>1, <3>1, <3>2 DEF Next, Replicate, vars, StaffAction
    <3>4. entry \in [Tickets -> Entries]
      BY <2>1 DEF TypeOK
    <3>5. ~ CompleteEntry(s) /\ ~ SkipCommit(s) /\ ~ RecallCommit(s)
      BY <1>1, <3>4 DEF CompleteEntry, SkipCommit, RecallCommit, EndCurrent, Entries
    <3>6. CallNextCommit(s)
      BY <3>1, <3>3, <3>5
         DEF StaffAction, CallNextStep, CurrentStep, SetStateStep, StaffFail, CallNextReadMeta,
             CallNextReadPrev, CallNextFind, CompleteMeta, CurrentReadMeta, CurrentReadEntry,
             SetStateRead, SetStateCommit, store
    <3>7. entry' = CalledEntries(staff[s])
      BY <3>1, <3>6 DEF CallNextCommit
    <3>8. t # staff[s].candidate => entry'[t].callCount = entry[t].callCount
      BY <3>4, <3>7 DEF CalledEntries, Entries
    <3>. QED
      BY <1>1, <3>6, <3>8
  <2>4. t > meta.lastServed
    BY <1>1, <2>3 DEF CallNextCommit, AheadInv, AheadRequest
  <2>. QED
    BY <2>1, <2>2, <2>4
<1>2. IInv /\ SoloInv /\ AheadInv /\ [Next]_vars
        => [\A t, u \in Tickets :
              /\ entry[t].callCount = 0 /\ entry'[t].callCount = 1
              /\ entry[u].callCount = 1
              => u < t]_vars
  BY <1>1
<1>. QED
  BY <1>2, ConsoleInvariant, PTL DEF Spec, AscendingCalls
===============================================================================
