---------------------------- MODULE QueueRefinement ---------------------------
(***************************************************************************)
(* QueueEngine implements QueuePromise: under the refinement mapping of     *)
(* QueueEngine every initial state is one of the promise, and every step is *)
(* one of its steps or changes nothing it speaks of.                       *)
(***************************************************************************)
EXTENDS QueueEngineSafety

PromiseStep == [Promise!Next]_(Promise!vars)

\* A number of the promise's line is the entry's state and owner.
LEMMA LineAt ==
  ASSUME NEW t \in Tickets
  PROVE  /\ LineOf(entry)[t] = [state |-> entry[t].state, owner |-> entry[t].owner]
         /\ LineOf(entry)'[t] = [state |-> entry'[t].state, owner |-> entry'[t].owner]
         /\ LineOf(entry)[t].state = entry[t].state
         /\ LineOf(entry)[t].owner = entry[t].owner
BY DEF LineOf, Tickets

LEMMA InitRefines == Init => Promise!Init
<1> SUFFICES ASSUME Init PROVE Promise!Init
  OBVIOUS
<1>1. AcceptsWork(meta) = TRUE /\ counter.lastNumber = Issued
  BY DEF Init, AcceptsWork
<1>2. LineOf(entry) = [n \in Tickets |->
                         IF n <= Issued THEN [Promise!Absent EXCEPT !.state = "SERVED"]
                                        ELSE Promise!Absent]
  BY DEF Init, LineOf, NoEntry, Promise!Absent
<1>. QED
  BY <1>1, <1>2 DEF Promise!Init

\* Nothing the promise speaks of changes, or only whether the queue is open.
LEMMA Stutters ==
  ASSUME LineOf(entry)' = LineOf(entry), counter'.lastNumber = counter.lastNumber
  PROVE  PromiseStep
<1>1. AcceptsWork(meta)' \in BOOLEAN
  BY DEF AcceptsWork
<1>. QED
  BY <1>1, Zenon DEF PromiseStep, Promise!Next, Promise!SwitchOpen

\* One number changes its state, and its owner does not change.
LEMMA OneMoves ==
  ASSUME entry \in [Tickets -> Entries], entry' \in [Tickets -> Entries], NEW n \in Tickets,
         entry'[n].owner = entry[n].owner,
         \A t \in Tickets \ {n} : entry'[t].state = entry[t].state /\ entry'[t].owner = entry[t].owner
  PROVE  LineOf(entry)' = [LineOf(entry) EXCEPT ![n].state = entry'[n].state]
BY DEF LineOf, Tickets

LEMMA FinishRefines ==
  ASSUME TypeOK, TypeOK', NEW n \in Tickets,
         entry'[n].owner = entry[n].owner,
         \A t \in Tickets \ {n} : entry'[t].state = entry[t].state /\ entry'[t].owner = entry[t].owner,
         \/ entry[n].state = "CALLED" /\ entry'[n].state \in {"SERVED", "SKIPPED"}
         \/ entry[n].state \in Active /\ entry'[n].state = "LEFT",
         AcceptsWork(meta)' = AcceptsWork(meta), counter'.lastNumber = counter.lastNumber
  PROVE  PromiseStep
<1>1. LineOf(entry)' = [LineOf(entry) EXCEPT ![n].state = entry'[n].state]
  BY OneMoves DEF TypeOK
<1>2. LineOf(entry)[n].state = entry[n].state
  BY LineAt
<1>3. Promise!Finish(n, entry'[n].state)
  <2>1. \/ Promise!InState(n, "CALLED") /\ entry'[n].state \in {"SERVED", "SKIPPED"}
        \/ LineOf(entry)[n].state \in Promise!Present /\ entry'[n].state = "LEFT"
    BY <1>2 DEF Promise!InState, Promise!Present, Active
  <2>. QED
    BY <1>1, <2>1, Zenon DEF Promise!Finish
<1>4. entry'[n].state \in {"SERVED", "SKIPPED", "LEFT"}
  OBVIOUS
<1>. QED
  BY <1>3, <1>4, Zenon DEF PromiseStep, Promise!Next

LEMMA ReserveRefines ==
  ASSUME IInv, NEW j \in Joins, Reserves(j)
  PROVE  PromiseStep
<1>1. AcceptsWork(meta)
  BY DEF Reserves, IInv, CounterMirrorsMeta
<1>2. /\ counter'.lastNumber = counter.lastNumber + 1
      /\ AcceptsWork(meta)' = AcceptsWork(meta) /\ LineOf(entry)' = LineOf(entry)
  BY DEF Reserves, AcceptsWork, LineOf
<1>3. Promise!Issue
  BY <1>1, <1>2, Zenon DEF Promise!Issue
<1>. QED
  BY <1>3, Zenon DEF PromiseStep, Promise!Next

LEMMA CommitRefines ==
  ASSUME IInv, TypeOK', NEW j \in Joins, Commits(j)
  PROVE  PromiseStep
<1> DEFINE n == join[j].ticket
<1>1. TypeOK /\ NumbersInv /\ GuardsInv /\ KeysInv
  BY DEF IInv
<1>2. n \in Tickets /\ entry[n].state = "NONE" /\ n <= counter.lastNumber
  BY <1>1 DEF NumbersInv, Commits, MayCommit
<1>3. ASSUME NEW m \in Tickets
      PROVE  ~ Promise!Excludes(m, j)
  <2> DEFINE other == entry[m].owner
  <2>0. LineOf(entry)[m].owner = other /\ LineOf(entry)[m].state = entry[m].state
    BY LineAt, Zenon
  <2>1. SUFFICES ASSUME other # None
                 PROVE  /\ other # j
                        /\ KeyOf[j] # None => KeyOf[other] # KeyOf[j]
                        /\ entry[m].state \in Active => ContactsOf[other] \cap ContactsOf[j] = {}
    BY <2>0 DEF Promise!Excludes, Promise!Present, Active
  <2>2. other # j
    BY <1>1 DEF Commits, NumbersInv
  <2>3. KeyOf[j] # None => KeyOf[other] # KeyOf[j]
    BY <1>1, <2>1 DEF KeysInv, Commits, MayCommit, IdemFree
  <2>4. entry[m].state \in Active => ContactsOf[other] \cap ContactsOf[j] = {}
    BY <1>1, <2>1 DEF GuardsInv, Holds, Active, Commits, MayCommit
  <2>. QED
    BY <2>2, <2>3, <2>4
<1>4. LineOf(entry)' = [LineOf(entry) EXCEPT ![n] = [state |-> "WAITING", owner |-> j]]
  <2>1. \A t \in Tickets : t # n => entry'[t] = entry[t]
    BY <1>1, CommitEffect
  <2>2. entry'[n].state = "WAITING" /\ entry'[n].owner = j
    BY <1>1, <1>2, CommitEffect
  <2>. QED
    BY <1>2, <2>1, <2>2 DEF LineOf, Tickets
<1>5. AcceptsWork(meta)' = AcceptsWork(meta) /\ counter' = counter
  BY DEF Commits, AcceptsWork
<1>6. Promise!InState(n, "NONE")
  BY <1>2, LineAt, Zenon DEF Promise!InState
<1>7. Promise!Enter(n, j)
  BY <1>2, <1>3, <1>4, <1>5, <1>6, Zenon DEF Promise!Enter
<1>. QED
  BY <1>2, <1>7, Zenon DEF PromiseStep, Promise!Next

LEMMA LeaveRefines ==
  ASSUME IInv, TypeOK', NEW j \in Joins, Leaves(j)
  PROVE  PromiseStep
<1> DEFINE n == join[j].ticket
<1>1. TypeOK /\ NumbersInv /\ ReplicaInv
  BY DEF IInv
<1>2. n \in Tickets
  BY <1>1, LeaverOwns
<1>3. /\ entry'[n].owner = entry[n].owner
      /\ entry[n].state \in Active /\ entry'[n].state = "LEFT"
      /\ \A t \in Tickets \ {n} : entry'[t] = entry[t]
  BY <1>1, <1>2, LeaveEffect
<1>4. AcceptsWork(meta)' = AcceptsWork(meta) /\ counter' = counter
  BY DEF Leaves, AcceptsWork
<1>. QED
  BY <1>1, <1>2, <1>3, <1>4, FinishRefines

-------------------------------------------------------------------------------
\* STAFF REQUESTS

LEMMA EndCurrentRefines ==
  ASSUME TypeOK, TypeOK', NEW r, NEW state \in {"SERVED", "SKIPPED"},
         CurrentIsCalled(r), EndCurrent(r, state),
         AcceptsWork(meta)' = AcceptsWork(meta), counter'.lastNumber = counter.lastNumber
  PROVE  PromiseStep
<1>1. entry \in [Tickets -> Entries]
  BY DEF TypeOK
<1>2. CASE r.prev \notin Tickets
  <2>1. LineOf(entry)' = LineOf(entry)
    BY <1>1, <1>2 DEF EndCurrent, LineOf
  <2>. QED
    BY <2>1, Stutters
<1>3. CASE r.prev \in Tickets
  <2>1. entry'[r.prev] = [entry[r.prev] EXCEPT !.state = state] /\ entry[r.prev] \in Entries
    BY <1>1, <1>3 DEF EndCurrent
  <2>2. /\ entry'[r.prev].owner = entry[r.prev].owner
        /\ entry[r.prev].state = "CALLED" /\ entry'[r.prev].state = state
    BY <2>1 DEF Entries, CurrentIsCalled
  <2>3. \A t \in Tickets \ {r.prev} : entry'[t] = entry[t]
    BY <1>1 DEF EndCurrent
  <2>. QED
    BY <1>3, <2>2, <2>3, FinishRefines
<1>. QED
  BY <1>2, <1>3

LEMMA CallRefines ==
  ASSUME TypeOK, NEW s \in Staff, CallNextCommit(s)
  PROVE  PromiseStep
<1> DEFINE r == staff[s]
           done == IF r.prevCalled /\ r.prev \in Tickets \ {r.candidate} THEN {r.prev} ELSE {}
<1>1. CASE UNCHANGED <<entry, meta>>
  <2>1. LineOf(entry)' = LineOf(entry) /\ counter' = counter
    BY <1>1 DEF LineOf, CallNextCommit
  <2>. QED
    BY <2>1, Stutters
<1>2. CASE MayCall(r) /\ entry' = CalledEntries(r)
  <2>1. r.candidate \in Tickets /\ entry[r.candidate].state = "WAITING"
    BY <1>2 DEF TypeOK, Aims, CallNextCommit, MayCall
  <2>2. \A m \in done : entry[m].state = "CALLED" /\ m \in Tickets
    BY <1>2 DEF MayCall
  <2>3. ASSUME NEW m \in Tickets
        PROVE  LineOf(entry)'[m] = IF m = r.candidate THEN [LineOf(entry)[m] EXCEPT !.state = "CALLED"]
                                   ELSE IF m \in done THEN [LineOf(entry)[m] EXCEPT !.state = "SERVED"]
                                   ELSE LineOf(entry)[m]
    <3>1. entry[m] \in Entries
      BY DEF TypeOK
    <3>2. CASE m = r.candidate
      <4>1. entry'[m] = [entry[m] EXCEPT !.state = "CALLED", !.callCount = entry[m].callCount + 1]
        BY <1>2, <3>2 DEF CalledEntries
      <4>2. entry'[m].state = "CALLED" /\ entry'[m].owner = entry[m].owner
        BY <3>1, <4>1 DEF Entries
      <4>3. LineOf(entry)'[m] = [state |-> "CALLED", owner |-> entry[m].owner]
        BY <4>2, LineAt, Zenon
      <4>4. [LineOf(entry)[m] EXCEPT !.state = "CALLED"] = [state |-> "CALLED", owner |-> entry[m].owner]
        <5>1. LineOf(entry)[m] = [state |-> entry[m].state, owner |-> entry[m].owner]
          BY LineAt, Zenon
        <5>. QED
          BY <5>1
      <4>. QED
        BY <3>2, <4>3, <4>4
    <3>3. CASE m # r.candidate /\ m \in done
      <4>1. entry'[m] = [entry[m] EXCEPT !.state = "SERVED"]
        BY <1>2, <3>3 DEF CalledEntries
      <4>2. entry'[m].state = "SERVED" /\ entry'[m].owner = entry[m].owner
        BY <3>1, <4>1 DEF Entries
      <4>3. LineOf(entry)'[m] = [state |-> "SERVED", owner |-> entry[m].owner]
        BY <4>2, LineAt, Zenon
      <4>4. [LineOf(entry)[m] EXCEPT !.state = "SERVED"] = [state |-> "SERVED", owner |-> entry[m].owner]
        <5>1. LineOf(entry)[m] = [state |-> entry[m].state, owner |-> entry[m].owner]
          BY LineAt, Zenon
        <5>. QED
          BY <5>1
      <4>. QED
        BY <3>3, <4>3, <4>4, Zenon
    <3>4. CASE m # r.candidate /\ m \notin done
      <4>1. entry'[m] = entry[m]
        BY <1>2, <3>4 DEF CalledEntries
      <4>. QED
        BY <3>4, <4>1, LineAt
    <3>. QED
      BY <3>2, <3>3, <3>4
  <2>4. LineOf(entry)' = [m \in Tickets |->
           IF m = r.candidate THEN [LineOf(entry)[m] EXCEPT !.state = "CALLED"]
           ELSE IF m \in done THEN [LineOf(entry)[m] EXCEPT !.state = "SERVED"]
           ELSE LineOf(entry)[m]]
    BY <2>3 DEF LineOf, Tickets
  <2>5. AcceptsWork(meta)' = AcceptsWork(meta) /\ counter' = counter
    BY CallEffect DEF CallNextCommit
  <2>6. Promise!InState(r.candidate, "WAITING") /\ \A m \in done : Promise!InState(m, "CALLED")
    BY <2>1, <2>2, LineAt, Zenon DEF Promise!InState
  <2>7. Promise!Call(r.candidate, done)
    BY <2>4, <2>5, <2>6, Zenon DEF Promise!Call
  <2>8. done \in {{}} \cup {{m} : m \in Tickets}
    OBVIOUS
  <2>. QED
    BY <2>1, <2>7, <2>8, Zenon DEF PromiseStep, Promise!Next
<1>. QED
  BY <1>1, <1>2 DEF CallNextCommit

LEMMA StaffRefines ==
  ASSUME TypeOK, TypeOK', NEW s \in Staff, StaffAction(s)
  PROVE  PromiseStep
<1>1. counter'.lastNumber = counter.lastNumber
  BY StaffEffect DEF SameNumber
<1>2. CASE CallNextCommit(s)
  BY <1>2, CallRefines
<1>3. CASE entry' = entry
  <2>1. LineOf(entry)' = LineOf(entry)
    BY <1>3 DEF LineOf
  <2>. QED
    BY <1>1, <2>1, Stutters
<1>4. ASSUME CompleteEntry(s), entry' # entry
      PROVE  PromiseStep
  <2>1. CurrentIsCalled(staff[s]) /\ EndCurrent(staff[s], "SERVED")
    BY <1>4 DEF CompleteEntry
  <2>2. AcceptsWork(meta)' = AcceptsWork(meta)
    BY <1>4 DEF CompleteEntry, AcceptsWork
  <2>. QED
    BY <1>1, <2>1, <2>2, EndCurrentRefines
<1>5. ASSUME SkipCommit(s), entry' # entry
      PROVE  PromiseStep
  <2>1. CurrentIsCalled(staff[s]) /\ EndCurrent(staff[s], "SKIPPED") /\ ClearServing(staff[s])
    BY <1>5 DEF SkipCommit
  <2>2. AcceptsWork(meta)' = AcceptsWork(meta)
    BY <2>1, ClearServingEffect
  <2>. QED
    BY <1>1, <2>1, <2>2, EndCurrentRefines
<1>6. CASE RecallCommit(s)
  <2>1. \A t \in Tickets : entry'[t].state = entry[t].state /\ entry'[t].owner = entry[t].owner
    BY <1>6 DEF RecallCommit, TypeOK, Entries
  <2>2. LineOf(entry)' = LineOf(entry)
    BY <2>1 DEF LineOf, Tickets
  <2>. QED
    BY <1>1, <2>2, Stutters
<1>. QED
  BY <1>2, <1>3, <1>4, <1>5, <1>6
     DEF StaffAction, CallNextStep, CurrentStep, SetStateStep, StaffFail, CallNextReadMeta,
         CallNextReadPrev, CallNextFind, CurrentReadMeta, CurrentReadEntry, SetStateRead,
         CompleteMeta, SetStateCommit, store

-------------------------------------------------------------------------------
LEMMA StepRefines == IInv /\ [Next]_vars => PromiseStep
<1> SUFFICES ASSUME IInv, [Next]_vars PROVE PromiseStep
  OBVIOUS
<1>1. TypeOK /\ TypeOK'
  BY NextType DEF IInv
<1>2. ASSUME LineOf(entry)' = LineOf(entry), UNCHANGED counter
      PROVE  PromiseStep
  BY <1>2, Stutters
<1>3. ASSUME NEW j \in Joins, JoinStep(j) \/ JoinFail(j)
      PROVE  PromiseStep
  <2>1. QuietJoin(j) \/ Reserves(j) \/ Commits(j)
    BY <1>1, <1>3, QuietRequests, ReserveRequest, CommitRequest DEF JoinStep
  <2>2. CASE QuietJoin(j)
    BY <1>2, <2>2 DEF QuietJoin, store, LineOf
  <2>. QED
    BY <1>1, <2>1, <2>2, ReserveRefines, CommitRefines
<1>4. ASSUME NEW j \in Joins, LeaveStep(j)
      PROVE  PromiseStep
  <2>1. QuietLeave(j) \/ Leaves(j)
    BY <1>1, <1>4, LeaveRequest
  <2>2. CASE QuietLeave(j)
    BY <1>2, <2>2 DEF QuietLeave, store, LineOf
  <2>. QED
    BY <1>1, <2>1, <2>2, LeaveRefines
<1>5. ASSUME NEW s \in Staff, StaffAction(s)
      PROVE  PromiseStep
  BY <1>1, <1>5, StaffRefines
<1>6. CASE Replicate \/ UNCHANGED vars
  BY <1>2, <1>6 DEF Replicate, vars, LineOf
<1>. QED
  BY <1>3, <1>4, <1>5, <1>6 DEF Next, StaffAction

\* Whatever the interleaving, the failures and the lag of the reads, the requests
\* together do only what the promise allows: the engine implements it.
THEOREM EngineImplementsPromise == Spec => ImplementsPromise
BY InitRefines, StepRefines, Invariant, PTL DEF Spec, ImplementsPromise, Promise!Spec, PromiseStep
===============================================================================
