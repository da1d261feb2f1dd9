--------------------------- MODULE QueueEngineProofs --------------------------
(***************************************************************************)
(* What QueueEngine keeps for every set of requests, every bound and reads  *)
(* however stale, proved from the named assumptions of that module.        *)
(***************************************************************************)
EXTENDS QueueEngine, TLAPS

-------------------------------------------------------------------------------
\* TYPE CORRECTNESS

\* A read returns items of the right shape, from the table or from the replica.
LEMMA ViewType ==
  ASSUME TypeOK, NEW v \in Views
  PROVE  v \in ReplicaType
BY DEF TypeOK, Views, Current, ReplicaType

LEMMA IdleType == IdleStaff \in StaffType
BY DEF IdleStaff, StaffType, StaffPcs, StaffOps, Actions

\* Updates of two fields of an item or of a request.
LEMMA BoardUpdate ==
  ASSUME NEW m \in Metas, NEW n \in Nat, NEW l \in Nat
  PROVE  [m EXCEPT !.nowServing = n, !.lastServed = l] \in Metas
BY DEF Metas

LEMMA EntryUpdate ==
  ASSUME NEW e \in Entries, NEW state \in EntryStates, NEW n \in Nat
  PROVE  [e EXCEPT !.state = state, !.callCount = n] \in Entries
BY DEF Entries

LEMMA CandidateUpdate ==
  ASSUME NEW r \in StaffType, NEW n \in Nat
  PROVE  [r EXCEPT !.pc = "call", !.candidate = n] \in StaffType
<1>1. "call" \in StaffPcs
  BY DEF StaffPcs
<1>. QED
  BY <1>1 DEF StaffType

\* The initial items and requests have their types.
LEMMA InitType == Init => TypeOK
<1> SUFFICES ASSUME Init PROVE TypeOK
  OBVIOUS
<1> USE ContactsAssumption, KeysAssumption, BoundsAssumption
<1>1. meta \in Metas /\ counter \in [open : BOOLEAN, lastNumber : Nat]
  BY DEF Init, Metas
<1>2. entry \in [Tickets -> Entries]
  BY DEF Init, Entries, EntryStates, Active, NoEntry
<1>3. guards \subseteq Identities /\ idem \in [IdemKeys -> Joins \cup {None}]
  BY DEF Init
<1>4. replica \in ReplicaType
  BY <1>1, <1>2, <1>3 DEF Init, ReplicaType
<1>5. /\ join \in [Joins -> JoinType]
      /\ \A j \in Joins : join[j].pc \in {"idem", "recheck"} => KeyOf[j] # None
  BY DEF Init, JoinType, JoinPcs, JoinEnds
<1>6. /\ staff \in [Staff -> StaffType]
      /\ \A s \in Staff : Aims(staff[s])
      /\ leave \in [Joins -> {"idle", "found"}]
  BY IdleType DEF Init, IdleStaff, Aims
<1>7. QED
  BY <1>1, <1>2, <1>3, <1>4, <1>5, <1>6 DEF TypeOK

-------------------------------------------------------------------------------
\* JOIN REQUESTS

JoinKeyed == \A j \in Joins : join[j].pc \in {"idem", "recheck"} => KeyOf[j] # None

\* A request that moves on keeps its type.
LEMMA JoinToType ==
  ASSUME TypeOK, NEW j \in Joins, NEW pc \in JoinPcs \cup JoinEnds, JoinTo(j, pc),
         pc \in {"idem", "recheck"} => KeyOf[j] # None
  PROVE  join' \in [Joins -> JoinType] /\ JoinKeyed'
BY DEF TypeOK, JoinTo, JoinType, JoinKeyed

LEMMA AnswerType ==
  ASSUME TypeOK, NEW j \in Joins, NEW pc \in {"replayed", "committed", "failed"},
         NEW r \in Joins \cup {None}, Answer(j, pc, r)
  PROVE  join' \in [Joins -> JoinType] /\ JoinKeyed'
<1>1. join \in [Joins -> JoinType] /\ JoinKeyed
  BY DEF TypeOK, JoinKeyed
<1>2. join' \in [Joins -> JoinType]
  BY <1>1 DEF Answer, JoinType, JoinPcs, JoinEnds
<1>3. JoinKeyed'
  BY <1>1 DEF Answer, JoinType, JoinKeyed
<1>. QED
  BY <1>2, <1>3

\* Reading a stored result under the request's key gives a join's result or none.
LEMMA ReplayOrType ==
  ASSUME TypeOK, NEW j \in Joins, NEW pc \in {"meta", "duplicate"}, ReplayOr(j, pc),
         KeyOf[j] # None
  PROVE  join' \in [Joins -> JoinType] /\ JoinKeyed'
<1>1. PICK v \in Views : LET prior == v.idem[KeyOf[j]]
                         IN  IF prior = None THEN JoinTo(j, pc) ELSE Answer(j, "replayed", prior)
  BY DEF ReplayOr
<1>2. v.idem[KeyOf[j]] \in Joins \cup {None}
  BY ViewType, KeysAssumption DEF ReplicaType
<1>3. pc \in JoinPcs \cup JoinEnds
  BY DEF JoinPcs, JoinEnds
<1>. QED
  BY <1>1, <1>2, <1>3, JoinToType, AnswerType

LEMMA JoinStepType ==
  ASSUME TypeOK, NEW j \in Joins, JoinStep(j) \/ JoinFail(j)
  PROVE  TypeOK'
<1>1. CASE JoinReadIdem(j) \/ JoinRecheck(j)
  <2>1. join' \in [Joins -> JoinType] /\ JoinKeyed'
    BY <1>1, ReplayOrType DEF JoinReadIdem, JoinRecheck, TypeOK
  <2>. QED
    BY <1>1, <2>1 DEF JoinReadIdem, JoinRecheck, TypeOK, store, JoinKeyed
<1>2. CASE JoinReadMeta(j) \/ JoinReply(j)
  <2>1. PICK pc \in {"reserve", "refused", "done"} : JoinTo(j, pc)
    BY <1>2 DEF JoinReadMeta, JoinReply
  <2>2. join' \in [Joins -> JoinType] /\ JoinKeyed'
    BY <2>1, JoinToType DEF JoinPcs, JoinEnds
  <2>. QED
    BY <1>2, <2>2 DEF JoinReadMeta, JoinReply, TypeOK, store, JoinKeyed
<1>3. CASE JoinFail(j)
  <2>1. join' \in [Joins -> JoinType] /\ JoinKeyed'
    BY <1>3, AnswerType DEF JoinFail, Answer
  <2>. QED
    BY <1>3, <2>1 DEF JoinFail, TypeOK, store, JoinKeyed
<1>4. CASE JoinReserve(j)
  <2>1. counter' \in [open : BOOLEAN, lastNumber : Nat]
    BY <1>4 DEF JoinReserve, ReservedNumber, TypeOK
  <2>2. join' \in [Joins -> JoinType] /\ JoinKeyed'
    <3>1. CASE join' = [join EXCEPT ![j] = [@ EXCEPT !.pc = "commit", !.ticket = ReservedNumber]]
      <4>1. join \in [Joins -> JoinType] /\ JoinKeyed /\ ReservedNumber \in Nat
        BY DEF TypeOK, JoinKeyed, ReservedNumber
      <4>2. join' \in [Joins -> JoinType]
        BY <3>1, <4>1 DEF JoinType, JoinPcs, JoinEnds
      <4>3. JoinKeyed'
        BY <3>1, <4>1 DEF JoinType, JoinKeyed
      <4>. QED
        BY <4>2, <4>3
    <3>2. CASE JoinTo(j, "failed") \/ JoinTo(j, "refused")
      BY <3>2, JoinToType DEF JoinPcs, JoinEnds
    <3>. QED
      BY <1>4, <3>1, <3>2 DEF JoinReserve
  <2>. QED
    BY <1>4, <2>1, <2>2 DEF JoinReserve, TypeOK, JoinKeyed
<1>5. CASE JoinCommit(j)
  <2>1. FreshEntry(j) \in Entries
    BY DEF FreshEntry, NoEntry, Entries, EntryStates, Active
  <2>2. guards' \subseteq Identities /\ idem' \in [IdemKeys -> Joins \cup {None}]
    BY <1>5, ContactsAssumption DEF JoinCommit, TypeOK
  <2>3. entry' \in [Tickets -> Entries]
    BY <1>5, <2>1 DEF JoinCommit, TypeOK
  <2>4. join' \in [Joins -> JoinType] /\ JoinKeyed'
    <3>1. CASE Answer(j, "committed", j)
      BY <3>1, AnswerType
    <3>2. CASE JoinTo(j, IF KeyOf[j] = None THEN "duplicate" ELSE "recheck")
      BY <3>2, JoinToType DEF JoinPcs, JoinEnds
    <3>. QED
      BY <1>5, <3>1, <3>2 DEF JoinCommit
  <2>. QED
    BY <1>5, <2>2, <2>3, <2>4 DEF JoinCommit, TypeOK, JoinKeyed
<1>. QED
  BY <1>1, <1>2, <1>3, <1>4, <1>5 DEF JoinStep

-------------------------------------------------------------------------------
\* LEAVE AND STAFF REQUESTS

LEMMA LeaveStepType ==
  ASSUME TypeOK, NEW j \in Joins, LeaveStep(j)
  PROVE  TypeOK'
<1>1. CASE LeaveFind(j)
  BY <1>1 DEF LeaveFind, TypeOK, store
<1>2. CASE LeaveCommit(j)
  <2>1. entry' \in [Tickets -> Entries]
    BY <1>2 DEF LeaveCommit, TypeOK, Entries, EntryStates
  <2>. QED
    BY <1>2, <2>1 DEF LeaveCommit, TypeOK
<1>. QED
  BY <1>1, <1>2 DEF LeaveStep

StaffAims == \A s \in Staff : Aims(staff[s])

\* A staff request that moves on keeps its type, and aims at a ticket when it calls.
LEMMA StaffToType ==
  ASSUME TypeOK, NEW s \in Staff, NEW r \in StaffType, StaffTo(s, r),
         Aims(r)
  PROVE  staff' \in [Staff -> StaffType] /\ StaffAims'
<1>1. staff \in [Staff -> StaffType] /\ StaffAims /\ Tickets' = Tickets
  BY DEF TypeOK, StaffAims, Tickets
<1>. QED
  BY <1>1 DEF StaffTo, StaffAims, Aims

\* The final state of the current entry, and the board that no longer shows it.
LEMMA CurrentType ==
  ASSUME TypeOK, NEW r \in StaffType
  PROVE  /\ \A state \in EntryStates : EndCurrent(r, state) => entry' \in [Tickets -> Entries]
         /\ ClearServing(r) => meta' \in Metas
<1>1. entry \in [Tickets -> Entries] /\ meta \in Metas /\ r.prev \in Nat
  BY DEF TypeOK, StaffType
<1>2. ASSUME NEW state \in EntryStates, EndCurrent(r, state)
      PROVE  entry' \in [Tickets -> Entries]
  BY <1>1, <1>2 DEF EndCurrent, Entries
<1>3. ClearServing(r) => meta' \in Metas
  <2>1. [meta EXCEPT !.nowServing = 0, !.lastServed = r.prev] \in Metas
    BY <1>1, BoardUpdate, 0 \in Nat, Zenon
  <2>. QED
    BY <2>1 DEF ClearServing
<1>. QED
  BY <1>2, <1>3

LEMMA CallNextStepType ==
  ASSUME TypeOK, NEW s \in Staff, CallNextStep(s)
  PROVE  TypeOK'
<1> DEFINE r == staff[s]
<1>1. /\ r \in StaffType /\ IdleStaff \in StaffType
      /\ Aims(IdleStaff) /\ Aims(r)
  BY IdleType DEF TypeOK, IdleStaff, Aims
<1>2. CASE CallNextReadMeta(s)
  <2>1. PICK v \in Views :
          StaffTo(s, IF AcceptsWork(v.meta)
                       THEN [IdleStaff EXCEPT !.op = "next",
                               !.pc = IF v.meta.nowServing = 0 THEN "find" ELSE "prev",
                               !.prev = v.meta.nowServing, !.cursor = v.meta.lastServed,
                               !.attempt = r.attempt + 1]
                       ELSE IdleStaff)
    BY <1>2 DEF CallNextReadMeta
  <2>2. v.meta.nowServing \in Nat /\ v.meta.lastServed \in Nat
    BY ViewType DEF ReplicaType, Metas
  <2>3. r.attempt + 1 \in Nat
    BY <1>1 DEF StaffType
  <2>4. ASSUME NEW pc \in {"find", "prev"}, NEW n \in Nat, NEW c \in Nat, NEW a \in Nat
        PROVE  LET q == [IdleStaff EXCEPT !.op = "next", !.pc = pc, !.prev = n,
                                          !.cursor = c, !.attempt = a]
               IN  q \in StaffType /\ Aims(q)
    BY DEF Aims, IdleStaff, StaffType, StaffPcs, StaffOps
  <2>5. (IF v.meta.nowServing = 0 THEN "find" ELSE "prev") \in {"find", "prev"}
    OBVIOUS
  <2>6. staff' \in [Staff -> StaffType] /\ StaffAims'
    BY <1>1, <2>1, <2>2, <2>3, <2>4, <2>5, StaffToType
  <2>. QED
    BY <1>2, <2>6 DEF CallNextReadMeta, TypeOK, store, StaffAims
<1>3. CASE CallNextReadPrev(s)
  <2>1. PICK b \in BOOLEAN : StaffTo(s, [r EXCEPT !.pc = "find", !.prevCalled = b])
    BY <1>3 DEF CallNextReadPrev
  <2>2. staff' \in [Staff -> StaffType] /\ StaffAims'
    BY <1>1, <2>1, StaffToType DEF Aims, StaffType, StaffPcs
  <2>. QED
    BY <1>3, <2>2 DEF CallNextReadPrev, TypeOK, store, StaffAims
<1>4. CASE CallNextFind(s)
  <2>1. \/ \E t \in Tickets : StaffTo(s, [r EXCEPT !.pc = "call", !.candidate = t])
        \/ StaffTo(s, [r EXCEPT !.pc = "completeEntry"])
        \/ StaffTo(s, IdleStaff)
    <3>1. \A e, c : KeysAfter(WaitingIn(e), c, PadWidth) \subseteq Tickets
      BY DEF KeysAfter, WaitingIn
    <3>. QED
      BY <1>4, <3>1 DEF CallNextFind
  <2>2. staff' \in [Staff -> StaffType] /\ StaffAims'
    <3>1. ASSUME NEW t \in Tickets
          PROVE  LET q == [r EXCEPT !.pc = "call", !.candidate = t]
                 IN  q \in StaffType /\ Aims(q)
      <4>1. t \in Nat
        BY BoundsAssumption DEF Tickets
      <4>2. [r EXCEPT !.pc = "call", !.candidate = t] \in StaffType
        BY <1>1, <4>1, CandidateUpdate
      <4>3. Aims([r EXCEPT !.pc = "call", !.candidate = t])
        BY <1>1 DEF StaffType, Aims
      <4>. QED
        BY <4>2, <4>3
    <3>2. LET q == [r EXCEPT !.pc = "completeEntry"] IN q \in StaffType /\ Aims(q)
      BY <1>1 DEF Aims, StaffType, StaffPcs
    <3>. QED
      BY <1>1, <2>1, <3>1, <3>2, StaffToType
  <2>. QED
    BY <1>4, <2>2 DEF CallNextFind, TypeOK, store, StaffAims
<1>5. CASE CallNextCommit(s)
  <2>1. entry' \in [Tickets -> Entries]
    <3>1. entry \in [Tickets -> Entries] /\ (entry' = CalledEntries(r) \/ entry' = entry)
      BY <1>5 DEF CallNextCommit, TypeOK
    <3>2. ASSUME NEW t \in Tickets
          PROVE  /\ [entry[t] EXCEPT !.state = "CALLED", !.callCount = @ + 1] \in Entries
                 /\ [entry[t] EXCEPT !.state = "SERVED"] \in Entries
      <4>1. /\ entry[t] \in Entries /\ entry[t].callCount + 1 \in Nat
            /\ "CALLED" \in EntryStates /\ "SERVED" \in EntryStates
        BY <3>1 DEF Entries, EntryStates, Active
      <4>2. [entry[t] EXCEPT !.state = "SERVED"] \in Entries
        BY <4>1 DEF Entries
      <4>. QED
        BY <4>1, <4>2, EntryUpdate
    <3>. QED
      BY <3>1, <3>2 DEF CalledEntries
  <2>2. meta' \in Metas
    <3>1. CASE /\ MayCall(r)
               /\ meta' = [meta EXCEPT !.nowServing = r.candidate, !.lastServed = r.candidate - 1]
      <4>1. r.candidate \in Tickets
        BY <1>1, <1>5 DEF CallNextCommit, Aims
      <4>2. r.candidate \in Nat /\ r.candidate - 1 \in Nat /\ meta \in Metas
        BY <4>1, BoundsAssumption DEF TypeOK, Tickets
      <4>. QED
        BY <3>1, <4>2, BoardUpdate
    <3>2. CASE meta' = meta
      BY <3>2 DEF TypeOK
    <3>. QED
      BY <1>5, <3>1, <3>2 DEF CallNextCommit
  <2>3. \/ StaffTo(s, IdleStaff)
        \/ StaffTo(s, [IdleStaff EXCEPT !.pc = "retry", !.op = "next", !.attempt = r.attempt])
    BY <1>5 DEF CallNextCommit
  <2>4. staff' \in [Staff -> StaffType] /\ StaffAims'
    BY <1>1, <2>3, StaffToType DEF Aims, IdleStaff, StaffType, StaffPcs, StaffOps
  <2>. QED
    BY <1>5, <2>1, <2>2, <2>4 DEF CallNextCommit, TypeOK, StaffAims
<1>6. CASE CompleteEntry(s)
  <2>1. entry' \in [Tickets -> Entries]
    BY <1>1, <1>6, CurrentType DEF CompleteEntry, TypeOK, EntryStates
  <2>2. StaffTo(s, IdleStaff) \/ StaffTo(s, [r EXCEPT !.pc = "completeMeta"])
    BY <1>6 DEF CompleteEntry
  <2>3. staff' \in [Staff -> StaffType] /\ StaffAims'
    BY <1>1, <2>2, StaffToType DEF Aims, StaffType, StaffPcs
  <2>. QED
    BY <1>6, <2>1, <2>3 DEF CompleteEntry, TypeOK, StaffAims
<1>7. CASE CompleteMeta(s)
  BY <1>1, <1>7, StaffToType, CurrentType DEF CompleteMeta, TypeOK, StaffAims
<1>. QED
  BY <1>2, <1>3, <1>4, <1>5, <1>6, <1>7 DEF CallNextStep

LEMMA CurrentStepType ==
  ASSUME TypeOK, NEW s \in Staff, CurrentStep(s)
  PROVE  TypeOK'
<1> DEFINE r == staff[s]
<1>1. /\ r \in StaffType /\ IdleStaff \in StaffType
      /\ Aims(IdleStaff) /\ Aims(r)
  BY IdleType DEF TypeOK, IdleStaff, Aims
<1>2. CASE \E op \in Ops : CurrentReadMeta(s, op)
  <2>1. PICK op \in {"skip", "recall"}, v \in Views :
          /\ StaffTo(s, IF AcceptsWork(v.meta) /\ v.meta.nowServing # 0
                          THEN [IdleStaff EXCEPT !.op = op, !.pc = "current",
                                                 !.prev = v.meta.nowServing]
                          ELSE IdleStaff)
          /\ UNCHANGED <<store, join, leave>>
    BY <1>2 DEF CurrentReadMeta
  <2>2. v.meta.nowServing \in Nat
    BY ViewType DEF ReplicaType, Metas
  <2>3. ASSUME NEW n \in Nat
        PROVE  LET q == [IdleStaff EXCEPT !.op = op, !.pc = "current", !.prev = n]
               IN  q \in StaffType /\ Aims(q)
    BY DEF Aims, IdleStaff, StaffType, StaffPcs, StaffOps
  <2>4. staff' \in [Staff -> StaffType] /\ StaffAims'
    BY <1>1, <2>1, <2>2, <2>3, StaffToType
  <2>. QED
    BY <2>1, <2>4 DEF TypeOK, store, StaffAims
<1>3. CASE CurrentReadEntry(s)
  <2>1. r.pc = "current" /\ (StaffTo(s, [r EXCEPT !.pc = r.op]) \/ StaffTo(s, IdleStaff))
    BY <1>3 DEF CurrentReadEntry
  <2>2. [r EXCEPT !.pc = r.op] \in StaffType /\ Aims([r EXCEPT !.pc = r.op])
    BY <1>1, <2>1 DEF Aims, StaffType, StaffPcs
  <2>3. staff' \in [Staff -> StaffType] /\ StaffAims'
    BY <1>1, <2>1, <2>2, StaffToType
  <2>. QED
    BY <1>3, <2>3 DEF CurrentReadEntry, TypeOK, store, StaffAims
<1>4. CASE SkipCommit(s)
  <2>1. entry' \in [Tickets -> Entries] /\ meta' \in Metas
    BY <1>1, <1>4, CurrentType DEF SkipCommit, TypeOK, EntryStates
  <2>2. staff' \in [Staff -> StaffType] /\ StaffAims'
    BY <1>1, <1>4, StaffToType DEF SkipCommit
  <2>. QED
    BY <1>4, <2>1, <2>2 DEF SkipCommit, TypeOK, StaffAims
<1>5. CASE RecallCommit(s)
  <2>1. entry' \in [Tickets -> Entries]
    BY <1>5 DEF RecallCommit, TypeOK, Entries
  <2>2. staff' \in [Staff -> StaffType] /\ StaffAims'
    BY <1>1, <1>5, StaffToType DEF RecallCommit
  <2>. QED
    BY <1>5, <2>1, <2>2 DEF RecallCommit, TypeOK, StaffAims
<1>. QED
  BY <1>2, <1>3, <1>4, <1>5 DEF CurrentStep

LEMMA SetStateStepType ==
  ASSUME TypeOK, NEW s \in Staff, SetStateStep(s)
  PROVE  TypeOK'
<1>1. IdleStaff \in StaffType /\ Aims(IdleStaff)
  BY IdleType DEF IdleStaff, Aims
<1>2. CASE \E a \in Ops : SetStateRead(s, a)
  <2>1. PICK a \in Actions :
          /\ \/ StaffTo(s, [IdleStaff EXCEPT !.pc = "set", !.op = a])
             \/ StaffTo(s, IdleStaff)
          /\ UNCHANGED <<store, join, leave>>
    BY <1>2 DEF SetStateRead
  <2>2. LET q == [IdleStaff EXCEPT !.pc = "set", !.op = a] IN q \in StaffType /\ Aims(q)
    BY DEF Aims, IdleStaff, StaffType, StaffPcs, StaffOps
  <2>3. staff' \in [Staff -> StaffType] /\ StaffAims'
    BY <1>1, <2>1, <2>2, StaffToType
  <2>. QED
    BY <2>1, <2>3 DEF TypeOK, store, StaffAims
<1>3. CASE SetStateCommit(s)
  <2>1. meta' \in Metas
    BY <1>3 DEF SetStateCommit, TypeOK, Metas, To, SetsPaused
  <2>2. counter' \in [open : BOOLEAN, lastNumber : Nat]
    <3>1. \A b \in BOOLEAN : [counter EXCEPT !.open = b] \in [open : BOOLEAN, lastNumber : Nat]
      BY DEF TypeOK
    <3>2. \A a : CounterOpen(a) \in BOOLEAN
      BY DEF CounterOpen
    <3>. QED
      BY <1>3, <3>1, <3>2 DEF SetStateCommit, TypeOK
  <2>3. staff' \in [Staff -> StaffType] /\ StaffAims'
    BY <1>1, <1>3, StaffToType DEF SetStateCommit
  <2>. QED
    BY <1>3, <2>1, <2>2, <2>3 DEF SetStateCommit, TypeOK, StaffAims
<1>. QED
  BY <1>2, <1>3 DEF SetStateStep

LEMMA StaffFailType ==
  ASSUME TypeOK, NEW s \in Staff, StaffFail(s)
  PROVE  TypeOK'
<1>1. staff' \in [Staff -> StaffType] /\ StaffAims'
  BY IdleType, StaffToType DEF StaffFail, IdleStaff, Aims
<1>. QED
  BY <1>1 DEF StaffFail, TypeOK, store, StaffAims

\* Every step keeps the type.
LEMMA NextType == TypeOK /\ [Next]_vars => TypeOK'
<1> SUFFICES ASSUME TypeOK, [Next]_vars PROVE TypeOK'
  OBVIOUS
<1>1. ASSUME NEW j \in Joins, JoinStep(j) \/ JoinFail(j) \/ LeaveStep(j)
      PROVE  TypeOK'
  BY <1>1, JoinStepType, LeaveStepType
<1>2. ASSUME NEW s \in Staff,
             CallNextStep(s) \/ CurrentStep(s) \/ SetStateStep(s) \/ StaffFail(s)
      PROVE  TypeOK'
  BY <1>2, CallNextStepType, CurrentStepType, SetStateStepType, StaffFailType
<1>3. CASE Replicate
  BY <1>3 DEF Replicate, Current, TypeOK, ReplicaType
<1>4. CASE UNCHANGED vars
  BY <1>4 DEF vars, TypeOK
<1>. QED
  BY <1>1, <1>2, <1>3, <1>4 DEF Next

\* Every item and every request has its type, whatever the requests, the bounds and
\* the lag of the reads.
THEOREM TypeCorrect == Spec => []TypeOK
BY InitType, NextType, PTL DEF Spec
===============================================================================
