----------------------------- MODULE BoardsProofs ------------------------------
(***************************************************************************)
(* What the read models keep for every queue, every number of requests and   *)
(* every limit: the order of the keys, the list and the place a customer is  *)
(* shown, that nobody is shown as served and as next, and that nobody's turn *)
(* is announced early.                                                     *)
(***************************************************************************)
EXTENDS Boards, QueueEngineSafety, TicketKeyOrder, FiniteSetTheorems

-------------------------------------------------------------------------------
\* THE ORDER OF KEYS

\* The upper bound of the range is the ticket before, and the first ticket has none.
LEMMA CountedIsBelow ==
  ASSUME NEW w \in 1..MaxPadWidth, NEW t \in Nat, t > 1, t < Pow10[w],
         NEW S \in SUBSET (Nat \ {0}), \A u \in S : u < Pow10[w]
  PROVE  CountedBefore(S, t, w) = { u \in S : u < t }
<1>1. Pow10[w] \in Nat /\ Pow10[w] >= 10
  BY WidthBound
<1>2. /\ HighBound(t) \in Nat /\ HighBound(t) < Pow10[w]
      /\ \A u \in Nat \ {0} : u <= HighBound(t) <=> u < t
  BY <1>1 DEF HighBound
<1>3. ASSUME NEW u \in S
      PROVE  (~ KeyBefore(u, 1, w) /\ ~ KeyBefore(HighBound(t), u, w)) <=> u < t
  <2>1. KeyBefore(u, 1, w) <=> u < 1
    BY <1>1, FittingKeys
  <2>2. KeyBefore(HighBound(t), u, w) <=> HighBound(t) < u
    BY <1>2, FittingKeys
  <2>. QED
    BY <1>2, <2>1, <2>2
<1>. QED
  BY <1>3 DEF CountedBefore

\* countWaitingBefore counts exactly who waits strictly before, in every state of a queue
\* whose numbers fit.
THEOREM Counted == Spec => []CountsStrictlyBefore
<1>1. CountsStrictlyBefore
  <2> SUFFICES ASSUME LastTicket < Pow10[PadWidth], NEW t \in Tickets \ {1}
               PROVE  CountedBefore(WaitingIn(entry), t, PadWidth) = { u \in WaitingIn(entry) : u < t }
    BY DEF CountsStrictlyBefore
  <2>1. /\ t \in Nat /\ t > 1 /\ t < Pow10[PadWidth]
        /\ WaitingIn(entry) \in SUBSET (Nat \ {0}) /\ \A u \in WaitingIn(entry) : u < Pow10[PadWidth]
    BY BoundsAssumption, WidthBound DEF WaitingIn, Tickets
  <2>. QED
    BY <2>1, BoundsAssumption, CountedIsBelow
<1>. QED
  BY <1>1, PTL

\* nextWaitingEntry's first item is the smallest ticket that waits past the cursor.
THEOREM Smallest == Spec => []NextIsSmallest
<1>1. NextIsSmallest
  <2> SUFFICES ASSUME LastTicket < Pow10[PadWidth], NEW cursor \in 0..LastTicket
               PROVE  LET range == KeysAfter(WaitingIn(entry), cursor, PadWidth)
                          past == { u \in WaitingIn(entry) : u > cursor }
                      IN  /\ range = past
                          /\ \A t \in past :
                               IsFirstKey(t, range, PadWidth) <=> \A u \in past : t <= u
    BY DEF NextIsSmallest
  <2> DEFINE past == { u \in WaitingIn(entry) : u > cursor }
  <2>1. cursor \in Tickets \cup {0} /\ WaitingIn(entry) \subseteq Tickets
    BY BoundsAssumption DEF Tickets, WaitingIn
  <2>2. KeysAfter(WaitingIn(entry), cursor, PadWidth) = past
    BY <2>1, FittingTickets, BoundsAssumption DEF KeysAfter, Tickets
  <2>3. ASSUME NEW t \in past
        PROVE  IsFirstKey(t, past, PadWidth) <=> \A u \in past : t <= u
    <3>1. \A u \in past : KeyBefore(t, u, PadWidth) <=> t < u
      BY <2>1, FittingTickets
    <3>2. t \in Nat /\ \A u \in past : u \in Nat
      BY <2>1, BoundsAssumption DEF Tickets
    <3>. QED
      BY <3>1, <3>2 DEF IsFirstKey
  <2>. QED
    BY <2>2, <2>3
<1>. QED
  BY <1>1, PTL

-------------------------------------------------------------------------------
\* READING CHANGES NOTHING

\* The queue beside its read models does what the queue alone does.
THEOREM ReadsAreSilent == BoardSpec => Spec
<1>1. BoardInit => Init
  BY DEF BoardInit
<1>2. [BoardNext]_boardVars => [Next]_vars
  BY DEF BoardNext, boardVars, vars, ReadStep, Ask, AskSession, ReadQueue, ReadList, ReadServing,
         Shown, ReaderTo
<1>. QED
  BY <1>1, <1>2, PTL DEF BoardSpec, Spec

\* A customer's own place is the one on the staff list, for every padWidth.
THEOREM PlacesAlwaysAgree == BoardSpec => []PlacesAgree
<1>1. TypeOK => PlacesAgree
  <2> SUFFICES ASSUME TypeOK, LastTicket < Pow10[PadWidth], NEW t \in WaitingIn(entry)
               PROVE  PeopleAhead(entry, t) = ListPosition(entry, t)
    BY Zenon DEF PlacesAgree
  <2>1. /\ WaitingIn(entry) \in SUBSET (Nat \ {0}) /\ t \in Nat \ {0}
        /\ \A u \in WaitingIn(entry) : u < Pow10[PadWidth]
    BY BoundsAssumption, WidthBound DEF WaitingIn, Tickets
  <2>2. ListPosition(entry, t) = { u \in WaitingIn(entry) : u < t }
    BY <2>1, BoundsAssumption, FittingKeys DEF ListPosition, InFrontOf
  <2>3. CASE t > 1
    BY <2>1, <2>2, <2>3, BoundsAssumption, CountedIsBelow DEF PeopleAhead
  <2>4. CASE t <= 1
    <3>1. { u \in WaitingIn(entry) : u < t } = {}
      BY <2>1, <2>4
    <3>. QED
      BY <2>2, <2>4, <3>1 DEF PeopleAhead
  <2>. QED
    BY <2>1, <2>3, <2>4
<1>. QED
  BY <1>1, ReadsAreSilent, TypeCorrect, PTL

-------------------------------------------------------------------------------
\* WHAT ONE ANSWER SHOWS

ReaderType ==
  [kind : AllKinds \cup {"none"}, pc : {"idle", "meta", "list", "serving", "done"},
   me : Nat, state : EntryStates, serving : Nat, paused : BOOLEAN,
   waiting : SUBSET Tickets, named : Nat]

\* The queue is read first: whoever it shows has been called, so that a list read later
\* does not have them among those who wait.
ReaderInv ==
  /\ reader \in ReaderType
  /\ reader.pc \in {"list", "serving", "done"} /\ reader.serving # 0
       => reader.serving \in Tickets /\ entry[reader.serving].callCount = 1
  /\ reader.kind # "session" /\ reader.pc \in {"serving", "done"}
       => reader.serving \notin reader.waiting
  /\ reader.named \in {0, reader.serving}
  /\ reader.pc # "done" => reader.named = 0

\* Who has been called stays called.
LEMMA CallsStay ==
  ASSUME TypeOK, NumbersInv, ReplicaInv, CallsInv, Kind, NEW t \in Tickets, entry[t].callCount = 1
  PROVE  entry'[t].callCount = 1
<1>1. ASSUME NEW j \in Joins, Commits(j) PROVE entry'[t].callCount = 1
  BY <1>1, CommitEffect DEF NumbersInv
<1>2. ASSUME NEW j \in Joins, Leaves(j) PROVE entry'[t].callCount = 1
  BY <1>2, LeaveEffect
<1>3. ASSUME StaffDoes PROVE entry'[t].callCount = 1
  BY <1>3 DEF StaffDoes, StaffMoves, Same, Called, Ended, CallsInv
<1>. QED
  BY <1>1, <1>2, <1>3
     DEF Kind, QuietJoin, QuietLeave, Reserves, Replicate, store, vars

LEMMA ReaderStep ==
  ASSUME EventualReads = FALSE, IInv, ReaderInv, [BoardNext]_boardVars
  PROVE  ReaderInv'
<1>1. TypeOK /\ NumbersInv /\ ReplicaInv /\ CallsInv /\ reader \in ReaderType
  BY DEF IInv, ReaderInv
<1>2. entry \in [Tickets -> Entries] /\ meta \in Metas
  BY <1>1 DEF TypeOK
<1>3. \A v \in Views : v.meta = meta /\ v.entry = entry
  BY DEF Views, Current
<1>4. CASE UNCHANGED reader /\ [Next]_vars
  <2>1. \A t \in Tickets : entry[t].callCount = 1 => entry'[t].callCount = 1
    BY <1>1, <1>4, StepKinds, CallsStay
  <2>. QED
    BY <1>4, <2>1 DEF ReaderInv
<1>5. ASSUME UNCHANGED vars, NEW q, reader' = q, q.pc \in {"idle", "meta"}, q.named = 0,
             q \in ReaderType
      PROVE  ReaderInv'
  BY <1>5 DEF ReaderInv
<1>6. NotAsked \in ReaderType /\ NotAsked.pc = "idle" /\ NotAsked.named = 0
  BY DEF NotAsked, ReaderType, EntryStates
<1>7. ASSUME NEW k \in Kinds, Ask(k) PROVE ReaderInv'
  <2>1. Begins(k) \in ReaderType /\ Begins(k).pc = "meta" /\ Begins(k).named = 0
    BY KindsAssumption DEF Begins, NotAsked, ReaderType, EntryStates
  <2>. QED
    BY <1>5, <1>7, <2>1 DEF Ask, ReaderTo
<1>8. ASSUME NEW j \in Joins, AskSession(j) PROVE ReaderInv'
  <2>1. PICK t \in Tickets :
          ReaderTo([Begins("session") EXCEPT !.me = t, !.state = entry[t].state])
    BY <1>3, <1>8 DEF AskSession
  <2>2. entry[t].state \in EntryStates /\ t \in Nat
    BY <1>2 DEF Entries, Tickets
  <2> DEFINE q == [Begins("session") EXCEPT !.me = t, !.state = entry[t].state]
  <2>3. q \in ReaderType /\ q.pc = "meta" /\ q.named = 0
    BY <2>2 DEF Begins, NotAsked, ReaderType, AllKinds, EntryStates
  <2>. QED
    BY <1>5, <2>1, <2>3 DEF ReaderTo
<1>9. CASE ReadQueue
  <2> DEFINE r == [reader EXCEPT !.serving = meta.nowServing, !.paused = meta.paused]
             next == IF Counts(r) THEN "list" ELSE ServingRead(r)
  <2>1. reader' = [r EXCEPT !.pc = next] /\ UNCHANGED vars
    BY <1>3, <1>9 DEF ReadQueue, ReaderTo
  <2>2. next \in {"list", "serving", "done"} /\ (next # "list" => reader.kind = "session")
    BY <1>1 DEF Counts, ServingRead, ReaderType
  <2>3. /\ reader' \in ReaderType /\ reader'.pc = next /\ reader'.serving = meta.nowServing
        /\ reader'.kind = reader.kind /\ reader'.named = reader.named
    BY <1>1, <1>2, <2>1, <2>2 DEF ReaderType, Metas
  <2>4. meta.nowServing # 0 => meta.nowServing \in Tickets /\ entry[meta.nowServing].callCount = 1
    BY <1>1 DEF CallsInv
  <2>5. reader.named = 0
    BY <1>9 DEF ReadQueue, ReaderInv
  <2>. QED
    BY <2>1, <2>2, <2>3, <2>4, <2>5 DEF ReaderInv, vars
<1>10. CASE ReadList
  <2> DEFINE list == Listed(reader.kind, entry, reader.me)
             next == ServingRead(reader)
  <2>1. reader' = [reader EXCEPT !.waiting = list, !.pc = next] /\ UNCHANGED vars
    BY <1>3, <1>10 DEF ReadList, ReaderTo
  <2>2. list \in SUBSET WaitingIn(entry) /\ next \in {"serving", "done"}
    BY DEF Listed, NextUp, PeopleAhead, CountedBefore, ServingRead
  <2>3. /\ reader' \in ReaderType /\ reader'.waiting = list /\ reader'.serving = reader.serving
        /\ reader'.named = reader.named
    BY <1>1, <2>1, <2>2 DEF ReaderType, WaitingIn
  <2>4. reader.serving \notin WaitingIn(entry)
    BY <1>1, <1>10 DEF ReadList, ReaderInv, WaitingIn, CallsInv, Tickets
  <2>. QED
    BY <1>10, <2>1, <2>2, <2>3, <2>4 DEF ReadList, ReaderInv, vars
<1>11. CASE ReadServing
  <2>1. PICK v \in Views :
          reader' = [reader EXCEPT !.pc = "done", !.state = reader.state,
                                   !.named = ServingOf(v, reader)] /\ UNCHANGED vars
    BY <1>11 DEF ReadServing, ReaderTo, StateOf
  <2> DEFINE named == ServingOf(v, reader)
  <2>2. named \in {0, reader.serving} /\ named \in Nat
    BY <1>1 DEF ServingOf, ReaderType
  <2> HIDE DEF named
  <2>3. /\ reader' \in ReaderType /\ reader'.named \in {0, reader.serving}
        /\ reader'.pc = "done" /\ reader'.serving = reader.serving /\ reader'.waiting = reader.waiting
        /\ reader'.kind = reader.kind
    <3>1. reader' = [[reader EXCEPT !.pc = "done"] EXCEPT !.named = named]
      BY <1>1, <2>1 DEF ReaderType, named
    <3>2. [reader EXCEPT !.pc = "done"] \in ReaderType
      BY <1>1 DEF ReaderType
    <3>. QED
      BY <1>1, <2>2, <3>1, <3>2 DEF ReaderType
  <2>. QED
    BY <1>11, <2>1, <2>3 DEF ReadServing, ReaderInv, vars
<1>12. CASE Shown
  BY <1>5, <1>6, <1>12 DEF Shown, ReaderTo
<1>. QED
  BY <1>4, <1>7, <1>8, <1>9, <1>10, <1>11, <1>12 DEF BoardNext, ReadStep, boardVars

\* With consistent reads no answer shows one customer as served and as waiting, however
\* many consoles call and whatever the joins do between two reads.
THEOREM ServedNeverNext ==
  ASSUME EventualReads = FALSE
  PROVE  BoardSpec => []ServedIsNotNext
<1>1. BoardInit => ReaderInv
  BY DEF BoardInit, ReaderInv, NotAsked, ReaderType, EntryStates
<1>2. IInv /\ ReaderInv /\ [BoardNext]_boardVars => ReaderInv'
  BY ReaderStep
<1>3. ReaderInv => ServedIsNotNext
  <2> SUFFICES ASSUME ReaderInv, reader.kind \in {"public", "display", "staff"},
                      reader.pc = "done"
               PROVE  reader.named \notin reader.waiting
    BY DEF ServedIsNotNext
  <2>1. reader.serving \notin reader.waiting /\ 0 \notin reader.waiting
    BY DEF ReaderInv, ReaderType, Tickets
  <2>. QED
    BY <2>1 DEF ReaderInv
<1>. QED
  BY <1>1, <1>2, <1>3, ReadsAreSilent, Invariant, PTL DEF BoardSpec

-------------------------------------------------------------------------------
\* THE TURN OF A CUSTOMER WHO IS TOLD TO COME

\* Who read that they are called is no further than the cursor's next ticket, which is the
\* one the board shows, if any: the queue is read after the entry, and the cursor rises.
TurnInv ==
  reader.state = "CALLED" =>
    /\ reader.me <= meta.lastServed + 1
    /\ reader.pc \in {"list", "serving", "done"} /\ reader.serving # 0
         => reader.serving >= reader.me

LEMMA TurnStep ==
  ASSUME EventualReads = FALSE, NEW s, Staff = {s}, LastTicket < Pow10[PadWidth],
         IInv, SoloInv, AheadInv, ReaderInv, TurnInv, [BoardNext]_boardVars
  PROVE  TurnInv'
<1>1. TypeOK /\ CallsInv /\ reader \in ReaderType /\ BoardAhead
  BY DEF IInv, ReaderInv, AheadInv
<1>2. /\ entry \in [Tickets -> Entries] /\ meta.lastServed \in Nat
      /\ reader.me \in Nat /\ reader.serving \in Nat
  BY <1>1 DEF TypeOK, Metas, ReaderType
<1>3. \A v \in Views : v.meta = meta /\ v.entry = entry
  BY DEF Views, Current
<1>4. CASE UNCHANGED reader /\ [Next]_vars
  <2>1. meta'.lastServed >= meta.lastServed
    BY <1>1, <1>4, AheadNext DEF CursorRises
  <2>2. TypeOK'
    BY <1>4, NextInv DEF IInv
  <2>3. meta'.lastServed \in Nat
    BY <2>2 DEF TypeOK, Metas
  <2>. QED
    BY <1>2, <1>4, <2>1, <2>3 DEF TurnInv
<1>5. ASSUME reader' = NotAsked PROVE TurnInv'
  BY <1>5 DEF TurnInv, NotAsked
<1>6. ASSUME NEW k \in Kinds, Ask(k) PROVE TurnInv'
  <2>1. reader'.state = "NONE"
    BY <1>6 DEF Ask, ReaderTo, Begins, NotAsked
  <2>. QED
    BY <2>1 DEF TurnInv
<1>7. ASSUME NEW j \in Joins, AskSession(j) PROVE TurnInv'
  <2>1. PICK t \in Tickets :
          ReaderTo([Begins("session") EXCEPT !.me = t, !.state = entry[t].state])
    BY <1>3, <1>7 DEF AskSession
  <2>2. reader'.me = t /\ reader'.state = entry[t].state /\ reader'.pc = "meta" /\ meta' = meta
    BY <2>1 DEF ReaderTo, Begins, NotAsked, vars
  <2>3. entry[t].state = "CALLED" => t <= meta.lastServed + 1
    BY <1>1 DEF BoardAhead
  <2>. QED
    BY <2>2, <2>3 DEF TurnInv
<1>8. CASE ReadQueue
  <2> DEFINE r == [reader EXCEPT !.serving = meta.nowServing, !.paused = meta.paused]
             next == IF Counts(r) THEN "list" ELSE ServingRead(r)
  <2>1. reader' = [r EXCEPT !.pc = next] /\ meta' = meta
    BY <1>3, <1>8 DEF ReadQueue, ReaderTo, vars
  <2>2. reader'.serving = meta.nowServing /\ reader'.me = reader.me /\ reader'.state = reader.state
    BY <1>1, <2>1 DEF ReaderType
  <2>3. meta.nowServing # 0 => meta.nowServing = meta.lastServed + 1
    BY <1>1 DEF BoardAhead
  <2>. QED
    BY <1>2, <2>1, <2>2, <2>3 DEF TurnInv
<1>9. CASE ReadList
  <2>1. /\ reader'.serving = reader.serving /\ reader'.me = reader.me
        /\ reader'.state = reader.state /\ meta' = meta
    BY <1>1, <1>9 DEF ReadList, ReaderTo, ReaderType, vars
  <2>2. reader.pc = "list"
    BY <1>9 DEF ReadList
  <2>. QED
    BY <2>1, <2>2 DEF TurnInv
<1>10. CASE ReadServing
  <2>1. /\ reader'.serving = reader.serving /\ reader'.me = reader.me
        /\ reader'.state = reader.state /\ meta' = meta
    BY <1>1, <1>10 DEF ReadServing, ReaderTo, ReaderType, StateOf, vars
  <2>2. reader.pc = "serving"
    BY <1>10 DEF ReadServing
  <2>. QED
    BY <2>1, <2>2 DEF TurnInv
<1>11. CASE Shown
  BY <1>5, <1>11 DEF Shown, ReaderTo
<1>. QED
  BY <1>4, <1>6, <1>7, <1>8, <1>9, <1>10, <1>11 DEF BoardNext, ReadStep, boardVars

\* With one console, consistent reads and numbers that fit, a customer who is told it is
\* their turn is not shown somebody before them at the counter.
THEOREM TurnNotEarly ==
  ASSUME EventualReads = FALSE, NEW s, Staff = {s}, LastTicket < Pow10[PadWidth]
  PROVE  BoardSpec => []TurnIsNotEarly
<1>1. BoardInit => ReaderInv /\ TurnInv
  BY DEF BoardInit, ReaderInv, NotAsked, ReaderType, EntryStates, TurnInv
<1>2. IInv /\ ReaderInv /\ [BoardNext]_boardVars => ReaderInv'
  BY ReaderStep
<1>3. IInv /\ SoloInv /\ AheadInv /\ ReaderInv /\ TurnInv /\ [BoardNext]_boardVars => TurnInv'
  BY TurnStep
<1>4. ReaderInv /\ TurnInv => TurnIsNotEarly
  BY DEF ReaderInv, ReaderType, TurnInv, TurnIsNotEarly
<1>5. Spec => [](IInv /\ SoloInv /\ AheadInv)
  BY ConsoleInvariant
<1>. QED
  BY <1>1, <1>2, <1>3, <1>4, <1>5, ReadsAreSilent, PTL DEF BoardSpec

-------------------------------------------------------------------------------
\* THE LIMIT OF THE DISPLAY'S QUERY

\* An item is not in front of itself, so that fewer items than there are come before it.
LEMMA FewerInFront ==
  ASSUME NEW S, IsFiniteSet(S), S \subseteq Tickets, NEW t \in S
  PROVE  Cardinality(InFrontOf(t, S)) \in Nat /\ Cardinality(InFrontOf(t, S)) < Cardinality(S)
<1>1. t \in Nat /\ t < 1000000
  <2>1. t \in Nat /\ t <= LastTicket
    BY BoundsAssumption DEF Tickets
  <2>2. LastTicket \in Nat /\ LastTicket <= 999999
    BY BoundsAssumption DEF MaxNumber
  <2>. QED
    BY <2>1, <2>2
<1>2. KeyLength(t, PadWidth) \in Nat
  <2> DEFINE Least(d) == t < Pow10[d] /\ \A e \in 1..7 : t < Pow10[e] => d <= e
  <2>1. \E d \in 1..7 : Least(d)
    <3>1. /\ Pow10[1] = 10 /\ Pow10[2] = 100 /\ Pow10[3] = 1000 /\ Pow10[4] = 10000
          /\ Pow10[5] = 100000 /\ Pow10[6] = 1000000
      BY SMT DEF Pow10
    <3>2. Least(1) \/ Least(2) \/ Least(3) \/ Least(4) \/ Least(5) \/ Least(6)
      BY <1>1, <3>1, SMT
    <3>. QED
      BY <3>2, SMT
  <2>2. Digits(t) \in 1..7
    BY <2>1, SMT DEF Digits
  <2>. QED
    BY <2>2, BoundsAssumption, SMT DEF KeyLength, MaxPadWidth
<1>3. ~ KeyBefore(t, t, PadWidth)
  BY <1>1, <1>2, SMT DEF KeyBefore
<1>4. InFrontOf(t, S) \in SUBSET (S \ {t})
  BY <1>3 DEF InFrontOf
<1>5. IsFiniteSet(S \ {t}) /\ Cardinality(S \ {t}) = Cardinality(S) - 1
  BY FS_RemoveElement
<1>6. Cardinality(InFrontOf(t, S)) \in Nat /\ Cardinality(InFrontOf(t, S)) <= Cardinality(S \ {t})
  BY <1>4, <1>5, FS_Subset, FS_CardinalityType
<1>7. Cardinality(S) \in Nat
  BY FS_CardinalityType
<1>. QED
  BY <1>5, <1>6, <1>7

\* With consistent reads the display shows everybody who waits until the items its query
\* counts exceed the limit, for every limit.
THEOREM NextUpComplete ==
  ASSUME EventualReads = FALSE, IsFiniteSet(Identities)
  PROVE  BoardSpec => NextUpIsComplete
<1>1. ASSUME TypeOK, [BoardNext]_boardVars, reader.kind = "display", reader.pc = "list",
             reader'.pc # "list",
             1 + GuardItems(entry) + Cardinality(Stored(entry)) <= DisplayLimit
      PROVE  reader'.waiting = WaitingIn(entry)
  <2>1. ReadList
    BY <1>1 DEF BoardNext, ReadStep, Ask, AskSession, ReadQueue, ReadServing, Shown, boardVars
  <2>2. reader'.waiting = NextUp(entry)
    BY <1>1, <2>1 DEF ReadList, ReaderTo, Views, Current, Listed
  <2>3. IsFiniteSet(Stored(entry)) /\ Stored(entry) \subseteq Tickets
    <3>1. IsFiniteSet(Tickets)
      BY BoundsAssumption, FS_Interval DEF Tickets
    <3>. QED
      BY <3>1, FS_Subset DEF Stored
  <2>4. GuardItems(entry) \in Nat /\ Cardinality(Stored(entry)) \in Nat
    <3>1. Cardinality(guards) \in Nat /\ Cardinality(Stored(entry)) \in Nat
      BY <1>1, <2>3, FS_Subset, FS_CardinalityType DEF TypeOK
    <3>2. Cardinality(TokenGuards(entry)) \in Nat
      BY <2>3, FS_Subset, FS_CardinalityType DEF TokenGuards
    <3>. QED
      BY <3>1, <3>2 DEF GuardItems
  <2>5. Stored(entry) \subseteq Reached(entry)
    <3> SUFFICES ASSUME NEW t \in Stored(entry) PROVE t \in Reached(entry)
      OBVIOUS
    <3>1. /\ Cardinality(InFrontOf(t, Stored(entry))) \in Nat
          /\ Cardinality(InFrontOf(t, Stored(entry))) < Cardinality(Stored(entry))
      BY <2>3, FewerInFront
    <3>. QED
      BY <1>1, <2>4, <3>1, ReadsAssumption DEF Reached
  <2>6. WaitingIn(entry) \subseteq Stored(entry)
    BY DEF WaitingIn, Stored
  <2>. QED
    BY <2>2, <2>5, <2>6 DEF NextUp
<1>2. TypeOK /\ [BoardNext]_boardVars
        => [/\ reader.kind = "display" /\ reader.pc = "list" /\ reader'.pc # "list"
            /\ 1 + GuardItems(entry) + Cardinality(Stored(entry)) <= DisplayLimit
            => reader'.waiting = WaitingIn(entry)]_boardVars
  BY <1>1
<1>. QED
  BY <1>2, ReadsAreSilent, TypeCorrect, PTL DEF BoardSpec, NextUpIsComplete

-------------------------------------------------------------------------------
\* THE KEYS AS STRINGS
\*
\* No ticket has more than six digits.  A key of fewer is compared as the number of six
\* digits that begins with it.

Six(k) == k \in Nat /\ k < 1000000

LEMMA Powers ==
  /\ Ten(0) = 1 /\ Ten(1) = 10 /\ Ten(2) = 100 /\ Ten(3) = 1000
  /\ Ten(4) = 10000 /\ Ten(5) = 100000 /\ Ten(6) = 1000000 /\ Ten(7) = 10000000
  /\ \A d \in 1..7 : Pow10[d] = Ten(d)
BY SMT DEF Ten, Pow10

LEMMA TenType ==
  ASSUME NEW j \in 0..7
  PROVE  Ten(j) \in Nat \ {0}
<1>1. j \in {0, 1, 2, 3, 4, 5, 6, 7}
  BY SMT
<1>. QED
  BY <1>1, Powers, SMT

LEMMA Division ==
  ASSUME NEW k \in Nat
  PROVE  k = 10 * (k \div 10) + (k % 10) /\ k % 10 \in 0..9 /\ k \div 10 \in Nat
BY SMTT(30)

\* Dividing by ten once more takes one digit off.
LEMMA OneDigitOff ==
  ASSUME NEW k \in Nat, NEW j \in 0..5
  PROVE  /\ k \div Ten(j) \in Nat /\ Digit(k, j) \in 0..9
         /\ k \div Ten(j) = 10 * (k \div Ten(j + 1)) + Digit(k, j)
<1>1. k \div Ten(j) \in Nat /\ k \div Ten(j + 1) = (k \div Ten(j)) \div 10
  <2>1. CASE j = 0
    BY <2>1, Powers, SMT
  <2>2. CASE j = 1
    BY <2>2, Powers, SMT
  <2>3. CASE j = 2
    BY <2>3, Powers, SMT
  <2>4. CASE j = 3
    BY <2>4, Powers, SMT
  <2>5. CASE j = 4
    BY <2>5, Powers, SMT
  <2>6. CASE j = 5
    BY <2>6, Powers, SMT
  <2>. QED
    BY <2>1, <2>2, <2>3, <2>4, <2>5, <2>6, SMT
<1>. DEFINE q == k \div Ten(j)
<1>2. Digit(k, j) = q % 10 /\ q \in Nat /\ k \div Ten(j + 1) = q \div 10
  BY <1>1 DEF Digit
<1>. HIDE DEF q
<1>3. q = 10 * (q \div 10) + (q % 10) /\ q % 10 \in 0..9
  BY <1>2, Division
<1>. QED
  BY <1>1, <1>2, <1>3 DEF q

\* Numbers are ordered by what is left without the last digit, and then by that.
LEMMA LastDigit ==
  ASSUME NEW a \in Nat, NEW b \in Nat, NEW p \in Nat, NEW q \in Nat, NEW r \in 0..9, NEW s \in 0..9,
         a = 10 * p + r, b = 10 * q + s
  PROVE  /\ a < b <=> p < q \/ (p = q /\ r < s)
         /\ a = b <=> p = q /\ r = s
BY SMT

\* The first places of two numbers of six digits, and the order they give.
SameUpTo(a, b, i) == \A j \in 1..i : Digit(a, 6 - j) = Digit(b, 6 - j)
FirstLess(a, b, i) == SameUpTo(a, b, i - 1) /\ Digit(a, 6 - i) < Digit(b, 6 - i)

LEMMA Heads ==
  ASSUME NEW a, NEW b, Six(a), Six(b), NEW i \in 0..5
  PROVE  LET p == a \div Ten(6 - i)  q == b \div Ten(6 - i)
             x == a \div Ten(5 - i)  y == b \div Ten(5 - i)
         IN  /\ x < y <=> p < q \/ (p = q /\ Digit(a, 5 - i) < Digit(b, 5 - i))
             /\ x = y <=> p = q /\ Digit(a, 5 - i) = Digit(b, 5 - i)
<1>. DEFINE p == a \div Ten(6 - i)
            q == b \div Ten(6 - i)
            x == a \div Ten(5 - i)
            y == b \div Ten(5 - i)
            r == Digit(a, 5 - i)
            s == Digit(b, 5 - i)
<1>1. a \in Nat /\ b \in Nat /\ 5 - i \in 0..5 /\ (5 - i) + 1 = 6 - i
  BY SMT DEF Six
<1>2. /\ x \in Nat /\ r \in 0..9 /\ x = 10 * p + r
      /\ y \in Nat /\ s \in 0..9 /\ y = 10 * q + s
  <2>1. x \in Nat /\ r \in 0..9 /\ x = 10 * (a \div Ten((5 - i) + 1)) + r
    BY <1>1, OneDigitOff
  <2>2. y \in Nat /\ s \in 0..9 /\ y = 10 * (b \div Ten((5 - i) + 1)) + s
    BY <1>1, OneDigitOff
  <2>. QED
    BY <1>1, <2>1, <2>2
<1>3. p \in Nat /\ q \in Nat
  <2>1. CASE i = 0
    BY <1>1, <2>1, Powers, SMT DEF Six
  <2>2. CASE i # 0
    <3>1. 6 - i \in 0..5
      BY <2>2, SMT
    <3>. QED
      BY <1>1, <3>1, OneDigitOff
  <2>. QED
    BY <2>1, <2>2
<1>. HIDE DEF p, q, x, y, r, s
<1>4. /\ x < y <=> p < q \/ (p = q /\ r < s)
      /\ x = y <=> p = q /\ r = s
  BY <1>2, <1>3, LastDigit
<1>. QED
  BY <1>4 DEF p, q, x, y, r, s

\* Two numbers are equal in all six places, or the first one in which they are not decides.
LEMMA SixPlaces ==
  ASSUME NEW a, NEW b, Six(a), Six(b)
  PROVE  /\ a < b <=> \E i \in 1..6 : FirstLess(a, b, i)
         /\ a = b <=> SameUpTo(a, b, 6)
<1>. DEFINE Decided(i) == /\ a \div Ten(6 - i) < b \div Ten(6 - i) <=> \E k \in 1..i : FirstLess(a, b, k)
                          /\ a \div Ten(6 - i) = b \div Ten(6 - i) <=> SameUpTo(a, b, i)
<1>1. Decided(0)
  BY Powers, SMT DEF Six, SameUpTo
<1>2. ASSUME NEW i \in 0..5, Decided(i)
      PROVE  Decided(i + 1)
  <2>1. 6 - (i + 1) = 5 - i /\ (i + 1) - 1 = i /\ i + 1 \in Nat
    BY SMT
  <2>. DEFINE p == a \div Ten(6 - i)
              q == b \div Ten(6 - i)
              x == a \div Ten(5 - i)
              y == b \div Ten(5 - i)
              r == Digit(a, 5 - i)
              s == Digit(b, 5 - i)
  <2>2. /\ x < y <=> p < q \/ (p = q /\ r < s)
        /\ x = y <=> p = q /\ r = s
    BY Heads
  <2>3. FirstLess(a, b, i + 1) <=> SameUpTo(a, b, i) /\ r < s
    BY <2>1 DEF FirstLess
  <2>4. \A k : k \in 1..(i + 1) <=> k \in 1..i \/ k = i + 1
    BY SMT
  <2>5. SameUpTo(a, b, i + 1) <=> SameUpTo(a, b, i) /\ r = s
    BY <2>1, <2>4, Zenon DEF SameUpTo
  <2>6. (\E k \in 1..(i + 1) : FirstLess(a, b, k))
          <=> (\E k \in 1..i : FirstLess(a, b, k)) \/ FirstLess(a, b, i + 1)
    BY <2>4, Zenon
  <2>7. /\ p < q <=> \E k \in 1..i : FirstLess(a, b, k)
        /\ p = q <=> SameUpTo(a, b, i)
    BY <1>2
  <2>8. /\ x < y <=> \E k \in 1..(i + 1) : FirstLess(a, b, k)
        /\ x = y <=> SameUpTo(a, b, i + 1)
    <3>. HIDE DEF p, q, x, y, r, s
    <3>. QED
      BY <2>2, <2>3, <2>5, <2>6, <2>7, Zenon
  <2>. QED
    BY <2>1, <2>8, Zenon
<1>3. Decided(6)
  <2>. HIDE DEF Decided
  <2>1. Decided(1)
    BY <1>1, <1>2, 0 + 1 = 1, 0 \in 0..5
  <2>2. Decided(2)
    BY <1>2, <2>1, 1 + 1 = 2, 1 \in 0..5
  <2>3. Decided(3)
    BY <1>2, <2>2, 2 + 1 = 3, 2 \in 0..5
  <2>4. Decided(4)
    BY <1>2, <2>3, 3 + 1 = 4, 3 \in 0..5
  <2>5. Decided(5)
    BY <1>2, <2>4, 4 + 1 = 5, 4 \in 0..5
  <2>. QED
    BY <1>2, <2>5, 5 + 1 = 6, 5 \in 0..5
<1>4. a \div Ten(6 - 6) = a /\ b \div Ten(6 - 6) = b
  BY Powers, SMT DEF Six
<1>. QED
  BY <1>3, <1>4, Zenon

\* A larger power is a larger number.
LEMMA PowersGrow ==
  ASSUME NEW d \in 0..7, NEW e \in 0..7, d <= e
  PROVE  Ten(d) <= Ten(e)
<1>1. d \in {0, 1, 2, 3, 4, 5, 6, 7} /\ e \in {0, 1, 2, 3, 4, 5, 6, 7}
  BY SMT
<1>. QED
  BY <1>1, Powers, SMT

\* The number of digits, told by the powers between which the number lies.
LEMMA CountOfDigits ==
  ASSUME NEW k, Six(k)
  PROVE  /\ DigitCount(k) \in 1..6 /\ Digits(k) = DigitCount(k)
         /\ k < Ten(DigitCount(k)) /\ (DigitCount(k) > 1 => k >= Ten(DigitCount(k) - 1))
<1>. DEFINE Fits(d) == k < Ten(d) /\ (d > 1 => k >= Ten(d - 1))
<1>1. \E d \in 1..6 : Fits(d)
  <2>1. \/ k < 10 \/ (k >= 10 /\ k < 100) \/ (k >= 100 /\ k < 1000)
        \/ (k >= 1000 /\ k < 10000) \/ (k >= 10000 /\ k < 100000)
        \/ (k >= 100000 /\ k < 1000000)
    BY SMT DEF Six
  <2>2. /\ 2 - 1 = 1 /\ 3 - 1 = 2 /\ 4 - 1 = 3 /\ 5 - 1 = 4 /\ 6 - 1 = 5
    BY SMT
  <2>3. Fits(1) \/ Fits(2) \/ Fits(3) \/ Fits(4) \/ Fits(5) \/ Fits(6)
    BY <2>1, <2>2, Powers, SMT
  <2>. HIDE DEF Fits
  <2>. QED
    BY <2>3, SMT
<1>2. PICK d \in 1..6 : Fits(d)
  BY <1>1
<1>3. \A e \in 1..7 : k < Ten(e) <=> d <= e
  <2>1. ASSUME NEW e \in 1..7
        PROVE  k < Ten(e) <=> d <= e
    <3>1. k \in Nat /\ Ten(d) \in Nat /\ Ten(e) \in Nat
      BY TenType, SMT DEF Six
    <3>2. CASE d <= e
      <4>1. Ten(d) <= Ten(e)
        BY <3>2, PowersGrow, SMT
      <4>. QED
        BY <1>2, <3>1, <3>2, <4>1, SMT
    <3>3. CASE ~ (d <= e)
      <4>1. d > 1 /\ d - 1 \in 0..7 /\ e \in 0..7 /\ e <= d - 1
        BY <3>3, SMT
      <4>2. Ten(e) <= Ten(d - 1) /\ Ten(d - 1) \in Nat
        BY <4>1, PowersGrow, TenType
      <4>. QED
        BY <1>2, <3>1, <3>3, <4>1, <4>2, SMT
    <3>. QED
      BY <3>2, <3>3
  <2>. QED
    BY <2>1
<1>4. ASSUME NEW e \in 1..7, Fits(e)
      PROVE  e = d
  <2>1. d <= e
    BY <1>3, <1>4
  <2>2. CASE e > 1
    <3>1. e - 1 \in 1..7 /\ k \in Nat /\ Ten(e - 1) \in Nat
      BY <2>2, TenType, SMT DEF Six
    <3>2. ~ (d <= e - 1)
      BY <1>3, <1>4, <2>2, <3>1, SMT
    <3>. QED
      BY <2>1, <3>1, <3>2, SMT
  <2>. QED
    BY <2>1, <2>2, SMT
<1>5. DigitCount(k) = d
  <2>1. DigitCount(k) = CHOOSE e \in 1..7 : Fits(e)
    BY DEF DigitCount
  <2>2. d \in 1..7
    BY SMT
  <2>. HIDE DEF Fits
  <2>. QED
    BY <1>2, <1>4, <2>1, <2>2, Zenon
<1>6. Digits(k) = d
  <2>. DEFINE Least(e) == k < Pow10[e] /\ \A f \in 1..7 : k < Pow10[f] => e <= f
  <2>1. Digits(k) = CHOOSE e \in 1..7 : Least(e)
    BY DEF Digits
  <2>2. \A e \in 1..7 : Least(e) <=> d <= e /\ \A f \in 1..7 : d <= f => e <= f
    <3>1. \A e \in 1..7 : Pow10[e] = Ten(e)
      BY Powers, SMT
    <3>2. \A e \in 1..7 : k < Pow10[e] <=> d <= e
      BY <1>3, <3>1, Zenon
    <3>. QED
      BY <3>2, Zenon
  <2>3. d \in 1..7 /\ \A e \in 1..7 : (d <= e /\ \A f \in 1..7 : d <= f => e <= f) <=> e = d
    BY SMT
  <2>. HIDE DEF Least
  <2>4. \A e \in 1..7 : Least(e) <=> e = d
    BY <2>2, <2>3, Zenon
  <2>. QED
    BY <2>1, <2>3, <2>4, Zenon
<1>. QED
  BY <1>2, <1>5, <1>6

\* A number has no digit but zero beyond its own.
LEMMA ZerosInFront ==
  ASSUME NEW k, Six(k), NEW j \in 0..5, k < Ten(j)
  PROVE  Digit(k, j) = 0
<1>1. k \div Ten(j) = 0
  <2>1. CASE j = 0
    BY <2>1, Powers, SMT DEF Six
  <2>2. CASE j = 1
    BY <2>2, Powers, SMT DEF Six
  <2>3. CASE j = 2
    BY <2>3, Powers, SMT DEF Six
  <2>4. CASE j = 3
    BY <2>4, Powers, SMT DEF Six
  <2>5. CASE j = 4
    BY <2>5, Powers, SMT DEF Six
  <2>6. CASE j = 5
    BY <2>6, Powers, SMT DEF Six
  <2>. QED
    BY <2>1, <2>2, <2>3, <2>4, <2>5, <2>6, SMT
<1>. QED
  BY <1>1, SMT DEF Digit

\* The key of a number: KeyLength places, the digits of the number with zeros in front.
LEMMA KeyString ==
  ASSUME NEW k, Six(k), NEW w \in 1..6
  PROVE  LET length == KeyLength(k, w)
         IN  /\ length \in 1..6 /\ k < Ten(length)
             /\ PadString(k, w) = [i \in 1..length |-> Digit(k, length - i)]
<1>. DEFINE count == DigitCount(k)
            length == IF count < w THEN w ELSE count
<1>1. /\ count \in 1..6 /\ Digits(k) = count
      /\ k < Ten(count) /\ (count > 1 => k >= Ten(count - 1)) /\ k \in Nat
  BY CountOfDigits DEF Six
<1>. HIDE DEF count
<1>2. k < Pow10[w] <=> count <= w
  <2>1. Pow10[w] = Ten(w) /\ Ten(w) \in Nat
    BY Powers, TenType, SMT
  <2>2. CASE count <= w
    <3>1. Ten(count) <= Ten(w) /\ Ten(count) \in Nat
      BY <1>1, <2>2, PowersGrow, TenType, SMT
    <3>. QED
      BY <1>1, <2>1, <2>2, <3>1, SMT
  <2>3. CASE ~ (count <= w)
    <3>1. count > 1 /\ w <= count - 1 /\ count - 1 \in 0..7 /\ w \in 0..7
      BY <1>1, <2>3, SMT
    <3>2. Ten(w) <= Ten(count - 1) /\ Ten(count - 1) \in Nat
      BY <3>1, PowersGrow, TenType
    <3>. QED
      BY <1>1, <2>1, <2>3, <3>1, <3>2, SMT
  <2>. QED
    BY <2>2, <2>3
<1>3. length = KeyLength(k, w)
  BY <1>1, <1>2, SMT DEF KeyLength
<1>4. length \in 1..6 /\ count <= length
  BY <1>1, SMT
<1>5. k < Ten(length)
  <2>1. Ten(count) <= Ten(length) /\ Ten(count) \in Nat /\ Ten(length) \in Nat
    BY <1>1, <1>4, PowersGrow, TenType, SMT
  <2>. QED
    BY <1>1, <2>1, SMT
<1>6. PadString(k, w) = [i \in 1..length |-> IF i <= length - count THEN 0 ELSE Digit(k, length - i)]
  BY DEF PadString, count
<1>. HIDE DEF length
<1>7. ASSUME NEW i \in 1..length, i <= length - count
      PROVE  Digit(k, length - i) = 0
  <2>1. length - i \in 0..5 /\ count <= length - i
    BY <1>1, <1>4, <1>7, SMT
  <2>2. Ten(count) <= Ten(length - i) /\ Ten(count) \in Nat /\ Ten(length - i) \in Nat
    BY <1>1, <2>1, PowersGrow, TenType, SMT
  <2>3. k < Ten(length - i)
    BY <1>1, <2>2, SMT
  <2>. QED
    BY <2>1, <2>3, ZerosInFront
<1>8. PadString(k, w) = [i \in 1..length |-> Digit(k, length - i)]
  BY <1>6, <1>7
<1>. QED
  BY <1>3, <1>4, <1>5, <1>8

\* Multiplying by ten puts a zero behind the digits.
LEMMA OneZeroOn ==
  ASSUME NEW k \in Nat
  PROVE  /\ Digit(10 * k, 0) = 0
         /\ \A j \in 0..4 : Digit(10 * k, j + 1) = Digit(k, j)
<1>1. Digit(10 * k, 0) = 0
  BY Powers, SMT DEF Digit
<1>2. ASSUME NEW j \in 0..4
      PROVE  (10 * k) \div Ten(j + 1) = k \div Ten(j)
  <2>1. CASE j = 0
    BY <2>1, Powers, SMT
  <2>2. CASE j = 1
    BY <2>2, Powers, SMT
  <2>3. CASE j = 2
    BY <2>3, Powers, SMT
  <2>4. CASE j = 3
    BY <2>4, Powers, SMT
  <2>5. CASE j = 4
    BY <2>5, Powers, SMT
  <2>. QED
    BY <2>1, <2>2, <2>3, <2>4, <2>5, SMT
<1>. QED
  BY <1>1, <1>2 DEF Digit

\* The number of six digits that begins with the key of length digits.
Full(k, length) == k * Ten(6 - length)

\* Appending e zeros to d zeros.
LEMMA ZerosAdd ==
  ASSUME NEW k \in Nat, NEW d \in 0..5, NEW e \in 0..5, d + e <= 5
  PROVE  (k * Ten(d)) * Ten(e) = k * Ten(d + e)
<1>1. CASE d = 0
  <2>1. k * Ten(d) = k /\ d + e = e
    BY <1>1, Powers, SMT
  <2>. QED
    BY <2>1, SMT
<1>2. CASE d = 1
  <2>1. e \in {0, 1, 2, 3, 4} /\ d + e = e + 1
    BY <1>2, SMT
  <2>. QED
    BY <1>2, <2>1, Powers, SMT
<1>3. CASE d = 2
  <2>1. e \in {0, 1, 2, 3} /\ d + e = e + 2
    BY <1>3, SMT
  <2>. QED
    BY <1>3, <2>1, Powers, SMT
<1>4. CASE d = 3
  <2>1. e \in {0, 1, 2} /\ d + e = e + 3
    BY <1>4, SMT
  <2>. QED
    BY <1>4, <2>1, Powers, SMT
<1>5. CASE d = 4
  <2>1. e \in {0, 1} /\ d + e = e + 4
    BY <1>5, SMT
  <2>. QED
    BY <1>5, <2>1, Powers, SMT
<1>6. CASE d = 5
  <2>1. e = 0 /\ d + e = 5
    BY <1>6, SMT
  <2>. QED
    BY <1>6, <2>1, Powers, SMT
<1>. QED
  BY <1>1, <1>2, <1>3, <1>4, <1>5, <1>6, SMT

\* The same zeros behind two numbers do not change their order.
LEMMA ZerosKeepOrder ==
  ASSUME NEW a \in Nat, NEW b \in Nat, NEW d \in 0..5
  PROVE  /\ a * Ten(d) \in Nat /\ b * Ten(d) \in Nat
         /\ a < b <=> a * Ten(d) < b * Ten(d)
         /\ a <= b <=> a * Ten(d) <= b * Ten(d)
<1>1. d \in {0, 1, 2, 3, 4, 5}
  BY SMT
<1>. QED
  BY <1>1, Powers, SMT

\* A key with zeros behind it has six digits: its own, and zeros.
LEMMA FullDigits ==
  ASSUME NEW k \in Nat, NEW length \in 1..6, k < Ten(length)
  PROVE  /\ Six(Full(k, length))
         /\ \A i \in 1..6 : Digit(Full(k, length), 6 - i) =
                              IF i <= length THEN Digit(k, length - i) ELSE 0
<1>1. Six(Full(k, length))
  <2>1. length \in {1, 2, 3, 4, 5, 6}
    BY SMT
  <2>2. 6 - 1 = 5 /\ 6 - 2 = 4 /\ 6 - 3 = 3 /\ 6 - 4 = 2 /\ 6 - 5 = 1 /\ 6 - 6 = 0
    BY SMT
  <2>. QED
    BY <2>1, <2>2, Powers, SMT DEF Six, Full
<1>. DEFINE Behind(d) == \A j \in 0..5 : Digit(k * Ten(d), j) = IF j >= d THEN Digit(k, j - d) ELSE 0
<1>2. Behind(0)
  <2>1. k * Ten(0) = k
    BY Powers, SMT
  <2>. QED
    BY <2>1
<1>3. ASSUME NEW d \in 0..4, Behind(d)
      PROVE  Behind(d + 1)
  <2>1. k * Ten(d) \in Nat /\ k * Ten(d + 1) = 10 * (k * Ten(d))
    <3>1. d \in {0, 1, 2, 3, 4}
      BY SMT
    <3>2. 0 + 1 = 1 /\ 1 + 1 = 2 /\ 2 + 1 = 3 /\ 3 + 1 = 4 /\ 4 + 1 = 5
      BY SMT
    <3>. QED
      BY <3>1, <3>2, Powers, SMT
  <2>2. Digit(k * Ten(d + 1), 0) = 0
    BY <2>1, OneZeroOn
  <2>3. ASSUME NEW j \in 1..5
        PROVE  Digit(k * Ten(d + 1), j) = IF j >= d + 1 THEN Digit(k, j - (d + 1)) ELSE 0
    <3>1. j - 1 \in 0..4 /\ (j - 1) + 1 = j /\ j - 1 \in 0..5 /\ (j - 1) - d = j - (d + 1)
          /\ (j - 1 >= d <=> j >= d + 1)
      BY SMT
    <3>2. Digit(k * Ten(d + 1), j) = Digit(k * Ten(d), j - 1)
      <4>1. \A i \in 0..4 : Digit(10 * (k * Ten(d)), i + 1) = Digit(k * Ten(d), i)
        BY <2>1, OneZeroOn
      <4>. QED
        BY <2>1, <3>1, <4>1
    <3>. QED
      BY <1>3, <3>1, <3>2
  <2>4. \A j \in 0..5 : j = 0 \/ j \in 1..5
    BY SMT
  <2>5. ~ (0 >= d + 1)
    BY SMT
  <2>. QED
    BY <2>2, <2>3, <2>4, <2>5
<1>4. \A d \in 0..5 : Behind(d)
  <2>. HIDE DEF Behind
  <2>1. Behind(1)
    BY <1>2, <1>3, 0 + 1 = 1, 0 \in 0..4
  <2>2. Behind(2)
    BY <1>3, <2>1, 1 + 1 = 2, 1 \in 0..4
  <2>3. Behind(3)
    BY <1>3, <2>2, 2 + 1 = 3, 2 \in 0..4
  <2>4. Behind(4)
    BY <1>3, <2>3, 3 + 1 = 4, 3 \in 0..4
  <2>5. Behind(5)
    BY <1>3, <2>4, 4 + 1 = 5, 4 \in 0..4
  <2>6. \A d \in 0..5 : d \in {0, 1, 2, 3, 4, 5}
    BY SMT
  <2>. QED
    BY <1>2, <2>1, <2>2, <2>3, <2>4, <2>5, <2>6
<1>5. ASSUME NEW i \in 1..6
      PROVE  Digit(Full(k, length), 6 - i) = IF i <= length THEN Digit(k, length - i) ELSE 0
  <2>1. 6 - length \in 0..5 /\ 6 - i \in 0..5 /\ (6 - i) - (6 - length) = length - i
        /\ (6 - i >= 6 - length <=> i <= length)
    BY SMT
  <2>2. Behind(6 - length)
    BY <1>4, <2>1
  <2>. QED
    BY <2>1, <2>2 DEF Full
<1>. QED
  BY <1>1, <1>5

\* The arithmetic of KeyBefore: the keys with zeros behind them, and of equal ones the shorter.
LEMMA KeyOrderFull ==
  ASSUME NEW w \in 1..6, NEW n, NEW m, Six(n), Six(m)
  PROVE  LET ln == KeyLength(n, w)  lm == KeyLength(m, w)
         IN  KeyBefore(n, m, w) <=> \/ Full(n, ln) < Full(m, lm)
                                    \/ Full(n, ln) = Full(m, lm) /\ ln < lm
<1>. DEFINE ln == KeyLength(n, w)
            lm == KeyLength(m, w)
            InOrder == KeyBefore(n, m, w) <=> \/ Full(n, ln) < Full(m, lm)
                                              \/ Full(n, ln) = Full(m, lm) /\ ln < lm
<1>1. ln \in 1..6 /\ lm \in 1..6 /\ n \in Nat /\ m \in Nat
  BY KeyString DEF Six
<1>2. KeyBefore(n, m, w) <=> \/ ln = lm /\ n < m
                             \/ ln < lm /\ Shift(n, lm - ln) <= m
                             \/ ln > lm /\ n < Shift(m, ln - lm)
  BY DEF KeyBefore
<1>. HIDE DEF ln, lm
<1>3. /\ 6 - ln \in 0..5 /\ 6 - lm \in 0..5
      /\ Full(n, ln) \in Nat /\ Full(m, lm) \in Nat
  <2>1. 6 - ln \in 0..5 /\ 6 - lm \in 0..5
    BY <1>1, SMT
  <2>. QED
    BY <1>1, <2>1, ZerosKeepOrder DEF Full
<1>4. \A k \in Nat, d \in 1..5 : Shift(k, d) = k * Ten(d)
  <2>1. \A d \in 1..5 : Pow10[d] = Ten(d) /\ d # 0
    BY Powers, SMT
  <2>. QED
    BY <2>1 DEF Shift
<1>5. ASSUME ln = lm
      PROVE  InOrder
  <2>1. n < m <=> Full(n, ln) < Full(m, lm)
    BY <1>1, <1>3, <1>5, ZerosKeepOrder DEF Full
  <2>2. ~ (ln < lm) /\ ~ (ln > lm)
    BY <1>1, <1>5, SMT
  <2>. QED
    BY <1>2, <1>5, <2>1, <2>2
<1>6. ASSUME ln < lm
      PROVE  InOrder
  <2>1. lm - ln \in 1..5 /\ (lm - ln) + (6 - lm) = 6 - ln /\ 6 - ln <= 5 /\ lm - ln \in 0..5
    BY <1>1, <1>6, SMT
  <2>2. (n * Ten(lm - ln)) * Ten(6 - lm) = Full(n, ln)
    BY <1>1, <1>3, <2>1, ZerosAdd DEF Full
  <2>3. n * Ten(lm - ln) \in Nat
    BY <1>1, <2>1, ZerosKeepOrder
  <2>4. n * Ten(lm - ln) <= m <=> Full(n, ln) <= Full(m, lm)
    BY <1>1, <1>3, <2>2, <2>3, ZerosKeepOrder DEF Full
  <2>5. Shift(n, lm - ln) = n * Ten(lm - ln)
    BY <1>1, <1>4, <2>1
  <2>6. ~ (ln = lm) /\ ~ (ln > lm)
    BY <1>1, <1>6, SMT
  <2>7. Full(n, ln) <= Full(m, lm) <=> Full(n, ln) < Full(m, lm) \/ Full(n, ln) = Full(m, lm)
    BY <1>3, SMT
  <2>. QED
    BY <1>2, <1>6, <2>4, <2>5, <2>6, <2>7
<1>7. ASSUME ln > lm
      PROVE  InOrder
  <2>1. ln - lm \in 1..5 /\ (ln - lm) + (6 - ln) = 6 - lm /\ 6 - lm <= 5 /\ ln - lm \in 0..5
    BY <1>1, <1>7, SMT
  <2>2. (m * Ten(ln - lm)) * Ten(6 - ln) = Full(m, lm)
    BY <1>1, <1>3, <2>1, ZerosAdd DEF Full
  <2>3. m * Ten(ln - lm) \in Nat
    BY <1>1, <2>1, ZerosKeepOrder
  <2>4. n < m * Ten(ln - lm) <=> Full(n, ln) < Full(m, lm)
    BY <1>1, <1>3, <2>2, <2>3, ZerosKeepOrder DEF Full
  <2>5. Shift(m, ln - lm) = m * Ten(ln - lm)
    BY <1>1, <1>4, <2>1
  <2>6. ~ (ln = lm) /\ ~ (ln < lm)
    BY <1>1, <1>7, SMT
  <2>. QED
    BY <1>2, <1>7, <2>4, <2>5, <2>6
<1>8. ln = lm \/ ln < lm \/ ln > lm
  BY <1>1, SMT
<1>9. InOrder
  BY <1>5, <1>6, <1>7, <1>8
<1>. QED
  BY <1>9 DEF ln, lm

\* The order of the strings, the same way.
LEMMA StringOrderFull ==
  ASSUME NEW n \in Nat, NEW m \in Nat, NEW L \in 1..6, NEW M \in 1..6, n < Ten(L), m < Ten(M)
  PROVE  StringBefore([i \in 1..L |-> Digit(n, L - i)], [i \in 1..M |-> Digit(m, M - i)])
           <=> Full(n, L) < Full(m, M) \/ (Full(n, L) = Full(m, M) /\ L < M)
<1>. DEFINE a == Full(n, L)
            b == Full(m, M)
            s == [i \in 1..L |-> Digit(n, L - i)]
            t == [i \in 1..M |-> Digit(m, M - i)]
            Here(i) == (\A j \in 1..(i - 1) : j \in 1..L /\ s[j] = t[j]) /\ (i \in 1..L => s[i] < t[i])
<1>1. /\ Six(a) /\ Six(b)
      /\ \A i \in 1..6 : Digit(a, 6 - i) = IF i <= L THEN Digit(n, L - i) ELSE 0
      /\ \A i \in 1..6 : Digit(b, 6 - i) = IF i <= M THEN Digit(m, M - i) ELSE 0
  BY FullDigits
<1>2. \A i \in 1..6 : 6 - i \in 0..5
  BY SMT
<1>3. /\ \A i \in 1..6 : Digit(a, 6 - i) \in 0..9 /\ Digit(b, 6 - i) \in 0..9
      /\ a \in Nat /\ b \in Nat
  <2>1. a \in Nat /\ b \in Nat
    <3>. HIDE DEF a, b
    <3>. QED
      BY <1>1, SMT DEF Six
  <2>. HIDE DEF a, b
  <2>. QED
    BY <1>2, <2>1, OneDigitOff
<1>4. StringBefore(s, t) <=> \E i \in 1..M : Here(i)
  BY DEF StringBefore
<1>5. /\ \A i \in 1..6 : Digit(a, 6 - i) = IF i <= L THEN s[i] ELSE 0
      /\ \A i \in 1..6 : Digit(b, 6 - i) = IF i <= M THEN t[i] ELSE 0
  <2>1. \A i \in 1..6 : (i <= L <=> i \in 1..L) /\ (i <= M <=> i \in 1..M)
    BY SMT
  <2>. QED
    BY <1>1, <2>1
<1>6. /\ a < b <=> \E i \in 1..6 : FirstLess(a, b, i)
      /\ a = b <=> SameUpTo(a, b, 6)
      /\ b < a <=> \E i \in 1..6 : FirstLess(b, a, i)
  BY <1>1, SixPlaces
<1>. HIDE DEF a, b, s, t
<1>7. /\ \A i \in 1..6 : FirstLess(a, b, i) <=> /\ \A j \in 1..(i - 1) : Digit(a, 6 - j) = Digit(b, 6 - j)
                                               /\ Digit(a, 6 - i) < Digit(b, 6 - i)
      /\ \A i \in 1..6 : FirstLess(b, a, i) <=> /\ \A j \in 1..(i - 1) : Digit(b, 6 - j) = Digit(a, 6 - j)
                                               /\ Digit(b, 6 - i) < Digit(a, 6 - i)
      /\ SameUpTo(a, b, 6) <=> \A j \in 1..6 : Digit(a, 6 - j) = Digit(b, 6 - j)
  BY DEF FirstLess, SameUpTo
<1>. DEFINE x(i) == Digit(a, 6 - i)
            y(i) == Digit(b, 6 - i)
<1>8. /\ \A i \in 1..6 : x(i) \in 0..9 /\ y(i) \in 0..9
      /\ \A i \in 1..6 : (i <= L => x(i) = s[i]) /\ (i > L => x(i) = 0)
      /\ \A i \in 1..6 : (i <= M => y(i) = t[i]) /\ (i > M => y(i) = 0)
  <2>. HIDE DEF x, y
  <2>1. \A i \in 1..6 : i > L => ~ (i <= L)
    BY SMT
  <2>2. \A i \in 1..6 : i > M => ~ (i <= M)
    BY SMT
  <2>. QED
    BY <1>3, <1>5, <2>1, <2>2 DEF x, y
<1>9. /\ a < b <=> \E i \in 1..6 : x(i) < y(i) /\ \A j \in 1..(i - 1) : x(j) = y(j)
      /\ b < a <=> \E i \in 1..6 : y(i) < x(i) /\ \A j \in 1..(i - 1) : y(j) = x(j)
      /\ a = b <=> \A j \in 1..6 : x(j) = y(j)
  BY <1>6, <1>7
<1>. HIDE DEF x, y
<1>10. ASSUME NEW i \in 1..M, Here(i)
       PROVE  a < b \/ (a = b /\ L < M)
  <2>1. CASE i <= L
    <3>1. i \in 1..6 /\ i \in 1..L /\ i <= M
      BY <2>1, SMT
    <3>2. x(i) < y(i)
      BY <1>8, <1>10, <2>1, <3>1
    <3>3. \A j \in 1..(i - 1) : j \in 1..6 /\ j <= L /\ j <= M
      BY <2>1, SMT
    <3>4. \A j \in 1..(i - 1) : x(j) = y(j)
      BY <1>8, <1>10, <3>3
    <3>. QED
      BY <1>9, <3>1, <3>2, <3>4
  <2>2. CASE ~ (i <= L)
    <3>1. L \in 1..(i - 1) /\ L < M
      BY <2>2, SMT
    <3>2. i = L + 1
      <4>1. ~ (L + 1 \in 1..(i - 1))
        <5>1. L + 1 \notin 1..L
          BY SMT
        <5>. QED
          BY <1>10, <5>1
      <4>. QED
        BY <2>2, <4>1, SMT
    <3>3. \A j \in 1..L : j \in 1..(i - 1) /\ j \in 1..6 /\ j <= L /\ j <= M
      BY <3>1, <3>2, SMT
    <3>4. \A j \in 1..L : x(j) = y(j)
      BY <1>8, <1>10, <3>3
    <3>5. ASSUME b < a
          PROVE  FALSE
      <4>1. PICK k \in 1..6 : y(k) < x(k)
        BY <1>9, <3>5
      <4>2. CASE k <= L
        <5>1. k \in 1..L
          BY <4>2, SMT
        <5>. QED
          BY <1>8, <3>4, <4>1, <5>1, SMT
      <4>3. CASE ~ (k <= L)
        <5>1. x(k) = 0 /\ y(k) \in 0..9
          BY <1>8, <4>3, SMT
        <5>. QED
          BY <4>1, <5>1, SMT
      <4>. QED
        BY <4>2, <4>3
    <3>. QED
      BY <1>3, <3>1, <3>5, SMT
  <2>. QED
    BY <2>1, <2>2
<1>11. ASSUME L < M, \A j \in 1..L : x(j) = y(j)
       PROVE  \E i \in 1..M : Here(i)
  <2>1. L + 1 \in 1..M /\ L + 1 \notin 1..L
    BY <1>11, SMT
  <2>2. \A j \in 1..((L + 1) - 1) : j \in 1..L /\ j \in 1..6 /\ j <= L /\ j <= M
    BY <1>11, SMT
  <2>3. \A j \in 1..((L + 1) - 1) : j \in 1..L /\ s[j] = t[j]
    BY <1>8, <1>11, <2>2
  <2>. QED
    BY <2>1, <2>3
<1>12. ASSUME a = b, L < M
       PROVE  \E i \in 1..M : Here(i)
  <2>1. \A j \in 1..L : j \in 1..6
    BY SMT
  <2>. QED
    BY <1>9, <1>11, <1>12, <2>1
<1>13. ASSUME a < b
       PROVE  \E i \in 1..M : Here(i)
  <2>1. PICK i \in 1..6 : x(i) < y(i) /\ \A j \in 1..(i - 1) : x(j) = y(j)
    BY <1>9, <1>13
  <2>2. i <= M
    BY <1>8, <2>1, SMT
  <2>3. CASE i <= L
    <3>1. i \in 1..M /\ i \in 1..L
      BY <2>2, <2>3, SMT
    <3>2. s[i] < t[i]
      BY <1>8, <2>1, <2>2, <2>3
    <3>3. \A j \in 1..(i - 1) : j \in 1..L /\ j \in 1..6 /\ j <= L /\ j <= M
      BY <2>2, <2>3, SMT
    <3>4. \A j \in 1..(i - 1) : j \in 1..L /\ s[j] = t[j]
      BY <1>8, <2>1, <3>3
    <3>. QED
      BY <3>1, <3>2, <3>4
  <2>4. CASE ~ (i <= L)
    <3>1. L < M /\ \A j \in 1..L : j \in 1..(i - 1)
      BY <2>2, <2>4, SMT
    <3>. QED
      BY <1>11, <2>1, <3>1
  <2>. QED
    BY <2>3, <2>4
<1>14. StringBefore(s, t) <=> a < b \/ (a = b /\ L < M)
  BY <1>4, <1>10, <1>12, <1>13
<1>. QED
  BY <1>14 DEF a, b, s, t

\* KeyBefore orders numbers as the strings of their keys are ordered, whatever the width:
\* it is the order in which DynamoDB returns the entries.
LEMMA KeysAsStrings ==
  ASSUME NEW w \in 1..6, NEW n, NEW m, Six(n), Six(m)
  PROVE  KeyBefore(n, m, w) <=> StringBefore(PadString(n, w), PadString(m, w))
<1>1. n \in Nat /\ m \in Nat
  BY DEF Six
<1>. DEFINE L == KeyLength(n, w)
            M == KeyLength(m, w)
<1>2. /\ L \in 1..6 /\ n < Ten(L) /\ PadString(n, w) = [i \in 1..L |-> Digit(n, L - i)]
      /\ M \in 1..6 /\ m < Ten(M) /\ PadString(m, w) = [i \in 1..M |-> Digit(m, M - i)]
  BY KeyString
<1>3. KeyBefore(n, m, w) <=> Full(n, L) < Full(m, M) \/ (Full(n, L) = Full(m, M) /\ L < M)
  BY KeyOrderFull
<1>. HIDE DEF L, M
<1>4. StringBefore(PadString(n, w), PadString(m, w))
        <=> Full(n, L) < Full(m, M) \/ (Full(n, L) = Full(m, M) /\ L < M)
  <2>1. StringBefore([i \in 1..L |-> Digit(n, L - i)], [i \in 1..M |-> Digit(m, M - i)])
          <=> Full(n, L) < Full(m, M) \/ (Full(n, L) = Full(m, M) /\ L < M)
    BY <1>1, <1>2, StringOrderFull
  <2>. QED
    BY <1>2, <2>1
<1>. QED
  BY <1>3, <1>4
===============================================================================
