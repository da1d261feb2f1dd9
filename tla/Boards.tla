-------------------------------- MODULE Boards ---------------------------------
(***************************************************************************)
(* The read models, backend/src/services/queue-reads.js, beside the engine  *)
(* that keeps writing: the join page, the reception display, a customer's   *)
(* own session and the staff list.                                         *)
(*                                                                         *)
(* Each of them is several reads of the store, and the requests of          *)
(* QueueEngine go on between any two.  A read writes nothing, so that one   *)
(* reader at a time shows everything that many could.                      *)
(***************************************************************************)
EXTENDS QueueEngine

CONSTANTS
  Kinds,         \* the read models that are asked for
  DisplayLimit,  \* the display reads this many items of the partition (8)
  ServiceMinutes \* the queue's average minutes per customer, for one counter

AllKinds == {"public", "display", "session", "staff"}

ASSUME KindsAssumption == Kinds \subseteq AllKinds
ASSUME ReadsAssumption == DisplayLimit \in Nat \ {0} /\ ServiceMinutes \in Nat \ {0}

VARIABLE reader  \* the request being answered, and what it has read so far

boardVars == <<vars, reader>>

NotAsked == [kind |-> "none", pc |-> "idle", me |-> 0, state |-> "NONE",
             serving |-> 0, paused |-> FALSE, waiting |-> {}, named |-> 0]

-------------------------------------------------------------------------------
\* WHAT ONE QUERY RETURNS.

\* Entries in the order of their keys, in front of t.
InFrontOf(t, set) == { u \in set : KeyBefore(u, t, PadWidth) }

\* A partition sorts COUNTER, the CUST# guards, the ENTRY# items, IDEM#, META, and
\* Limit counts items before the filter on their state.
Stored(e) == { t \in Tickets : e[t].state # "NONE" }
\* commitJoin stores CUST#<token> beside every entry, and only leaveQueue deletes it.
TokenGuards(e) == { t \in Stored(e) : e[t].state # "LEFT" }
GuardItems(e) == Cardinality(guards) + Cardinality(TokenGuards(e))
Reached(e) ==
  { t \in Stored(e) : 1 + GuardItems(e) + Cardinality(InFrontOf(t, Stored(e))) < DisplayLimit }
\* A variant that starts behind the cursor, as nextWaitingEntry does.
NextUpFromCursor(e) == KeysAfter(WaitingIn(e), meta.lastServed, PadWidth) \cap Reached(e)
NextUp(e) == WaitingIn(e) \cap Reached(e)

\* countWaitingBeforeMe: no query for the first ticket.
PeopleAhead(e, t) ==
  IF t <= 1 THEN {} ELSE CountedBefore(WaitingIn(e), t, PadWidth)

\* getQueueState counts positions along the list.
ListPosition(e, t) == InFrontOf(t, WaitingIn(e))

\* estimateWaitMinutes; -1 stands for the null of a paused queue.
Estimate(ahead, paused) ==
  IF ahead = 0 THEN 0 ELSE IF paused THEN -1 ELSE ahead * ServiceMinutes

\* What the second read of each kind lists.
Listed(kind, e, t) ==
  CASE kind = "display" -> NextUp(e)
    [] kind = "session" -> PeopleAhead(e, t)
    [] OTHER -> WaitingIn(e)

-------------------------------------------------------------------------------
\* THE READS, in the order of the code.

ReaderTo(r) == reader' = r /\ UNCHANGED vars

\* The public page, the display and the staff list begin with the queue.
Begins(k) == [NotAsked EXCEPT !.kind = k, !.pc = "meta"]
Ask(k) ==
  /\ reader.pc = "idle"
  /\ k \in Kinds \ {"session"}
  /\ ReaderTo(Begins(k))

\* A session begins with the query by token; nothing is answered when it finds none.
AskSession(j) ==
  /\ reader.pc = "idle"
  /\ "session" \in Kinds
  /\ KnowsToken(j)
  /\ \E v \in Views, t \in Tickets :
       /\ v.entry[t].owner = j
       /\ v.entry[t].state \in Active
       /\ ReaderTo([Begins("session") EXCEPT !.me = t, !.state = v.entry[t].state])

\* A customer who is being called is not counted in front of anybody.
Counts(r) == r.kind # "session" \/ r.state = "WAITING"
ServingRead(r) == IF r.serving = 0 THEN "done" ELSE "serving"

ReadQueue ==
  /\ reader.pc = "meta"
  /\ \E v \in Views :
       LET r == [reader EXCEPT !.serving = v.meta.nowServing, !.paused = v.meta.paused]
       IN  ReaderTo([r EXCEPT !.pc = IF Counts(r) THEN "list" ELSE ServingRead(r)])

ReadList ==
  /\ reader.pc = "list"
  /\ \E v \in Views :
       ReaderTo([reader EXCEPT !.waiting = Listed(reader.kind, v.entry, reader.me),
                               !.pc = ServingRead(reader)])

\* Variants that read the queue, or a session's own entry, a second time.
ServingNow(v, r) == v.meta.nowServing
StateNow(v, r) == IF r.me = 0 THEN r.state ELSE v.entry[r.me].state

\* displayOf: the entry that the queue as it was read names, or null; a session keeps the
\* state it began with.
ServingOf(v, r) == IF v.entry[r.serving].state = "NONE" THEN 0 ELSE r.serving
StateOf(v, r) == r.state

ReadServing ==
  /\ reader.pc = "serving"
  /\ \E v \in Views :
       ReaderTo([reader EXCEPT !.pc = "done",
                               !.state = StateOf(v, reader), !.named = ServingOf(v, reader)])

\* The answer is shown, and the next request comes.
Shown == reader.pc = "done" /\ ReaderTo(NotAsked)

ReadStep ==
  \/ \E k \in Kinds : Ask(k)
  \/ \E j \in Joins : AskSession(j)
  \/ ReadQueue \/ ReadList \/ ReadServing \/ Shown

BoardInit == Init /\ reader = NotAsked
BoardNext == ReadStep \/ (Next /\ UNCHANGED reader)
BoardSpec == BoardInit /\ [][BoardNext]_boardVars

-------------------------------------------------------------------------------
\* PROPERTIES

\* With consistent reads no answer shows one customer as being served and as waiting,
\* although a call can fall between the read of the queue and the list: the queue is
\* read first.
ServedIsNotNext ==
  reader.kind \in {"public", "display", "staff"} /\ reader.pc = "done"
    => reader.named \notin reader.waiting

\* With one console and consistent reads, a customer who is told it is their turn is not
\* shown somebody before them at the counter: their entry is read before the queue.
TurnIsNotEarly ==
  reader.state = "CALLED" /\ reader.named # 0 => reader.named >= reader.me

\* As long as the numbers fit padWidth, the staff list and the customer's own page give
\* the same place and the same estimate, although one counts along the list and the
\* other by a range of keys.
PlacesAgree ==
  LET minutes(ahead) == Estimate(Cardinality(ahead), meta.paused)
  IN  LastTicket < Pow10[PadWidth] =>
        \A t \in WaitingIn(entry) :
          /\ PeopleAhead(entry, t) = ListPosition(entry, t)
          /\ minutes(PeopleAhead(entry, t)) = minutes(ListPosition(entry, t))

\* The display's "next up" is everybody who waits, as long as the items the query counts
\* (the counter, the guards of contacts and of tokens and the entries, of all time) fit its
\* limit; beyond it, those who wait are missing.
NextUpIsComplete ==
  [][/\ reader.kind = "display" /\ reader.pc = "list" /\ reader'.pc # "list"
     /\ 1 + GuardItems(entry) + Cardinality(Stored(entry)) <= DisplayLimit
     => reader'.waiting = WaitingIn(entry)]_boardVars
===============================================================================
