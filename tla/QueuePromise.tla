----------------------------- MODULE QueuePromise -----------------------------
(***************************************************************************)
(* What the queue engine promises, without requests, reads or retries: the *)
(* comment at the head of queue-engine.js.  Numbers are issued one by one   *)
(* while the queue is open.  A number enters the line for one customer, if  *)
(* no e-mail address, phone number or idempotency key of theirs is in it.   *)
(* A waiting customer is called once; a called one is served or skipped;    *)
(* both may leave; and nobody comes back.                                  *)
(***************************************************************************)
EXTENDS Integers

CONSTANTS Customers, ContactsOf, KeyOf, None, Numbers, First

VARIABLES
  open,    \* whether numbers are being issued
  issued,  \* the last number issued
  line     \* each number's state and the customer who holds it

vars == <<open, issued, line>>

Present == {"WAITING", "CALLED"}
Absent == [state |-> "NONE", owner |-> None]
InState(n, s) == line[n].state = s

Init ==
  /\ open = TRUE
  /\ issued = First
  /\ line = [n \in Numbers |-> IF n <= First THEN [Absent EXCEPT !.state = "SERVED"] ELSE Absent]

SwitchOpen == open' \in BOOLEAN /\ UNCHANGED <<issued, line>>

Issue == open /\ issued' = issued + 1 /\ UNCHANGED <<open, line>>

\* n holds somebody a request of c must not come on top of.
Excludes(n, c) ==
  LET other == line[n].owner
  IN  other # None /\ \/ other = c
                      \/ KeyOf[c] # None /\ KeyOf[other] = KeyOf[c]
                      \/ line[n].state \in Present /\ ContactsOf[other] \cap ContactsOf[c] # {}

Enter(n, c) ==
  /\ n <= issued /\ InState(n, "NONE")
  /\ \A m \in Numbers : ~ Excludes(m, c)
  /\ line' = [line EXCEPT ![n] = [state |-> "WAITING", owner |-> c]]
  /\ UNCHANGED <<open, issued>>

\* The next customer is called and at most one called customer is served by it.
Call(n, done) ==
  /\ InState(n, "WAITING")
  /\ \A m \in done : InState(m, "CALLED")
  /\ line' = [m \in Numbers |->
                IF m = n THEN [line[m] EXCEPT !.state = "CALLED"]
                ELSE IF m \in done THEN [line[m] EXCEPT !.state = "SERVED"]
                ELSE line[m]]
  /\ UNCHANGED <<open, issued>>

Finish(n, s) ==
  /\ \/ InState(n, "CALLED") /\ s \in {"SERVED", "SKIPPED"}
     \/ line[n].state \in Present /\ s = "LEFT"
  /\ line' = [line EXCEPT ![n].state = s]
  /\ UNCHANGED <<open, issued>>

Next ==
  \/ SwitchOpen
  \/ Issue
  \/ \E n \in Numbers :
       \/ \E c \in Customers : Enter(n, c)
       \/ \E done \in {{}} \cup {{m} : m \in Numbers} : Call(n, done)
       \/ \E s \in {"SERVED", "SKIPPED", "LEFT"} : Finish(n, s)

Spec == Init /\ [][Next]_vars
===============================================================================
