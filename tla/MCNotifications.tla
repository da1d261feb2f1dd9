--------------------------- MODULE MCNotifications ----------------------------
(***************************************************************************)
(* Small instances of Notifications.                                       *)
(***************************************************************************)
EXTENDS Notifications

CONSTANTS called, closed, w1, w2

\* Customer 1 gave an address, customer 2 only a name.
FirstOnly == [t \in Tickets |-> IF t = 1 THEN {"email"} ELSE {}]
\* Both gave an address and a phone number.
Both == [t \in Tickets |-> Channels]
\* Targeted events are about customer 1.
FirstCalled == [e \in Targeted |-> 1]
===============================================================================
