------------------------- MODULE NotificationPromise --------------------------
(***************************************************************************)
(* What the notification worker promises, without messages, batches,       *)
(* workers or retries: the comment at the head of notify.js.  A record is   *)
(* written once for each notice; a provider is given a notice after that,  *)
(* once by e-mail and then once by SMS; and an event is done with when      *)
(* every notice it asks for has its record, even if no provider took it,   *)
(* or was refused by the store in the one way that is not tried again.      *)
(***************************************************************************)
EXTENDS Integers

CONSTANTS Targeted, Closures, Tickets, Late, NoTicket, Notices, Channels

VARIABLES
  claimed,  \* the notices that have a record
  refused,  \* the notices given up because their record was refused
  given,    \* how many messages the providers accepted, by notice and channel
  waiting,  \* the customers of the queue, those who come late excepted, who wait
  settled   \* the events that are done with

vars == <<claimed, refused, given, waiting, settled>>

Init ==
  /\ claimed = {}
  /\ refused = {}
  /\ given = [k \in Notices \X Channels |-> 0]
  /\ waiting = Tickets \ Late
  /\ settled = {}

Claim(n) ==
  /\ n \notin claimed
  /\ claimed' = claimed \cup {n}
  /\ UNCHANGED <<refused, given, waiting, settled>>

Refuse(n) ==
  /\ n \notin claimed
  /\ refused' = refused \cup {n}
  /\ UNCHANGED <<claimed, given, waiting, settled>>

Give(n, channel) ==
  /\ n \in claimed
  /\ given[<<n, channel>>] = 0
  /\ channel = "email" => given[<<n, "sms">>] = 0
  /\ given' = [given EXCEPT ![<<n, channel>>] = 1]
  /\ UNCHANGED <<claimed, refused, waiting, settled>>

\* Somebody is called or leaves.
Leave(t) ==
  /\ waiting' = waiting \ {t}
  /\ UNCHANGED <<claimed, refused, given, settled>>

\* A closure asks for a notice to everybody who still waits.
Asks(e) == IF e \in Targeted THEN {<<e, NoTicket>>} ELSE {e} \X waiting

Settle(events) ==
  /\ \A e \in events : Asks(e) \subseteq claimed \cup refused
  /\ settled' = settled \cup events
  /\ UNCHANGED <<claimed, refused, given, waiting>>

Next ==
  \/ \E n \in Notices : Claim(n) \/ Refuse(n) \/ \E channel \in Channels : Give(n, channel)
  \/ \E t \in Tickets : Leave(t)
  \/ \E events \in SUBSET (Targeted \cup Closures) : Settle(events)

Spec == Init /\ [][Next]_vars
===============================================================================
