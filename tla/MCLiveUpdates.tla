---------------------------- MODULE MCLiveUpdates -----------------------------
(***************************************************************************)
(* Instances of LiveUpdates for TLC: a board of the queue and the page of   *)
(* one customer.                                                           *)
(***************************************************************************)
EXTENDS LiveUpdates

CONSTANTS board, phone, ann, queue

\* What the two pages subscribe to.
BoardAndPhone == [p \in {board, phone} |-> IF p = board THEN queue ELSE ann]
===============================================================================
