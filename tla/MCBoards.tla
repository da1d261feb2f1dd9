------------------------------- MODULE MCBoards --------------------------------
(***************************************************************************)
(* Small instances of Boards; the functions on the requests are those of    *)
(* MCQueueEngine.                                                          *)
(***************************************************************************)
EXTENDS Boards, MCQueueEngine
================================================================================
