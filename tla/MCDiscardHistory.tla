-------------------------- MODULE MCDiscardHistory --------------------------
(***************************************************************************)
(* A small instance of DiscardHistory.                                     *)
(***************************************************************************)
EXTENDS DiscardHistory

ShortGoals == {<<[reach |-> FALSE, dur |-> 1]>>}
=============================================================================
