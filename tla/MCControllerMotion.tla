------------------------ MODULE MCControllerMotion ------------------------
(***************************************************************************)
(* Small instances of ControllerMotion.                                    *)
(***************************************************************************)
EXTENDS ControllerMotion

CONSTANTS u1, u2

TwoUsers == {u1, u2}
=============================================================================
