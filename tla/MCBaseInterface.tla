-------------------------- MODULE MCBaseInterface --------------------------
(***************************************************************************)
(* Small instances of BaseInterface.                                       *)
(***************************************************************************)
EXTENDS BaseInterface

\* The user switches velocity outputs off and on, or sets the wrong axes.
SixAxes == {[axes |-> "Six", use_velocity_outputs |-> v] : v \in BOOLEAN}
MixedAxes == SixAxes \cup {[axes |-> "None", use_velocity_outputs |-> FALSE]}
=============================================================================
