------------------------ MODULE MCTrajectoryHistory ------------------------
(***************************************************************************)
(* Small instances of TrajectoryHistory.                                   *)
(***************************************************************************)
EXTENDS TrajectoryHistory, MCTrajectoryMotion
=============================================================================
