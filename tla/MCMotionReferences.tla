------------------------ MODULE MCMotionReferences ------------------------
(***************************************************************************)
(* Small instances of MotionReferences: a trajectory has a point to pass   *)
(* and a last point, or a point to reach and a last point.                 *)
(***************************************************************************)
EXTENDS MotionReferences, MCTrajectoryMotion

ReachGoals == {<<via(2), via(2)>>, <<stop(2), via(NoDuration)>>}
=============================================================================
