------------------------ MODULE MCTrajectoryMotion ------------------------
(***************************************************************************)
(* Small instances of TrajectoryMotion.  A trajectory has two points: the  *)
(* first may have to be reached, the second may lack a duration.           *)
(***************************************************************************)
EXTENDS TrajectoryMotion

via(d) == [reach |-> FALSE, dur |-> d]
stop(d) == [reach |-> TRUE, dur |-> d]

ViaGoals == {<<via(1), via(2)>>}
StopGoals == {<<stop(2), via(NoDuration)>>}

QueueCommands == {"addTrajectory", "stopTrajectory", "resumeTrajectory"}
AllCommands ==
  QueueCommands \cup {"updateDurationFactor", "startStaticGoal", "setStaticGoal",
                      "finishStaticGoal", "retrieveExecutionProgress"}
SessionCommands == AllCommands \ {"updateDurationFactor"}
HistoryCommands == SessionCommands \ {"retrieveExecutionProgress"}
MotionCommands == AllCommands \ {"retrieveExecutionProgress"}
=============================================================================
