SPECIFICATION ReferenceSpec

CONSTANTS
  LOWEST_SAMPLE_TIME = 1
  RAMP_DOWN_STOP_DURATION = 2
  STATIC_GOAL_DURATION = 2
  STATIC_GOAL_DURATION_SHORT = 1
  DURATION_FACTOR_MIN = 1
  DURATION_FACTOR_MAX = 5
  TrajectoryGoals <- ReachGoals
  Factors = {2}
  Estimates = {0, 1}
  SampleTimes = {1}
  Commands <- SessionCommands
  MaxSessions = 1
  MaxTrajectories = 1
  MaxDuration = 2
  SplineMethods = {"Linear", "Square", "Quintic"}

INVARIANTS
  GoalIsSent
  StopIsStill
  RestAtReachedGoal
  NumbersStayValid
  StaticGoalIsHeld
