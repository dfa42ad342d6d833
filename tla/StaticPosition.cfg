SPECIFICATION ReferenceSpec

CONSTANTS
  LOWEST_SAMPLE_TIME = 1
  RAMP_DOWN_STOP_DURATION = 2
  STATIC_GOAL_DURATION = 2
  STATIC_GOAL_DURATION_SHORT = 1
  DURATION_FACTOR_MIN = 1
  DURATION_FACTOR_MAX = 5
  TrajectoryGoals <- StopGoals
  Factors = {2}
  Estimates = {1}
  SampleTimes = {1}
  Commands <- SessionCommands
  MaxSessions = 1
  MaxTrajectories = 1
  MaxDuration = 3
  SplineMethods = {"Linear", "Square", "Quintic"}

INVARIANTS
  StaticPositionIsHeld
