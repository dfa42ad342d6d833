SPECIFICATION DiscardSpec

CONSTANTS
  LOWEST_SAMPLE_TIME = 1
  RAMP_DOWN_STOP_DURATION = 2
  STATIC_GOAL_DURATION = 2
  STATIC_GOAL_DURATION_SHORT = 1
  DURATION_FACTOR_MIN = 1
  DURATION_FACTOR_MAX = 5
  TrajectoryGoals <- ShortGoals
  Factors = {2}
  Estimates = {1}
  SampleTimes = {1}
  Commands = {"addTrajectory", "stopTrajectory", "resumeTrajectory"}
  MaxSessions = 1
  MaxTrajectories = 2
  MaxDuration = 2

INVARIANTS
  DiscardRemovesAll
