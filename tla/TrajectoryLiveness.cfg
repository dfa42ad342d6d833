SPECIFICATION FairHistorySpec

CONSTANTS
  LOWEST_SAMPLE_TIME = 1
  RAMP_DOWN_STOP_DURATION = 2
  STATIC_GOAL_DURATION = 2
  STATIC_GOAL_DURATION_SHORT = 1
  DURATION_FACTOR_MIN = 1
  DURATION_FACTOR_MAX = 5
  TrajectoryGoals <- ViaGoals
  Factors = {2}
  Estimates = {1}
  SampleTimes = {1}
  Commands <- MotionCommands
  MaxSessions = 1
  MaxTrajectories = 1
  MaxDuration = 2

PROPERTIES
  RampDownCompletes
  ResumeTakesEffect
  QueueDrains
  FairlyFollowsExecutionStates
