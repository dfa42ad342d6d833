SPECIFICATION Spec

CONSTANTS
  RobotJoints = 6
  ExternalJoints = 6
  DEFAULT_NUMBER_OF_ROBOT_JOINTS = 6
  MAX_NUMBER_OF_JOINTS = 12
  MAX_NUMBER_OF_SPLINES = 12
  MaxRobot = 8
  MaxExternal = 13
  UINT_MODULUS = 32
  S_TO_US = 6
  MS_TO_US = 2
  LOWEST_SAMPLE_TIME = 2
  MaxSeconds = 2
  MaxLogTime = 8
  MaxValue = 1
  MaxTime = 3

INVARIANTS
  FeedbackIsSentBack
  PlannedIsReported
  SampleTimeIsElapsed
  LogRowFits
  LogIsBounded
  SplinesAreDistinct
  SplineIsRight
