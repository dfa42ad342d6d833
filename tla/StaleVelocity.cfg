SPECIFICATION Spec

CONSTANTS
  MaxTime = 3
  WAIT_TIME = 1
  UINT_MODULUS = 2
  RobotAxes = "Six"
  Offered <- MixedAxes

INVARIANTS
  NoVelocityUnlessConfigured
