SPECIFICATION FairLoopSpec

CONSTANTS
  Users = {u1}

INVARIANTS
  UndisturbedOutputsAreNew

PROPERTIES
  MessageIsAnswered
  WaitReturns
