SPECIFICATION Spec

CONSTANTS
  u1 = u1
  u2 = u2
  Users <- TwoUsers

INVARIANTS
  MutualExclusion
  NoMissedNotification
  RepliesAreOfSession
  WaitGivesNewInputs

PROPERTIES
  ImplementsExchange
