SPECIFICATION FairSpec

CONSTANTS
  Threads = {t1, t2}
  Clients = {c1, c2}
  MaxMessages = 3

\* A server that is closed, or that was never opened, does nothing.
CHECK_DEADLOCK FALSE

INVARIANTS
  OneReceive
  RepliesGoToSender

PROPERTIES
  MessagesAreReceived
