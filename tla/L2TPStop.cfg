\* A client sends up to four messages, one at a time, and disconnects itself as well.
CONSTANTS
  WindowSize = 2  ClientWindow = 1  MaxSent = 4  MaxHello = 0
SPECIFICATION FairSpec
PROPERTIES StopReturns
CHECK_DEADLOCK FALSE
