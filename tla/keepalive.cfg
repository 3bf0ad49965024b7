SPECIFICATION PingerSpec
CONSTANTS
  PingInterval = 3
  PongTimeout = 1
  Cap = 2
  MaxTime = 14
INVARIANT
  SilenceIsBounded
PROPERTY
  SilentMeansUnanswered
