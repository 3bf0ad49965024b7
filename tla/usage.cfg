SPECIFICATION FairSpec
CONSTANTS
  u1 = u1
  u2 = u2
  Reports = {u1, u2}
  Sizes <- MCSizes
  TokenChunk = 2
  MaxAttempts = 2
  MaxUnconfirmed = 1
INVARIANTS
  EveryTokenAccounted
  NeverOvercharged
  FullChunkIsBeingFlushed
PROPERTY
  UsageIsSubmitted
