SPECIFICATION FairSpec
CONSTANTS
  Requests = {r1, r2}
  Streaming = {r2}
  Concurrencies = {1}
  Subscribers = {s1}
  Cap = 2
  Stale = 1
  Ages = {2}
  MaxLives = 1
  MaxPongs = 1
INVARIANTS
  EveryChangeIsTold
  GoneNodeIsNotOnline
PROPERTY
  SubscriberCatchesUp
