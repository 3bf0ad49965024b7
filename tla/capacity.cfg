SPECIFICATION FairSpec
CONSTANTS
  Requests = {r1, r2, r3}
  Concurrencies = {0, 1, 2}
  RatioNum = 1
  RatioDen = 1
  U32 = 4
  MaxClears = 1
  MaxCancels = 1
INVARIANTS
  TypeOK
  ActiveCountsGuards
  QueuedCountsQueuers
  IdleSlotHasNoSleeper
PROPERTIES
  AdmitWithinLimit
  ImplementsSemaphore
  AcquireReturns
