SPECIFICATION FairSpec
CONSTANTS
  Requests = {r1, r2}
  Mixes <- MCMixes
  Chunks = 2
  Receipts = {1, 2}
  Cap = 1
INVARIANTS
  TypeOK
  BodyIsPrefix
  PendingHasOwner
  CompletesOnce
  MeteredWasDelivered
PROPERTY
  DisconnectIsNoticed
  ImplementsAnswers
