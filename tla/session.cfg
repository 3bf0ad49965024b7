SPECIFICATION FairSpec
CONSTANTS
  Clients = {c1}
  Flushers = {f1}
  StartHead = 2
  MaxHead = 5
INVARIANTS
  TypeOK
  NoBlockSkipped
  HandledOnce
PROPERTIES
  StaysForgotten
  ReleaseIsHandled
