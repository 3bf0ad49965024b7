SPECIFICATION FairSpec
CONSTANTS
  Conns = {c1, c2}
  None = None
  MaxRefreshes = 2
INVARIANTS
  RegisteredIsServed
  OfflineComesLast
PROPERTIES
  ReplacedTunnelCloses
  DeadTunnelIsUnregistered
