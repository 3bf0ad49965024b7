SPECIFICATION Spec
CONSTANTS
  Conns = {c1, c2}
  None = None
  MaxRefreshes = 2
INVARIANT ReconnectIsRegistered
