SPECIFICATION Spec
CONSTANTS
  Requests = {r1, r2}
  Concurrencies = {2}
  RatioNum = 1
  RatioDen = 1
  U32 = 8
  MaxClears = 1
  MaxCancels = 0
INVARIANT ActiveReturnsToZero
