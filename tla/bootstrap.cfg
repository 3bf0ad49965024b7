SPECIFICATION FairSpec
CONSTANTS
  Keys = {g1, g2, i1, i2}
  Inline = {i1, i2}
  Override = {i2}
  NoKey = NoKey
  TopUp = 2
  MaxFaults = 2
  MaxEdits = 1
  MaxPool = 1
INVARIANTS
  AppointedWasDurable
  IdentityIsStable
  BatcherHoldsRole
PROPERTY
  StartsUnlessObstructed
