SPECIFICATION Spec
CONSTANTS
  Nodes = {n1, n2}
  Models = {m1}
  Entries <- MCEntries
  Updates = {u1, u2, u3}
  Chats = {c1}
  None = None
INVARIANTS
  CatalogIsCurrent
