CONSTANTS
  a1 = a1
  a2 = a2
  c1 = c1
  c2 = c2
  Names = {a1, a2}
  Self = Self
  Clients = {c1}
  MaxHellos = 1
  MaxWrites = 0
  Leaks = FALSE
SPECIFICATION Spec
INVARIANT OfflineAtExit
CHECK_DEADLOCK FALSE
