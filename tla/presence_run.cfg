CONSTANTS
  a1 = a1
  a2 = a2
  c1 = c1
  c2 = c2
  Names = {a1, a2}
  Self = Self
  Clients = {c1}
  MaxHellos = 2
  MaxWrites = 2
  Leaks = TRUE
SPECIFICATION FairSpec
INVARIANTS TypeOK QuietExitOffline
PROPERTIES HelloAnswered ShutdownEnds
CHECK_DEADLOCK FALSE
