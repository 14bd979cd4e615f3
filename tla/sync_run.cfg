CONSTANTS
  Files = {f1, f2}
  Contents = {x, y}
  None = None
  Torn = Torn
  MaxEdits = 2
SPECIFICATION Spec
INVARIANT TypeOK
PROPERTIES SyncReaches CheckVerdict
