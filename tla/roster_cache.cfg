CONSTANTS
  Threads = {t1, t2}
  Writers = {w1, w2}
  Names = {a}
  Nameless = Nameless
  Contents = {{}, {a}}
  NoAgents = NoAgents
  Broken = Broken
  Gone = Gone
  Sizes = {1}
  MaxTick = 2
  MaxWrites = 2

SPECIFICATION Spec
SYMMETRY Perms
INVARIANTS TypeOK CacheCoherent AnswerWasRight
