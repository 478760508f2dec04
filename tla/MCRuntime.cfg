SPECIFICATION FairSpec
CONSTANTS
  ModuleIds = {m1, m2}
  Handles = {h1, h2, h3}
  NoId = NoId
INVARIANTS TypeOK RefsMatchHolders HeldIsMapped DroppedIsHeld
PROPERTIES DroppedIsReclaimed ImplementsStore
