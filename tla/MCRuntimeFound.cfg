SPECIFICATION Spec
CONSTANTS
  ModuleIds = {m1, m2}
  Handles = {h1, h2}
  NoId = NoId
INVARIANT EveryModuleFound
