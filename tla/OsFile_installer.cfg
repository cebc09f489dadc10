SPECIFICATION Spec
CONSTANTS
  Versions <- MCVersions
  PatchSize <- MCPatchSize
  Before = 2
  Afters = {1, 2, 3, 4}
  CHUNK_SIZE = 2
  TemplateSize = 5
  MaxCrashes = 2
INVARIANTS WholeWhenDone OsKept
PROPERTY PersistentEnds
