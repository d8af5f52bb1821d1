CONSTANTS
  Handlers = {h1, h2}
  Folders = {f, g}
  LastName = 1
  PageSize = 1
  ChunkSize = 1
  Absent = Absent
SPECIFICATION Spec
CHECK_DEADLOCK FALSE
INVARIANTS
  NothingReplaced
