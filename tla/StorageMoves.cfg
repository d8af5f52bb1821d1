CONSTANTS
  Handlers = {h1, h2}
  Folders = {f, g}
  LastName = 2
  PageSize = 2
  ChunkSize = 2
  Absent = Absent
SPECIFICATION Spec
SYMMETRY Symmetry
CHECK_DEADLOCK FALSE
INVARIANTS
  TypeOK
  ReplacedOnlyWhenOvertaken
  RenameKeepsContents
  SuccessMovesAll
  DeletionLeavesOnlyRefused
