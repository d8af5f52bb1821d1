CONSTANTS
  HasApiToken = TRUE
  Handlers = {h1, h2}
  AccessTTL = 1
  RefreshTTL = 2
  MaxTime = 3
  MaxPassword = 2
SPECIFICATION Spec
SYMMETRY Symmetry
INVARIANTS
  TypeOK
  OldSessionsEndUnlessLate
  ChangerStaysSignedIn
