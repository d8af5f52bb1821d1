CONSTANTS
  LastEntry = 5
  Folders <- MCFolders
  MaxPage = 3
  MaxListEntries = 2
SPECIFICATION Spec
INVARIANTS
  TruncatedMeansMore
