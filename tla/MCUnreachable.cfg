SPECIFICATION Spec
CONSTANTS
  Sites <- FarSites
  MaxRuns = 1
  MaxLines = 1
INVARIANTS LinksAnswer
