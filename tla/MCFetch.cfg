SPECIFICATION Spec
CONSTANTS
  Size = 10
  Prefix = 1
  Probe = 2
  Layout <- MCLayout
  Gap = 1
  Retries = 3
  None = none
INVARIANTS TypeOK Stitched Exact RefusedFirst
PROPERTIES FetchEnds
CHECK_DEADLOCK FALSE
