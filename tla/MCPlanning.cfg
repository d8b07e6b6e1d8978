SPECIFICATION Spec
CONSTANTS
  Sites <- MCSites
  MaxRuns = 2
  MaxLines = 2
INVARIANTS TypeOK BooksBalance SegmentsFit BandHolds EnoughFronts RingClosed ExpertsServed WiringSurvives
PROPERTIES TightenKeeps PlanEnds
