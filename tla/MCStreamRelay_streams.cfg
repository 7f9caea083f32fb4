SPECIFICATION Spec
CONSTANTS
  Routes <- AllRoutes
  Texts <- TagTexts
  CallIds <- Ids
  Names = {"f", "g"}
  MaxText = 4
  MaxArgs = 1
  MaxParts = 3
  ChunkSize = 2
  Waived <- None
INVARIANTS StreamWellFormed StreamAgreesWithWhole EndsWithReason CutOffShows
PROPERTIES ReportedUsageCounts
CHECK_DEADLOCK FALSE
