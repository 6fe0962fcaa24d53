SPECIFICATION Spec
CONSTANTS
  Nil = Nil
  NoReport = NoReport
  Objects <- ObjectsDef
  Batteries <- BatteriesDef
  Workers = 2
  OutlierThreshold = 35
  Scans <- ScansDef
  Observations <- ObservationsDef
  Cadences <- CadencesDef
  Unread = Unread
  HigherIsBad = TRUE
INVARIANT FindingsRestOnObservations
INVARIANT CollapseKeepsStatus
INVARIANT ReportIsHonest
INVARIANT SeriesSound
CHECK_DEADLOCK FALSE
