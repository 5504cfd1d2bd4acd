SPECIFICATION FairSpec
CONSTANTS
  Analyses = {a1, a2}
  Pages = {1, 2}
  Elsewhere = Elsewhere
  Flows = {f1, f2}
  MaxMoves = 2
  MaxFaults = 1
  MaxRetries = 2
  MaxEvents = 3
  NoReport = NoReport
  NoFlow = NoFlow
 
PROPERTIES
  NavigationLands
  ReportSettles
CHECK_DEADLOCK FALSE
