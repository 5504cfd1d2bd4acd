SPECIFICATION Spec
CONSTANTS
  Ids = {c1}
  Emails = {e1, e2}
  Cases = {x1}
  CaseOf <- Filing
  Tasks = {t1}
  Analysts = {ann}
  MaxRevision = 4
  MaxWork = 1
  NoCampaign = NoCampaign
  NoEmail = NoEmail
  NoCase = NoCase
  NoTask = NoTask
  NoPage = NoPage
INVARIANTS
  NoCollectiveWork
  ClosedStaysQualified
  CurrentPageIsTrue
PROPERTIES
  ArchivedIsFinal
CHECK_DEADLOCK FALSE
