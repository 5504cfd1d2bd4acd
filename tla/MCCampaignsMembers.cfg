SPECIFICATION Spec
CONSTANTS
  Ids = {c1}
  Emails = {e1, e2}
  Cases = {x1}
  CaseOf <- Filing
  Tasks = {t1}
  Analysts = {ann}
  MaxRevision = 3
  MaxWork = 1
  NoCampaign = NoCampaign
  NoEmail = NoEmail
  NoCase = NoCase
  NoTask = NoTask
  NoPage = NoPage
PROPERTY MembersAreVersioned
CHECK_DEADLOCK FALSE
