SPECIFICATION Spec
CONSTANTS
  Emails = {e, f}
  NoEmail = NoEmail
  MaxCases = 2
  MaxCampaigns = 2
  MaxRecords = 1
  MaxCalls = 4
SYMMETRY Symmetry
INVARIANT ProjectionIsComplete
PROPERTY StartOnlyAdds
CHECK_DEADLOCK FALSE
