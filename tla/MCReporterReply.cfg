SPECIFICATION FairSpec
CONSTANTS
  Replies = {r1}
  Analyses = {a1}
  Texts = {t1, t2}
  Analysts = {ann, bob}
  Requests = {q1, q2}
  MaxRevision = 5
  MaxLosses = 2
  NoAnalysis = NoAnalysis
  NoPreview = NoPreview
  NoCall = NoCall
INVARIANTS
  PreviewIsSent
  AcceptedAsDelivered
  OneDeliveryPerVerdict
PROPERTIES
  NoLostEdit
  RefinesCorrespondence
  SendingEnds
