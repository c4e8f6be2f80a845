CONSTANTS
  Requests = {r1, r2, r3}
  Nobody = Nobody
  ann = ann
  bob = bob
  cid = cid
  k1 = k1
  k2 = k2
  MaxLists = 2
  Emails <- ThreeEmails
  Keys <- TwoKeys
  Labels <- TwoLabels
  MaxFields = 1
  Batches <- SomeBatches
  Definitions <- SomeDefinitions
  Books <- SomeBooks
  MaxCampaigns = 2
  Placeholders <- SomePlaceholders
  MaxEntries = 3
  MaxQueued = 1
SPECIFICATION Spec
SYMMETRY Symmetry
INVARIANTS ListWellFormed BatchAccountable ReferencesHold NothingUnconfirmed
CHECK_DEADLOCK FALSE
