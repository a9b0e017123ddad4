CONSTANTS
  IntMax = 11
  SizeModulus = 100
  Payloads <- MCPayloads
  MaxMessages = 3
SPECIFICATION FairSpec
INVARIANTS TypeOK IntactUnlessOvershot BytesInOrder ChainSurvives
PROPERTIES DeliveredUnlessOvershot KeepsPromise
CHECK_DEADLOCK FALSE
