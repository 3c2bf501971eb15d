SPECIFICATION FairSpec
CONSTANTS
  Requests = {r1, r2}
  StoreRequestPayloads = TRUE
  MaxFaults = 1
  MaxCrashes = 1
INVARIANTS TypeOK AuditTellsOneStory EgressIsAudited BlockedRecordsWhole RecordsArePrefixes AnsweredIsClosed
PROPERTIES KeepsTheTrail ExchangesAreProper Responds
