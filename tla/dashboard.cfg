SPECIFICATION FairSpec
CONSTANTS
  a = a
  b = b
  Tokens = {a, b}
  Orgs = {"org1", "org2"}
  OrgOf <- OrgOfToken
  Pages = {"overview", "jobs", "dlq"}
  Queries = {"jobs"}
  MaxVersion = 2
  MaxFailures = 1
INVARIANTS
  TypeOK
  ShownBelongsToSession
  OwnChangesAreShown
PROPERTIES
  ExpiredSessionsEnd
