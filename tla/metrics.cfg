SPECIFICATION Spec
CONSTANTS
  j1 = j1
  j2 = j2
  w = w
  a = a
  b = b
  NoOrg = NoOrg
  Jobs = {j1, j2}
  Workers = {w}
  OrgOf <- MCOrgOf
  Callers <- MCCallers
  NumPoints = 2
  Ttl = 1
  MaxDelay = 1
  Cycle = 4
  HostOffsets = {0, 1}
  Start = 3
  MaxNow = 5
INVARIANTS
  TypeOK
  FiguresBelongTogether
  FiguresAreScoped

  
