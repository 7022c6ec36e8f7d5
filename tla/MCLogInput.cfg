\* Two connections of two lines, statistics calls at any moment.
SPECIFICATION Spec
CONSTANTS
  c1 = c1
  c2 = c2
  Connections = {c1, c2}
  Lines <- MCLines
  EventIds = {"100", "101"}
  MaxLines = 2
SYMMETRY MCSymmetry
INVARIANTS
  TypeOK
  StatsMeetLiveClients
  CountersAgree
  InsertedAsRead
