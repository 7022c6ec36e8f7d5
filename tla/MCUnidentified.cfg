\* One connection: a message of audispd itself, which has no audit id.
SPECIFICATION Spec
CONSTANTS
  c1 = c1
  c2 = c2
  Connections = {c1}
  Lines <- MCLines
  EventIds = {"100", "101"}
  MaxLines = 2
INVARIANT IdentifiedByItself
