SPECIFICATION Spec
CONSTANTS
  g1 = g1
  g2 = g2
  c1 = c1
  w1 = w1
  w2 = w2
  Groups = {g1, g2}
  Chats = {c1}
  NoGroup = NoGroup
  NoChat = NoChat
  MaxCodes = 2
  MaxLinks = 2
  Workers = {w1, w2}
SYMMETRY Symmetry
CHECK_DEADLOCK FALSE
INVARIANTS
  TypeOK
  OneOpenLink
PROPERTIES
  CodesEndWithLink
  EndsAreFinal
  FailureHitsItsLink
