SPECIFICATION Spec
CONSTANTS
  c1 = c1
  c2 = c2
  c3 = c3
  p1 = p1
  p2 = p2
  Nobody = nobody
  Credentials = {c1, c2, c3}
  Codes = {p1, p2}
  Sockets = {k1}
  Limit = 2
  CodeTime = 1
  MaxTime = 2
SYMMETRY Alike
INVARIANTS TypeOK SomebodyManages CodesAreExchangedOnce GuessesAreBounded FeedsEndWithTheirCredential
PROPERTIES NothingReopens
CONSTRAINT CodesOrFeeds
