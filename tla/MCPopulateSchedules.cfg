SPECIFICATION Spec
CONSTANTS
  t1 = t1
  t2 = t2
  t3 = t3
  x1 = x1
  x2 = x2
  NoStanox = NoStanox
  Tiplocs = {t1, t2, t3}
  Feeds <- MCFeeds
  MaxStarts = 3
  Parts = {"import"}
  Trains = {a, b, c}
  Movers = {a, b, c}
  Times = {1, 3}
  Delays = {5, 6, 31}
  Hour = 2
  Expiry = 2
  MaxResults = 2
  MaxTime = 3
INVARIANT DoneIsComplete
CHECK_DEADLOCK FALSE
