CONSTANTS
  Parts = {"usage", "watchers", "quota"}
  Session = {s1}
  Bucket = 2
  NumBuckets = 2
  Lookback = 6
  RateWindow = 1
  CounterMax = 2
  MaxTime = 8
  MaxEvents = 3
  Kind = {"claude", "codex", "antigravity"}
  File = {"f1", "f2"}
  PingFile = {"f2"}
  DeepFile = {"f1"}
  Limit = 2
  MaxLines = 3
  MaxCuts = 1
  Agent = {"claude", "codex", "antigravity"}
  Length <- Lengths
  Stale = 1
  WeeklyStale = 2
  QueryTime = 1
  Responses <- SomeResponses
  MaxNow = 4
  WordBits = 24
  CountBits = 14
  MaxSeconds = 30000
SPECIFICATION ReadingsSpec
INVARIANTS TotalsAreExact AnchorOpensWindow ListIsRecent EachLineOnce ShownIsOfThisWindow WeeklyComes
CHECK_DEADLOCK FALSE
