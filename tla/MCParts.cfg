CONSTANTS
  Handle = {h1, h2}
  Coll = {c0, c1, c2, c3}
  RequestColl = c0
  RequestMap <- MCRequestMap
  Name = {"host", "length"}
  Forbidden = {"host"}
  BadName = "?"
  Raw = {"05", "x"}
  Parsed <- MCParsed
  BadValue = "invalid"
  MaxValues = 2
  Second = 2
  MaxSeconds = 3
  MaxCount = 4
  MaxHops = 5
  MinBuffer = 2
  MaxBuffer = 6
  U32 = 16
  DefaultBacklog = 5
  Argument = {0, 1, 2, 3, 5, 6, 7, 8, 15, 16, 17}
  Res = {r1, r2}
  Rep = {g1}
  Store = {s1, s2, s3}
  Caller = caller
  PoolSize = 1
  MaxArgs = 2
  Manifest = {"empty", "good", "bad", "flaky"}
  Default = "empty"
  NoFile = "none"
  Error = {"timeout", "refused"}
  Fetching <- MCFetching
  Applying <- MCApplying
  Version = {1, 2, 3, 4, 5, 6, 7, 8}
  MaxChanges = 4
SPECIFICATION PartsSpec
INVARIANTS
  PartsTypeOK
  SettingsKept
PROPERTIES
  HeadersKept
  MovedOnce
  StatusIsOfSpec
  Settles
CHECK_DEADLOCK FALSE
