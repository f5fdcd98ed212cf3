SPECIFICATION PartsSpec
CONSTANTS
  Current = 3
  Dirs = {d1, d2, d3}
  MaxWrites = 1
  MaxOutages = 1
  CurrentSchema = 3
  Processes = {p1, p2}
  MaxStarts = 3
  AlertFeeds = {f1}
  Settings = {0, 1, 2}
  Hour = 2
  MaxFailures = 3
  MaxRestarts = 1
  Dated = {4}
  Limit = 1
  Kept = 2
  Feeds = {1, 2}
  Filters = {11, 12}
  Transactions = {t1, t2}
  MaxEdits = 1
  Renders = {r1, r2, r3}
  Slots = 2
  Served = 2
  MaxBrowsers = 3
  Periods = {1, 2}
  Choices = {2}
  Floor = 4
  Multiple = 2
  Margin = 2
  Jitter = 1
  Backoffs = {1}
  MaxFails = 1
  MaxTime = 5
  Names = {k1, k2}
INVARIANTS
  TypeOK
  UpgradedWhole
  CopyToGoBackTo
  CopiesBounded
  LeftLockExcused
  AlertsFollowStreak
  OutagesTold
  BacklogEnds
  NoStoryStranded
  NoLockCycle
  RulesValidated
  NoRenderCut
  MarkedForReason
\* Each part may stop: a process that is not started again, a closed pool.
CHECK_DEADLOCK FALSE
