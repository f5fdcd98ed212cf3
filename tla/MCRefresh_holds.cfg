SPECIFICATION Spec
CONSTANTS
  Feeds = {f1}
  Filters = {}
  Recipes = {r1}
  Rules = {a1}
  Workers = {w1, w2}
  MaxVersion = 2
  MaxFailures = 2
  MaxHold = 2
  MaxRestarts = 1
  Postgres = TRUE
INVARIANTS OneRefreshPerFeed FailuresCountStreak ShutdownNotStored
  RefusedNotRefetched
SYMMETRY Symmetric
