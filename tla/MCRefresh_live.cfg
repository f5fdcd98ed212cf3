SPECIFICATION FairSpec
CONSTANTS
  Feeds = {f1}
  Filters = {}
  Recipes = {r1}
  Rules = {a1}
  Workers = {w1}
  MaxVersion = 2
  MaxFailures = 1
  MaxHold = 1
  MaxRestarts = 1
  Postgres = FALSE
PROPERTIES DueIsRefreshed DeletedForgotten
