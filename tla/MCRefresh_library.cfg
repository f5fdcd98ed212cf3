SPECIFICATION Spec
CONSTANTS
  Feeds = {f1}
  Filters = {x1}
  Recipes = {r1}
  Rules = {a1, a2}
  Workers = {w1, w2}
  MaxVersion = 3
  MaxFailures = 1
  MaxHold = 0
  MaxRestarts = 0
  Postgres = TRUE
INVARIANTS TypeOK SnapshotFresh ResultInForce
  ValidatorMatchesRecipe EditStaysDue
SYMMETRY Symmetric
