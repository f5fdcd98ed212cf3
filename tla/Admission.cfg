SPECIFICATION FairSpec
CONSTANTS
  Feeds = {f1, f2}
  Previews = {p1}
  Kinds = {"auto_articles", "solver_articles"}
  Workers = 2
  SolverSlots = 2
  ChromiumSlots = 1
  MaxArticles = 2
  MaxArrivals = 3
INVARIANTS
  TypeOK
  RequestsAdmitted
  WaitsExcused
PROPERTY DueRuns
