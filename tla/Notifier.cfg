SPECIFICATION FairSpec
CONSTANTS
  Callers = {c1, c2}
  Kinds = {"failing", "recovered", "db_available"}
  QueueSize = 2
  MaxGlobal = 1
  MinLines = 1
  MaxLines = 2
  MaxAttempts = 2
  MaxEvents = 5
INVARIANTS
  TypeOK
  DatabaseListed
PROPERTIES
  EventsTold
  AllTold
