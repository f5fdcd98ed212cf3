SPECIFICATION AlertSpec
CONSTANTS
  Callers = {c1}
  Kinds = {"failing", "recovered"}
  QueueSize = 1
  MaxGlobal = 1
  MinLines = 0
  MaxLines = 1
  MaxAttempts = 1
  MaxEvents = 3
INVARIANT CountedIsUrgent
