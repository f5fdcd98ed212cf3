SPECIFICATION Spec
CONSTANTS
  Keys = {1, 2}
  Dates <- DatesOld
  Titles = {ta}
  Texts = {xa}
  Selectors = {sa, sb}
  RuleSets = {ra, rb}
  KeepSets <- KeepAll
  Limits = {2}
  MaxTime = 2
  MaxVersion = 3
  MaxLead = 1
INVARIANTS
  BodiesMatchSelector
  CleanedBodies
