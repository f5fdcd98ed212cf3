SPECIFICATION Spec
CONSTANTS
  Keys = {1, 2}
  Dates <- DatesOld
  Titles = {ta}
  Texts = {xa}
  Selectors = {sa}
  RuleSets = {ra, rb}
  KeepSets <- KeepAll
  Limits = {1}
  MaxTime = 3
  MaxVersion = 2
  MaxLead = 1
PROPERTIES
  CleanupKeepsUnlisted
