SPECIFICATION Spec
CONSTANTS
  Keys = {1, 2}
  Dates <- DatesOld
  Titles = {ta}
  Texts = {xa, xb}
  Selectors = {}
  RuleSets = {ra}
  KeepSets <- KeepAllBut1
  Limits = {1, 2}
  MaxTime = 3
  MaxVersion = 2
  MaxLead = 2
INVARIANTS
  TypeOK
  StoriesBehindFeed
PROPERTIES
  Published
  EntryTimes
  NewMeansInserted

