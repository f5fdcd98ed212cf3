SPECIFICATION ReaderSpec
CONSTANTS
  Keys = {1, 2}
  Dates <- DatesOld
  Titles = {ta, tb}
  Texts = {xa, xb}
  Selectors = {}
  RuleSets = {ra}
  KeepSets <- KeepAll
  Limits = {1}
  MaxTime = 2
  MaxVersion = 2
  MaxLead = 2
INVARIANTS
  ReaderSeesChange
