SPECIFICATION Spec
CONSTANTS
  NoStore = 0
  CaseMap <- SimCaseMap
  Cases = {"scattered"}
INVARIANT ScatterKeepsIsolation
CHECK_DEADLOCK FALSE
