SPECIFICATION Spec
CONSTANTS
  Keys = {1, 2, 3, 4}
  Values = {v1, v2}
  NULL = NULL
  MaxCalls = 5
INVARIANTS
  FreesEveryNode
PROPERTIES
  ImplementsMap
