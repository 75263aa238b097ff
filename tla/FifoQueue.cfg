SPECIFICATION Spec
CONSTANTS
  Nodes = {n1, n2, n3}
  Tasks = {t1, t2}
  NULL = NULL
  OK = OK
  INVALID_INPUT = INVALID_INPUT
  EMPTY_QUEUE = EMPTY_QUEUE
INVARIANTS
  Linked
  NodesOwned
PROPERTY
  ImplementsTaskQueue
