SPECIFICATION Spec
CONSTANTS
  Tasks = {t1, t2, t3}
  SOFT = SOFT
  HARD = HARD
  DRAIN_AND_DROP = DRAIN_AND_DROP
  MAIN = MAIN
INVARIANTS
  RoutesAlive
  EveryRequestLogged
  CleanExit
SYMMETRY Symmetry
