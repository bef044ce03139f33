SPECIFICATION Spec
CONSTANTS
  c1 = c1  c2 = c2  j1 = j1  j2 = j2  j3 = j3  j4 = j4  l1 = l1  l2 = l2
  w1 = w1
  WAIT = WAIT
  Callers = {c1, c2}
  Workers = {w1}
  Jobs = {j1, j2, j3, j4, l1, l2}
  Leaf = {l1, l2}
  Throwing = {j1, j3, j4, l2}
  Body <- MCBody
INVARIANTS
  ExceptionIsReported
PROPERTIES
  CallersReturn
  ImplementsJobGroups
CHECK_DEADLOCK FALSE
