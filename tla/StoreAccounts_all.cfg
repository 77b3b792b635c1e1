\* Four requests, two addresses, two store names, one call that fails.
SPECIFICATION Spec
CONSTANTS
  Request = {r1, r2, r3, r4}
  Email = {e1, e2}
  Name = {n1, n2}
  MaxFaults = 1
INVARIANTS ManagersHaveTheirStore NothingLeftBehind
SYMMETRY AccountSymmetry
CHECK_DEADLOCK FALSE
