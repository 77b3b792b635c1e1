\* The answer of create_user is lost.
SPECIFICATION Spec
CONSTANTS
  Request = {r1, r2, r3}
  Email = {e1, e2}
  Name = {n1, n2}
  MaxFaults = 1
INVARIANTS NoHalfAccounts
CHECK_DEADLOCK FALSE
