SPECIFICATION AccountSpec
CONSTANTS
  Users = {a1, a2}
  Desks = {k1}
INVARIANT AdminAlwaysLeft
CHECK_DEADLOCK FALSE
