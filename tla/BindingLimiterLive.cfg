SPECIFICATION GuessingSpec
CONSTANTS
  Binders = {u1}
  Refs = {r1, r2}
  Knows = {}
  Requests = {q1, q2}
  NoBinder = NoBinder
  UserRefLimit = 2
  CustomerRefLimit = 3
  UserTotalLimit = 3
  CacheFaults = FALSE
PROPERTY LockIsReached
