SPECIFICATION MCSpec
CONSTANTS
  q1 = q1
  q2 = q2
  q3 = q3
  q4 = q4
  q5 = q5
  get = get
  pay = pay
  acknowledge = acknowledge
  Requests = {q1, q2, q3, q4, q5}
  Calls = {get, pay, acknowledge}
  CallOf <- ReadsAndWrites
  Writes = {pay, acknowledge}
  Mutations = {pay}
  Policies <- AllPolicies
  Cacheable = TRUE
  QueueEnabled = TRUE
  MaxAttempts = 2
  MaxCrashes = 1
  NoCall = NoCall
INVARIANTS PortSafe StaleHasCause
PROPERTY KeepsPromise
CHECK_DEADLOCK FALSE
