SPECIFICATION Spec
CONSTANTS
  i1 = i1
  i2 = i2
  q1 = q1
  q2 = q2
  Invoices = {i1, i2}
  Requests = {q1, q2}
  InvoicesOf <- BatchAndSingle
  Hooks = {w1, w2}
  Backends = {"redis"}
  MaxResends = 1
  MaxFaults = 1
  None = None
INVARIANT DuplicatesIgnored
CHECK_DEADLOCK FALSE
