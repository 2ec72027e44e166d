SPECIFICATION Spec
CONSTANTS
  u = u
  a = a
  b = b
  c = c
  x = x
  n = n
  Users = {u}
  Sessions = {s1, s2}
  Refs = {a, b, c, x, n}
  Requests = {q1, q2, q3}
  SessionUser <- OwnerOfAll
  Seeds <- HouseholdOrNewcomer
  Ext <- ExtRef
  New <- NewRef
  NoRef = NoRef
  NoSession = NoSession
SYMMETRY SlotSymmetry
INVARIANTS BindingSafe GuardServesVerified
