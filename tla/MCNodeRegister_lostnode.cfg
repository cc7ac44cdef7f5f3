CONSTANTS
  r1 = r1
  r2 = r2
  r3 = r3
  r4 = r4
  c1 = c1
  c2 = c2
  c3 = c3
  NULL = NULL
  Clients = {c1, c2, c3}
  ClientNodes = 3
  Requests = {r1, r2, r3}
  IpOf <- Once
SPECIFICATION Spec
CHECK_DEADLOCK FALSE
INVARIANT AddedIsListed
